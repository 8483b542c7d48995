-------------------------- MODULE AggregatorProofs --------------------------
(* Theorems about Aggregator, for every value of its constants.            *)
EXTENDS Aggregator, NaturalLemmas, SequenceTheorems, TLAPS

LEMMA ExportType ==
  ASSUME NEW k \in Keys, NEW f \in FlowType, NEW n \in Nat
  PROVE  Export(k, f, n) \in ResultType
BY DEF Export, FlowType, ResultType

LEMMA AccumulateType ==
  ASSUME NEW f \in FlowType, NEW r \in ReportType, NEW c \in Callers
  PROVE  /\ Accumulate(f, r, c) \in FlowType
         /\ Accumulate(f, r, c).packets = f.packets + 1
<1>1. r.len \in Nat /\ r.at \in Nat
  BY BoundsAssumption DEF BoundsAssumption, ReportType
<1>2. /\ f.firstSeen \in Nat /\ f.packets \in Nat /\ f.bytes \in Nat
      /\ f.from \subseteq Callers
  BY DEF FlowType
<1>3. (IF f.packets = 0 THEN r.at ELSE f.firstSeen) \in Nat
  BY <1>1, <1>2
<1>4. f.bytes + r.len \in Nat /\ f.packets + 1 \in Nat
  BY <1>1, <1>2
<1>5. f.from \cup {c} \in SUBSET Callers
  BY <1>2
<1>. QED
  BY <1>1, <1>3, <1>4, <1>5 DEF Accumulate, FlowType

LEMMA NoFlowType == NoFlow \in FlowType /\ NoFlow.packets = 0
BY DEF NoFlow, FlowType

LEMMA DeletedType ==
  ASSUME flows \in [Keys -> FlowType], NEW K
  PROVE  Deleted(K) \in [Keys -> FlowType]
BY NoFlowType DEF Deleted

LEMMA WindowIdType ==
  ASSUME NEW r \in ResultType
  PROVE  WindowId(r) \in IdType
BY DEF WindowId, ResultType, IdType

(* The capacity of the results channel is only tested by the sweep.        *)
LEMMA PushType ==
  ASSUME NEW s \in Seq(ResultType), NEW r \in ResultType, Len(s) < resultsCap
  PROVE  Append(s, r) \in Seq(ResultType) /\ Len(Append(s, r)) <= resultsCap
BY BoundsAssumption DEF BoundsAssumption

LEMMA TailType ==
  ASSUME NEW s \in Seq(ResultType), s # <<>>, Len(s) <= resultsCap
  PROVE  /\ Head(s) \in ResultType
         /\ Tail(s) \in Seq(ResultType) /\ Len(Tail(s)) <= resultsCap
BY BoundsAssumption DEF BoundsAssumption

-----------------------------------------------------------------------------
(* Type correctness, one lemma for each part of the system. *)

LEMMA InitType == Init => TypeOK
<1> SUFFICES ASSUME Init PROVE TypeOK
  OBVIOUS
<1>1. flows \in [Keys -> FlowType]
  BY NoFlowType DEF Init
<1>2. results \in Seq(ResultType) /\ Len(results) <= resultsCap
  BY BoundsAssumption DEF BoundsAssumption, Init
<1>3. /\ waiting \in [Callers -> SUBSET ReportType]
      /\ returned \in [Callers -> SUBSET ResultType]
      /\ closing \in [Closers -> {"out", "closing", "waiting", "returned"}]
  BY DEF Init
<1>4. windows \in [Keys -> Nat] /\ seen \in [Keys -> Nat]
  BY DEF Init
<1>. QED
  BY <1>1, <1>2, <1>3, <1>4 DEF Init, TypeOK

LEMMA IngestReadType ==
  ASSUME TypeOK, NEW c \in Callers, NEW k \in Keys, NEW len \in Lengths,
         IngestRead(c, k, len)
  PROVE  TypeOK'
<1>1. [key |-> k, len |-> len, at |-> now] \in ReportType
  BY DEF TypeOK, ReportType
<1>2. waiting' \in [Callers -> SUBSET ReportType]
  BY <1>1 DEF TypeOK, IngestRead
<1>. QED
  BY <1>2 DEF TypeOK, IngestRead, sweepVars, closeVars, ghostVars

LEMMA IngestLockedType ==
  ASSUME TypeOK, NEW c \in Callers, IngestLocked(c)
  PROVE  TypeOK'
<1>1. PICK r \in waiting[c] : CountReport(c, r)
  BY DEF IngestLocked
<1>. DEFINE k == r.key
            f == Accumulate(flows[k], r, c)
            n == IF Open(k) THEN windows[k] ELSE windows[k] + 1
<1>2. r \in ReportType /\ k \in Keys
  BY DEF TypeOK, ReportType
<1>3. f \in FlowType
  BY <1>2, AccumulateType DEF TypeOK
<1>4. n \in Nat
  BY <1>2 DEF TypeOK
<1>5. Export(k, f, n) \in ResultType
  BY <1>2, <1>3, <1>4, ExportType
<1>6. flows' \in [Keys -> FlowType]
  <2>1. Deleted({k}) \in [Keys -> FlowType]
    BY DeletedType DEF TypeOK
  <2>2. [flows EXCEPT ![k] = f] \in [Keys -> FlowType]
    BY <1>3 DEF TypeOK
  <2>. QED
    BY <1>1, <2>1, <2>2 DEF CountReport
<1>7. returned' \in [Callers -> SUBSET ResultType]
  BY <1>1, <1>5 DEF TypeOK, CountReport
<1>8. waiting' \in [Callers -> SUBSET ReportType]
  BY <1>1 DEF TypeOK, CountReport
<1>9. windows' \in [Keys -> Nat] /\ seen' \in [Keys -> Nat]
  BY <1>1, <1>2, <1>4 DEF TypeOK, CountReport
<1>. QED
  BY <1>1, <1>6, <1>7, <1>8, <1>9 DEF TypeOK, CountReport, sweepVars, closeVars

LEMMA AdvanceType == TypeOK /\ Advance => TypeOK'
BY DEF TypeOK, Advance, callVars, closeVars, ghostVars

LEMMA SweepTickType == TypeOK /\ SweepTick => TypeOK'
BY DEF TypeOK, SweepTick, callVars, closeVars, ghostVars

LEMMA ExportedType ==
  ASSUME TypeOK, NEW k \in Keys
  PROVE  Exported(k) \in ResultType /\ WindowId(Exported(k)) \in IdType
BY ExportType, WindowIdType DEF TypeOK, Exported

LEMMA SweepScanType == ASSUME TypeOK, SweepScan PROVE TypeOK'
<1>1. ready' \subseteq ResultType
  BY ExportedType DEF SweepScan, Ripe
<1>2. lost' \subseteq IdType
  BY ExportedType DEF TypeOK, SweepScan, Thin
<1>3. flows' \in [Keys -> FlowType]
  BY DeletedType DEF TypeOK, SweepScan
<1>. QED
  BY <1>1, <1>2, <1>3 DEF TypeOK, SweepScan, callVars, closeVars

LEMMA SweepPushType ==
  ASSUME TypeOK, NEW r \in ready, SweepPush(r)
  PROVE  TypeOK'
<1>1. r \in ResultType /\ WindowId(r) \in IdType
  BY WindowIdType DEF TypeOK
<1>2. results' \in Seq(ResultType) /\ Len(results') <= resultsCap
  <2>1. CASE Len(results) < resultsCap
    BY <1>1, <2>1, PushType DEF TypeOK, SweepPush
  <2>2. CASE ~(Len(results) < resultsCap)
    BY <2>2 DEF TypeOK, SweepPush
  <2>. QED
    BY <2>1, <2>2
<1>3. lost' \subseteq IdType /\ ready' \subseteq ResultType
  BY <1>1 DEF TypeOK, SweepPush
<1>. QED
  BY <1>2, <1>3 DEF TypeOK, SweepPush, callVars, closeVars

LEMMA SweepDoneType == TypeOK /\ SweepDone => TypeOK'
BY DEF TypeOK, SweepDone, callVars, closeVars, ghostVars

LEMMA SweepStopType == TypeOK /\ SweepStop => TypeOK'
BY DEF TypeOK, SweepStop, callVars, closeVars, ghostVars

LEMMA CloseType == ASSUME TypeOK, NEW c \in Closers, Close(c) PROVE TypeOK'
<1>1. closing' \in [Closers -> {"out", "closing", "waiting", "returned"}]
  BY DEF TypeOK, Close, CloseCheck, CloseStop, CloseReturn
<1>2. stopped' \in BOOLEAN /\ panicked' \in BOOLEAN
  BY DEF TypeOK, Close, CloseCheck, CloseStop, CloseReturn
<1>3. UNCHANGED <<now, flows, sweepVars, callVars, ghostVars>>
  BY DEF Close, CloseCheck, CloseStop, CloseReturn
<1>. QED
  BY <1>1, <1>2, <1>3 DEF TypeOK, sweepVars, callVars, ghostVars

LEMMA TakeReturnedType ==
  ASSUME TypeOK, NEW c \in Callers, TakeReturned(c)
  PROVE  TypeOK'
<1>1. taken' \subseteq IdType
  BY WindowIdType DEF TypeOK, TakeReturned
<1>2. returned' \in [Callers -> SUBSET ResultType]
  BY DEF TypeOK, TakeReturned
<1>. QED
  BY <1>1, <1>2 DEF TypeOK, TakeReturned, sweepVars, closeVars

LEMMA TakeResultType == ASSUME TypeOK, TakeResult PROVE TypeOK'
<1>1. /\ results' \in Seq(ResultType) /\ Len(results') <= resultsCap
      /\ Head(results) \in ResultType
  BY TailType DEF TypeOK, TakeResult
<1>2. taken' \subseteq IdType
  BY <1>1, WindowIdType DEF TypeOK, TakeResult
<1>. QED
  BY <1>1, <1>2 DEF TypeOK, TakeResult, callVars, closeVars

(* What a step of the aggregator may be, without the bounds of an instance *)
(* and whoever calls it: the steps of Next, and those of a server.         *)
AnyIngest(c) ==
  \/ \E k \in Keys, len \in Lengths : IngestRead(c, k, len)
  \/ IngestLocked(c)
AnyStep ==
  \/ \E c \in Callers : AnyIngest(c) \/ TakeReturned(c)
  \/ Advance \/ Sweep \/ SweepStop \/ TakeResult
  \/ \E c \in Closers : Close(c)

LEMMA NextIsStep == [Next]_aggVars => [AnyStep]_aggVars
BY DEF Next, Ingest, AnyIngest, AnyStep

LEMMA NextType == TypeOK /\ [AnyStep]_aggVars => TypeOK'
<1> SUFFICES ASSUME TypeOK, [AnyStep]_aggVars PROVE TypeOK'
  OBVIOUS
<1>1. ASSUME NEW c \in Callers, AnyIngest(c) PROVE TypeOK'
  BY <1>1, IngestReadType, IngestLockedType DEF AnyIngest
<1>2. ASSUME NEW c \in Callers, TakeReturned(c) PROVE TypeOK'
  BY <1>2, TakeReturnedType
<1>3. CASE Advance \/ Sweep \/ SweepStop \/ TakeResult
  BY <1>3, AdvanceType, SweepTickType, SweepScanType, SweepPushType,
     SweepDoneType, SweepStopType, TakeResultType DEF Sweep
<1>4. ASSUME NEW c \in Closers, Close(c) PROVE TypeOK'
  BY <1>4, CloseType
<1>5. CASE UNCHANGED aggVars
  BY <1>5 DEF aggVars, TypeOK
<1>. QED
  BY <1>1, <1>2, <1>3, <1>4, <1>5 DEF AnyStep

(* Every variable keeps its type and the results channel its capacity, for *)
(* any number of callers and closers.                                      *)
THEOREM TypeCorrect == Spec => []TypeOK
BY InitType, NextType, NextIsStep, PTL DEF Spec

-----------------------------------------------------------------------------
(* The size of windows.  WindowSizes is inductive given TypeOK: a flow     *)
(* below maxPackets gains one packet and is exported when that fills it.   *)

LEMMA InitSizes == Init => WindowSizes
BY BoundsAssumption
   DEF BoundsAssumption, Init, WindowSizes, InFlight, Queued, Handed, NoFlow

(* A window that Ingest exports has exactly maxPackets packets.            *)
LEMMA CountReportSizes ==
  ASSUME TypeOK, WindowSizes, NEW c \in Callers, NEW r \in ReportType,
         CountReport(c, r)
  PROVE  WindowSizes'
<1>. DEFINE k == r.key
            f == Accumulate(flows[k], r, c)
            n == IF Open(k) THEN windows[k] ELSE windows[k] + 1
<1>1. k \in Keys /\ flows[k] \in FlowType /\ flows[k].packets \in Nat
  BY DEF TypeOK, ReportType, FlowType
<1>2. f.packets = flows[k].packets + 1 /\ f.packets <= maxPackets
  BY <1>1, AccumulateType, BoundsAssumption DEF BoundsAssumption, WindowSizes
<1>3. Full(f) => Export(k, f, n).packets \in minPackets .. maxPackets
  BY <1>1, <1>2, BoundsAssumption DEF BoundsAssumption, Full, Export
<1>4. \A d \in Callers : \A q \in returned'[d] :
         q \in returned[d] \/ (Full(f) /\ q = Export(k, f, n))
  BY DEF TypeOK, CountReport
<1>5. \A q \in InFlight' : q.packets \in minPackets .. maxPackets
  BY <1>3, <1>4 DEF CountReport, WindowSizes, InFlight, Queued, Handed, sweepVars
<1>6. \A j \in Keys : flows'[j].packets < maxPackets
  <2>1. CASE Full(f)
    BY <2>1, NoFlowType, BoundsAssumption
       DEF BoundsAssumption, CountReport, WindowSizes, Deleted
  <2>2. CASE ~Full(f)
    BY <1>1, <1>2, <2>2, BoundsAssumption
       DEF BoundsAssumption, TypeOK, CountReport, WindowSizes, Full
  <2>. QED
    BY <2>1, <2>2
<1>. QED
  BY <1>5, <1>6 DEF WindowSizes

(* The sweep exports a window only when it has minPackets packets.         *)
LEMMA SweepScanSizes == ASSUME TypeOK, WindowSizes, SweepScan PROVE WindowSizes'
<1>1. \A k \in Ripe : Exported(k).packets \in minPackets .. maxPackets
  BY BoundsAssumption
     DEF BoundsAssumption, TypeOK, FlowType, WindowSizes, Ripe, Enough, Exported, Export
<1>2. \A q \in InFlight' : q.packets \in minPackets .. maxPackets
  BY <1>1 DEF SweepScan, WindowSizes, InFlight, Queued, Handed, callVars
<1>3. \A k \in Keys : flows'[k].packets < maxPackets
  BY NoFlowType, BoundsAssumption
     DEF BoundsAssumption, SweepScan, WindowSizes, Deleted
<1>. QED
  BY <1>2, <1>3 DEF WindowSizes

(* The members of a longer channel.                                        *)
LEMMA AppendMembers ==
  ASSUME NEW T, NEW s \in Seq(T), NEW r \in T, NEW i \in 1 .. Len(Append(s, r))
  PROVE  Append(s, r)[i] = r \/ (i \in 1 .. Len(s) /\ Append(s, r)[i] = s[i])
OBVIOUS

(* Every other step only moves results on, or drops them.                  *)
LEMMA SmallerSizes ==
  ASSUME WindowSizes, UNCHANGED flows, InFlight' \subseteq InFlight
  PROVE  WindowSizes'
BY DEF WindowSizes

LEMMA SweepPushSizes ==
  ASSUME TypeOK, WindowSizes, NEW r \in ready, SweepPush(r)
  PROVE  WindowSizes'
<1>1. Queued' \subseteq Queued \cup {r}
  <2>1. CASE Len(results) < resultsCap
    <3>1. results \in Seq(ResultType) /\ r \in ResultType
      BY DEF TypeOK
    <3>2. results' = Append(results, r)
      BY <2>1 DEF SweepPush
    <3>. QED
      BY <3>1, <3>2, AppendMembers DEF Queued
  <2>2. CASE ~(Len(results) < resultsCap)
    BY <2>2 DEF SweepPush, Queued
  <2>. QED
    BY <2>1, <2>2
<1>2. Handed' = Handed /\ ready' \subseteq ready
  BY DEF SweepPush, Handed, callVars
<1>. QED
  BY <1>1, <1>2, SmallerSizes DEF SweepPush, InFlight

LEMMA TakeReturnedSizes ==
  ASSUME TypeOK, WindowSizes, NEW c \in Callers, TakeReturned(c)
  PROVE  WindowSizes'
<1>1. Handed' \subseteq Handed
  BY DEF TypeOK, TakeReturned, Handed
<1>2. Queued' = Queued /\ ready' = ready
  BY DEF TakeReturned, Queued, sweepVars
<1>. QED
  BY <1>1, <1>2, SmallerSizes DEF TakeReturned, InFlight

LEMMA TakeResultSizes == ASSUME TypeOK, WindowSizes, TakeResult PROVE WindowSizes'
<1>1. Queued' \subseteq Queued
  BY DEF TypeOK, TakeResult, Queued
<1>2. Handed' = Handed /\ ready' = ready
  BY DEF TakeResult, Handed, callVars
<1>. QED
  BY <1>1, <1>2, SmallerSizes DEF TakeResult, InFlight

(* Steps that touch neither flows nor results in flight.                   *)
LEMMA IdleSizes ==
  ASSUME WindowSizes, UNCHANGED <<flows, results, ready, returned>>
  PROVE  WindowSizes'
BY DEF WindowSizes, InFlight, Queued, Handed

LEMMA NextSizes == TypeOK /\ WindowSizes /\ [AnyStep]_aggVars => WindowSizes'
<1> SUFFICES ASSUME TypeOK, WindowSizes, [AnyStep]_aggVars PROVE WindowSizes'
  OBVIOUS
<1>1. ASSUME NEW c \in Callers, AnyIngest(c) PROVE WindowSizes'
  <2>1. CASE \E k \in Keys, len \in Lengths : IngestRead(c, k, len)
    BY <2>1, IdleSizes DEF IngestRead, sweepVars
  <2>2. CASE IngestLocked(c)
    BY <2>2, CountReportSizes DEF IngestLocked, TypeOK
  <2>. QED
    BY <1>1, <2>1, <2>2 DEF AnyIngest
<1>2. ASSUME NEW c \in Callers, TakeReturned(c) PROVE WindowSizes'
  BY <1>2, TakeReturnedSizes
<1>3. CASE Advance \/ SweepTick \/ SweepDone \/ SweepStop
  BY <1>3, IdleSizes DEF Advance, SweepTick, SweepDone, SweepStop, callVars
<1>4. CASE SweepScan \/ (\E r \in ready : SweepPush(r)) \/ TakeResult
  BY <1>4, SweepScanSizes, SweepPushSizes, TakeResultSizes
<1>5. ASSUME NEW c \in Closers, Close(c) PROVE WindowSizes'
  BY <1>5, IdleSizes
     DEF Close, CloseCheck, CloseStop, CloseReturn, sweepVars, callVars
<1>6. CASE UNCHANGED aggVars
  BY <1>6, IdleSizes DEF aggVars
<1>. QED
  BY <1>1, <1>2, <1>3, <1>4, <1>5, <1>6 DEF AnyStep, Sweep

(* A window that will be evaluated has between minPackets and maxPackets   *)
(* packets, and no open flow reaches maxPackets, however many callers race *)
(* with the sweep.                                                         *)
THEOREM SizesBounded == Spec => []WindowSizes
BY InitSizes, NextSizes, NextIsStep, TypeCorrect, PTL DEF Spec

-----------------------------------------------------------------------------
(* The end of the sweep goroutine.  CloseStopsSweep becomes inductive with *)
(* what the goroutine holds at each place: results to push only while it   *)
(* pushes, no tick once it has ended.                                      *)

SweepHolds ==
  /\ sweeper \in {"select", "scanning", "stopped"} => ready = {}
  /\ sweeper = "stopped" => tick = {}
  /\ (\E c \in Closers : closing[c] = "returned") => sweeper = "stopped"

LEMMA NextHolds == TypeOK /\ SweepHolds /\ [AnyStep]_aggVars => SweepHolds'
<1> SUFFICES ASSUME TypeOK, SweepHolds, [AnyStep]_aggVars PROVE SweepHolds'
  OBVIOUS
<1>1. ASSUME NEW c \in Callers, AnyIngest(c) \/ TakeReturned(c) PROVE SweepHolds'
  BY <1>1 DEF SweepHolds, AnyIngest, IngestRead, IngestLocked, CountReport,
              TakeReturned, sweepVars, closeVars
<1>2. CASE Advance \/ TakeResult
  BY <1>2 DEF SweepHolds, Advance, TakeResult, closeVars
<1>3. CASE SweepTick \/ SweepScan \/ SweepDone \/ SweepStop
  BY <1>3 DEF SweepHolds, SweepTick, SweepScan, SweepDone, SweepStop, closeVars
<1>4. ASSUME NEW r \in ready, SweepPush(r) PROVE SweepHolds'
  BY <1>4 DEF SweepHolds, SweepPush, closeVars
<1>5. ASSUME NEW c \in Closers, Close(c) PROVE SweepHolds'
  <2>1. CASE CloseCheck(c) \/ CloseStop(c)
    BY <2>1 DEF TypeOK, SweepHolds, CloseCheck, CloseStop, sweepVars
  <2>2. CASE CloseReturn(c)
    BY <2>2 DEF SweepHolds, CloseReturn, sweepVars
  <2>. QED
    BY <1>5, <2>1, <2>2 DEF Close
<1>6. CASE UNCHANGED aggVars
  BY <1>6 DEF SweepHolds, aggVars
<1>. QED
  BY <1>1, <1>2, <1>3, <1>4, <1>5, <1>6 DEF AnyStep, Sweep

(* Close returns only when the sweep goroutine is gone with all it held,   *)
(* however many goroutines call Close and although results are being       *)
(* pushed when stopCh is closed.                                           *)
THEOREM SweepStopped == Spec => []CloseStopsSweep
<1>1. Init => SweepHolds
  BY DEF Init, SweepHolds
<1>2. SweepHolds => CloseStopsSweep
  BY DEF SweepHolds, CloseStopsSweep
<1>. QED
  BY <1>1, <1>2, NextHolds, NextIsStep, TypeCorrect, PTL DEF Spec

-----------------------------------------------------------------------------
(* Every window is closed once and evaluated at most once, and the         *)
(* aggregator implements FlowWindows.                                      *)


(* The windows that are no longer open.                                    *)
Closed == InFlight \cup taken \cup lost

(* A closed window's number has been given out, and is not the number of   *)
(* the window that is open.                                                *)
Numbered ==
  \A r \in Closed :
    /\ r.window <= windows[r.key]
    /\ Open(r.key) => r.window < windows[r.key]

(* A caller handles the result of one Ingest before it calls the next.     *)
OneResult ==
  \A c \in Callers :
    /\ waiting[c] # {} => returned[c] = {}
    /\ \A r, q \in returned[c] : r = q

WindowInv == TypeOK /\ SweepHolds /\ OneResult /\ Numbered /\ Apart

-----------------------------------------------------------------------------
(* Names *)

LEMMA ClosedType ==
  ASSUME TypeOK, NEW r \in Closed
  PROVE  r.key \in Keys /\ r.window \in Nat
<1>1. CASE r \in InFlight
  <2>1. r \in ResultType
    BY <1>1 DEF TypeOK, InFlight, Queued, Handed
  <2>. QED
    BY <2>1 DEF ResultType
<1>2. CASE r \in taken \cup lost
  BY <1>2 DEF TypeOK, IdType
<1>. QED
  BY <1>1, <1>2 DEF Closed

LEMMA SameName ==
  ASSUME NEW r, NEW q
  PROVE  Name(r) = Name(q) <=> r.key = q.key /\ r.window = q.window
BY DEF Name

LEMMA IdName ==
  ASSUME NEW r
  PROVE  Name(WindowId(r)) = Name(r)
BY DEF Name, WindowId

(* Numbered gives the second part of EachWindowOnce.                       *)
LEMMA NumberedClosed == TypeOK /\ Numbered => ClosedForGood
<1> SUFFICES ASSUME TypeOK, Numbered, NEW k \in Keys, Open(k), NEW r \in Closed,
                    <<k, windows[k]>> = Name(r)
             PROVE  FALSE
  BY DEF ClosedForGood, Names, Closed
<1>1. r.key = k /\ r.window = windows[k]
  BY DEF Name
<1>2. r.window \in Nat /\ r.window < windows[k]
  BY <1>1, ClosedType DEF Numbered
<1>. QED
  BY <1>1, <1>2

(* Where nothing moves, nothing meets.                                     *)
LEMMA IdleApart ==
  ASSUME Apart, UNCHANGED <<results, ready, returned, taken, lost>>
  PROVE  Apart'
<1>1. Queued' = Queued /\ Handed' = Handed
  BY DEF Queued, Handed
<1>. QED
  BY <1>1 DEF Apart, Names, EachNamedOnce, InFlight

-----------------------------------------------------------------------------
(* A window that closes has a name of its own. *)

(* The number under which Ingest closes a window of flow k.                *)
Number(k) == IF Open(k) THEN windows[k] ELSE windows[k] + 1

LEMMA FreshNumber ==
  ASSUME TypeOK, Numbered, NEW e, e.key \in Keys, e.window = Number(e.key),
         NEW r \in Closed
  PROVE  Name(e) # Name(r)
<1>1. r.key \in Keys /\ r.window \in Nat
  BY ClosedType
<1>2. ASSUME e.key = r.key, e.window = r.window PROVE FALSE
  <2>1. windows[r.key] \in Nat /\ r.window = Number(r.key)
    BY <1>1, <1>2 DEF TypeOK
  <2>. QED
    BY <1>1, <2>1 DEF Numbered, Number
<1>. QED
  BY <1>2 DEF Name

LEMMA HandedApart ==
  ASSUME TypeOK, Apart, NEW c \in Callers, NEW e, returned[c] = {},
         returned' = [returned EXCEPT ![c] = {e}],
         UNCHANGED <<results, ready, taken, lost>>,
         \A r \in Closed : Name(e) # Name(r)
  PROVE  Apart'
<1>1. /\ \A d \in Callers : d # c => returned'[d] = returned[d]
      /\ returned'[c] = {e}
  BY DEF TypeOK
<1>2. Handed' = Handed \cup {e} /\ Queued' = Queued
  BY <1>1 DEF Handed, Queued
<1>3. \A d \in Callers : Name(e) \notin Names(returned[d])
  BY DEF Names, Closed, InFlight, Handed
<1>4. \A b, d \in Callers :
         b # d => Names(returned'[b]) \cap Names(returned'[d]) = {}
  BY <1>1, <1>3 DEF Apart, Names
<1>5. /\ Names(Handed') = Names(Handed) \cup {Name(e)}
      /\ Names(InFlight') = Names(InFlight) \cup {Name(e)}
  BY <1>2 DEF Names, InFlight
<1>6. /\ Name(e) \notin Names(ready) /\ Name(e) \notin Names(Queued)
      /\ Name(e) \notin Names(taken) /\ Name(e) \notin Names(lost)
  BY DEF Names, Closed, InFlight
<1>7. Names(Handed') \cap (Names(ready) \cup Names(Queued)) = {}
  BY <1>5, <1>6 DEF Apart
<1>8. /\ Names(taken) \cap (Names(InFlight') \cup Names(lost)) = {}
      /\ Names(lost) \cap Names(InFlight') = {}
  BY <1>5, <1>6 DEF Apart
<1>. QED
  BY <1>2, <1>4, <1>7, <1>8 DEF Apart, EachNamedOnce

-----------------------------------------------------------------------------
(* Numbered and Apart, one lemma for each action that disturbs them. *)

LEMMA NumberedKept ==
  ASSUME TypeOK, Numbered, windows' = windows,
         \A k \in Keys : flows'[k].packets > 0 => flows[k].packets > 0,
         \A r \in Closed' : \E q \in Closed : r.key = q.key /\ r.window = q.window
  PROVE  Numbered'
<1> SUFFICES ASSUME NEW r \in Closed'
             PROVE  /\ r.window <= windows[r.key]
                    /\ flows'[r.key].packets > 0 => r.window < windows[r.key]
  BY DEF Numbered, Open
<1>1. PICK q \in Closed : r.key = q.key /\ r.window = q.window
  OBVIOUS
<1>2. q.key \in Keys
  BY ClosedType
<1>. QED
  BY <1>1, <1>2 DEF Numbered, Open

LEMMA IdleWindow ==
  ASSUME WindowInv,
         UNCHANGED <<flows, windows, results, ready, returned, taken, lost>>
  PROVE  Numbered' /\ Apart'
<1>1. Closed' = Closed
  BY DEF Closed, InFlight, Queued, Handed
<1>2. Numbered'
  BY <1>1 DEF WindowInv, Numbered, Open
<1>. QED
  BY <1>2, IdleApart DEF WindowInv

LEMMA BelowNumber ==
  ASSUME TypeOK, Numbered, NEW r \in Closed
  PROVE  r.window < Number(r.key)
BY ClosedType DEF TypeOK, Numbered, Number

LEMMA CountReportWindow ==
  ASSUME WindowInv, NEW c \in Callers, NEW r \in ReportType, returned[c] = {},
         CountReport(c, r)
  PROVE  Numbered' /\ Apart'
<1>. DEFINE k == r.key
            f == Accumulate(flows[k], r, c)
            n == Number(k)
            e == Export(k, f, n)
<1>. USE DEF WindowInv
<1>1. k \in Keys /\ n \in Nat /\ windows[k] \in Nat
  BY DEF TypeOK, ReportType, Number
<1>2. windows' = [windows EXCEPT ![k] = n]
  BY DEF CountReport, Number
<1>3. \A q \in Closed : /\ q.key \in Keys
                        /\ q.window <= windows'[q.key]
                        /\ q.key = k => q.window < windows'[q.key]
  BY <1>1, <1>2, ClosedType, BelowNumber DEF TypeOK, Numbered
<1>4. UNCHANGED <<results, ready, taken, lost>>
  BY DEF CountReport, sweepVars
<1>5. CASE ~Full(f)
  <2>1. returned' = returned
    BY <1>5 DEF CountReport, TypeOK
  <2>2. Closed' = Closed
    BY <1>4, <2>1 DEF Closed, InFlight, Queued, Handed
  <2>3. \A j \in Keys : j # k => flows'[j] = flows[j] /\ windows'[j] = windows[j]
    BY <1>1, <1>2, <1>5 DEF CountReport, TypeOK
  <2>4. Numbered'
    BY <1>3, <2>2, <2>3 DEF Numbered, Open
  <2>. QED
    BY <1>4, <2>1, <2>4, IdleApart
<1>6. CASE Full(f)
  <2>1. returned' = [returned EXCEPT ![c] = {e}]
    BY <1>6 DEF CountReport, Number
  <2>2. e.key = k /\ e.window = n
    BY DEF Export
  <2>3. \A q \in Closed : Name(e) # Name(q)
    BY <1>1, <2>2, FreshNumber
  <2>4. Apart'
    BY <1>4, <2>1, <2>3, HandedApart
  <2>5. Closed' \subseteq Closed \cup {e}
    BY <1>4, <2>1 DEF Closed, InFlight, Queued, Handed, TypeOK
  <2>6. /\ flows'[k].packets = 0
        /\ \A j \in Keys : j # k => flows'[j] = flows[j] /\ windows'[j] = windows[j]
    BY <1>1, <1>2, <1>6, NoFlowType DEF CountReport, Deleted, TypeOK
  <2>7. windows'[k] = n
    BY <1>1, <1>2 DEF TypeOK
  <2>8. Numbered'
    BY <1>1, <1>3, <2>2, <2>5, <2>6, <2>7 DEF Numbered, Open
  <2>. QED
    BY <2>4, <2>8
<1>. QED
  BY <1>5, <1>6

LEMMA SweepScanWindow == ASSUME WindowInv, SweepScan PROVE Numbered' /\ Apart'
<1>. USE DEF WindowInv
<1>1. ready = {} /\ UNCHANGED <<results, returned, taken, windows>>
  BY DEF SweepScan, SweepHolds, callVars
<1>2. Queued' = Queued /\ Handed' = Handed
  BY <1>1 DEF Queued, Handed
<1>3. /\ ready' = {Exported(k) : k \in Ripe}
      /\ lost' = lost \cup {WindowId(Exported(k)) : k \in Thin}
  BY DEF SweepScan
<1>4. \A k \in Ripe \cup Thin :
         k \in Keys /\ Open(k) /\ Name(Exported(k)) = <<k, windows[k]>>
  BY DEF Ripe, Thin, Expired, Exported, Export, Name
<1>5. \A k \in Ripe \cup Thin : Exported(k).key = k /\ Exported(k).window = windows[k]
  BY DEF Exported, Export
<1>6. \A k \in Ripe \cup Thin, r \in Closed : Name(Exported(k)) # Name(r)
  BY <1>4, <1>5, FreshNumber DEF Number
<1>7. \A j, k \in Ripe \cup Thin : Name(Exported(j)) = Name(Exported(k)) => j = k
  BY <1>4
<1>8. Ripe \cap Thin = {}
  BY DEF Ripe, Thin
<1>9. \A k \in Thin : Name(WindowId(Exported(k))) = Name(Exported(k))
  BY IdName
<1>10. Numbered'
  <2>1. \A r \in Closed' : \/ r \in Closed
                           \/ \E k \in Ripe \cup Thin :
                                r.key = k /\ r.window = windows[k]
    <3>1. \A k \in Thin : /\ WindowId(Exported(k)).key = k
                          /\ WindowId(Exported(k)).window = windows[k]
      BY <1>5 DEF WindowId
    <3>. QED
      BY <1>1, <1>2, <1>3, <1>5, <3>1 DEF Closed, InFlight
  <2>2. \A k \in Keys : /\ flows'[k].packets > 0 => flows[k].packets > 0
                        /\ k \in Ripe \cup Thin => flows'[k].packets = 0
    BY NoFlowType DEF SweepScan, Deleted
  <2>3. ASSUME NEW r \in Closed
        PROVE  /\ r.window <= windows[r.key]
               /\ flows'[r.key].packets > 0 => r.window < windows[r.key]
    BY <2>2, ClosedType DEF Numbered, Open
  <2>4. ASSUME NEW k \in Ripe \cup Thin
        PROVE  windows[k] <= windows[k] /\ ~(flows'[k].packets > 0)
    BY <1>4, <2>2 DEF TypeOK
  <2>. QED
    BY <1>1, <2>1, <2>3, <2>4 DEF Numbered, Open
<1>11. Apart'
  <2>1. EachNamedOnce(ready')
    BY <1>3, <1>7 DEF EachNamedOnce
  <2>2. EachNamedOnce(lost')
    BY <1>3, <1>6, <1>7, <1>9 DEF EachNamedOnce, Closed, Apart
  <2>3. \A r \in Closed : Name(r) \notin Names(ready')
    BY <1>3, <1>6 DEF Names
  <2>4. Names(ready') \cap (Names(Queued) \cup Names(Handed) \cup Names(taken)) = {}
    BY <2>3 DEF Names, Closed, InFlight
  <2>5. Names(lost') = Names(lost) \cup {Name(Exported(k)) : k \in Thin}
    BY <1>3, <1>9 DEF Names
  <2>6. Names(InFlight') = Names(Queued) \cup Names(Handed) \cup Names(ready')
    BY <1>2 DEF Names, InFlight
  <2>7. Names(lost') \cap (Names(Queued) \cup Names(Handed) \cup Names(taken)) = {}
    <3>1. \A k \in Thin :
             Name(Exported(k)) \notin Names(Queued) \cup Names(Handed) \cup Names(taken)
      BY <1>6 DEF Names, Closed, InFlight
    <3>2. Names(Queued) \cup Names(Handed) \subseteq Names(InFlight)
      BY DEF Names, InFlight
    <3>. QED
      BY <2>5, <3>1, <3>2 DEF Apart
  <2>8. Names(lost') \cap Names(ready') = {}
    <3>1. Names(ready') = {Name(Exported(k)) : k \in Ripe}
      BY <1>3 DEF Names
    <3>2. Names(lost) \cap Names(ready') = {}
      BY <2>3 DEF Names, Closed
    <3>. QED
      BY <1>7, <1>8, <2>5, <3>1, <3>2
  <2>9. /\ Names(taken) \cap (Names(InFlight') \cup Names(lost')) = {}
        /\ Names(lost') \cap Names(InFlight') = {}
    <3>1. Names(taken) \cap (Names(Queued) \cup Names(Handed)) = {}
      BY DEF Apart, Names, InFlight
    <3>. QED
      BY <2>4, <2>6, <2>7, <2>8, <3>1
  <2>10. /\ Names(ready') \cap Names(Queued) = {}
         /\ Names(Handed) \cap (Names(ready') \cup Names(Queued)) = {}
    BY <2>4 DEF Apart
  <2>. QED
    BY <1>1, <1>2, <2>1, <2>2, <2>9, <2>10 DEF Apart
<1>. QED
  BY <1>10, <1>11

(* A result that the sweep pushes is in no other place.                    *)
LEMMA ReadyOwned ==
  ASSUME Apart, NEW r \in ready
  PROVE  /\ Name(r) \notin Names(Queued) \cup Names(Handed)
         /\ Name(r) \notin Names(taken) \cup Names(lost)
         /\ Names(ready \ {r}) = Names(ready) \ {Name(r)}
<1>1. Name(r) \in Names(ready) /\ Name(r) \in Names(InFlight)
  BY DEF Names, InFlight
<1>2. \A q \in ready : Name(q) = Name(r) => q = r
  BY DEF Apart, EachNamedOnce
<1>3. Names(ready \ {r}) = Names(ready) \ {Name(r)}
  BY <1>2 DEF Names
<1>. QED
  BY <1>1, <1>3 DEF Apart

LEMMA SweepPushWindow ==
  ASSUME WindowInv, NEW r \in ready, SweepPush(r)
  PROVE  Numbered' /\ Apart'
<1>. USE DEF WindowInv
<1>1. /\ ready' = ready \ {r} /\ Handed' = Handed
      /\ UNCHANGED <<flows, windows, returned, taken>>
  BY DEF SweepPush, callVars, Handed
<1>2. /\ Name(r) \notin Names(Queued) \cup Names(Handed)
      /\ Name(r) \notin Names(taken) \cup Names(lost)
      /\ Names(ready') = Names(ready) \ {Name(r)}
  BY <1>1, ReadyOwned
<1>3. EachNamedOnce(ready')
  BY <1>1 DEF Apart, EachNamedOnce
<1>4. CASE Len(results) < resultsCap
  <2>1. results' = Append(results, r) /\ lost' = lost
    BY <1>4 DEF SweepPush
  <2>2. results \in Seq(ResultType) /\ r \in ResultType
    BY DEF TypeOK
  <2>3. /\ Len(results') = Len(results) + 1 /\ results'[Len(results) + 1] = r
        /\ \A i \in 1 .. Len(results) : results'[i] = results[i]
    BY <2>1, <2>2
  <2>4. Queued' = Queued \cup {r}
    BY <2>2, <2>3 DEF Queued
  <2>5. InFlight' = InFlight /\ Names(Queued') = Names(Queued) \cup {Name(r)}
    BY <1>1, <2>4 DEF InFlight, Names
  <2>6. \A i, j \in 1 .. Len(results') : i # j => Name(results'[i]) # Name(results'[j])
    <3>1. \A i \in 1 .. Len(results) : Name(results[i]) # Name(r)
      BY <1>2 DEF Names, Queued
    <3>. QED
      BY <2>2, <2>3, <3>1 DEF Apart
  <2>7. Numbered'
    BY <1>1, <2>1, <2>5 DEF Numbered, Open, Closed
  <2>8. Apart'
    <3>1. /\ Names(ready') \cap Names(Queued') = {}
          /\ Names(Handed) \cap (Names(ready') \cup Names(Queued')) = {}
      BY <1>2, <2>5 DEF Apart
    <3>. QED
      BY <1>1, <1>3, <2>1, <2>5, <2>6, <3>1 DEF Apart
  <2>. QED
    BY <2>7, <2>8
<1>5. CASE ~(Len(results) < resultsCap)
  <2>1. results' = results /\ lost' = lost \cup {WindowId(r)} /\ Queued' = Queued
    BY <1>5 DEF SweepPush, Queued
  <2>2. Names(lost') = Names(lost) \cup {Name(r)}
    BY <2>1, IdName DEF Names
  <2>3. EachNamedOnce(lost')
    <3>1. \A q \in lost : Name(q) # Name(WindowId(r))
      BY <1>2, IdName DEF Names
    <3>. QED
      BY <2>1, <3>1 DEF Apart, EachNamedOnce
  <2>4. Names(InFlight') = Names(ready') \cup Names(Queued) \cup Names(Handed)
    BY <1>1, <2>1 DEF InFlight, Names
  <2>5. Names(InFlight) = Names(ready) \cup Names(Queued) \cup Names(Handed)
    BY DEF InFlight, Names
  <2>6. \A q \in Closed' : \E t \in Closed : q.key = t.key /\ q.window = t.window
    BY <1>1, <2>1 DEF Closed, InFlight, WindowId
  <2>7. Numbered'
    BY <1>1, <2>6, NumberedKept
  <2>8. Apart'
    <3>1. /\ Names(ready') \cap Names(Queued) = {}
          /\ Names(Handed) \cap (Names(ready') \cup Names(Queued)) = {}
          /\ Names(taken) \cap (Names(InFlight') \cup Names(lost')) = {}
          /\ Names(lost') \cap Names(InFlight') = {}
      BY <1>2, <2>2, <2>4, <2>5 DEF Apart
    <3>. QED
      BY <1>1, <1>3, <2>1, <2>3, <3>1 DEF Apart
  <2>. QED
    BY <2>7, <2>8
<1>. QED
  BY <1>4, <1>5

(* The members of taken after one more window is evaluated.                *)
LEMMA TakenOne ==
  ASSUME Apart, NEW r \in InFlight, taken' = taken \cup {WindowId(r)}
  PROVE  /\ Names(taken') = Names(taken) \cup {Name(r)}
         /\ EachNamedOnce(taken')
         /\ Name(r) \notin Names(lost)
<1>1. Name(r) \notin Names(taken) /\ Name(r) \notin Names(lost)
  BY DEF Apart, Names
<1>2. Names(taken') = Names(taken) \cup {Name(r)}
  BY IdName DEF Names
<1>3. \A q \in taken : Name(q) # Name(WindowId(r))
  BY <1>1, IdName DEF Names
<1>. QED
  BY <1>1, <1>2, <1>3 DEF Apart, EachNamedOnce

LEMMA TakeReturnedWindow ==
  ASSUME WindowInv, NEW c \in Callers, TakeReturned(c)
  PROVE  Numbered' /\ Apart'
<1>. USE DEF WindowInv
<1>1. PICK r \in returned[c] : returned[c] = {r}
  BY DEF TakeReturned, OneResult
<1>2. /\ r \in InFlight /\ taken' = taken \cup {WindowId(r)}
      /\ UNCHANGED <<flows, windows, results, ready, lost>> /\ Queued' = Queued
  BY <1>1 DEF TakeReturned, sweepVars, InFlight, Handed, Queued
<1>3. /\ returned'[c] = {}
      /\ \A d \in Callers : d # c => returned'[d] = returned[d]
  BY DEF TakeReturned, TypeOK
<1>4. \A d \in Callers : d # c => Name(r) \notin Names(returned[d])
  BY DEF Apart, Names
<1>5. Names(Handed') = Names(Handed) \ {Name(r)}
  BY <1>1, <1>3, <1>4 DEF Handed, Names
<1>6. Name(r) \in Names(Handed)
  BY DEF Handed, Names
<1>7. /\ Names(taken') = Names(taken) \cup {Name(r)}
      /\ EachNamedOnce(taken') /\ Name(r) \notin Names(lost)
  BY <1>2, TakenOne
<1>8. /\ Names(InFlight') = Names(ready) \cup Names(Queued) \cup Names(Handed')
      /\ Names(InFlight) = Names(ready) \cup Names(Queued) \cup Names(Handed)
  BY <1>2 DEF InFlight, Names
<1>9. Numbered'
  <2>1. Handed' \subseteq Handed
    BY <1>3 DEF Handed
  <2>2. \A q \in Closed' : \E t \in Closed : q.key = t.key /\ q.window = t.window
    BY <1>2, <2>1 DEF Closed, InFlight, WindowId
  <2>. QED
    BY <1>2, <2>2, NumberedKept
<1>10. Apart'
  <2>1. \A b, d \in Callers :
           b # d => Names(returned'[b]) \cap Names(returned'[d]) = {}
    BY <1>3 DEF Apart, Names
  <2>2. /\ Names(Handed') \cap (Names(ready) \cup Names(Queued)) = {}
        /\ Names(taken') \cap (Names(InFlight') \cup Names(lost)) = {}
        /\ Names(lost) \cap Names(InFlight') = {}
    BY <1>5, <1>6, <1>7, <1>8 DEF Apart
  <2>. QED
    BY <1>2, <1>7, <2>1, <2>2 DEF Apart
<1>. QED
  BY <1>9, <1>10

(* What a receive from Results() takes is in no other slot.                *)
LEMMA HeadLeaves ==
  ASSUME TypeOK, Apart, NEW r, r = Head(results), results # <<>>,
         results' = Tail(results)
  PROVE  /\ Queued' \subseteq Queued /\ r \in Queued
         /\ \A q \in Queued : q = r \/ q \in Queued'
         /\ \A q \in Queued' : Name(q) # Name(r)
<1>1. results \in Seq(ResultType)
  BY DEF TypeOK
<1>2. /\ Len(results) \in Nat /\ Len(results) > 0 /\ r = results[1]
      /\ Len(results') = Len(results) - 1
      /\ \A i \in 1 .. Len(results') : results'[i] = results[i + 1]
  BY <1>1
<1>3. \A i \in 1 .. Len(results') : i + 1 \in 1 .. Len(results)
  BY <1>2
<1>4. \A i \in 1 .. Len(results) : i = 1 \/ i - 1 \in 1 .. Len(results')
  BY <1>2
<1>5. \A i \in 1 .. Len(results') : Name(results[i + 1]) # Name(results[1])
  BY <1>2, <1>3 DEF Apart
<1>6. 1 \in 1 .. Len(results)
  BY <1>2
<1>7. \A i \in 1 .. Len(results) : i = 1 \/ results[i] = results'[i - 1]
  BY <1>2, <1>4
<1>8. \A q \in Queued' : \E i \in 1 .. Len(results') : q = results[i + 1]
  BY <1>2 DEF Queued
<1>9. Queued' \subseteq Queued /\ r \in Queued
  BY <1>2, <1>3, <1>6, <1>8 DEF Queued
<1>10. \A q \in Queued : q = r \/ q \in Queued'
  BY <1>2, <1>4, <1>7 DEF Queued
<1>11. \A q \in Queued' : Name(q) # Name(r)
  BY <1>2, <1>5, <1>8
<1>. QED
  BY <1>9, <1>10, <1>11

LEMMA TakeResultWindow == ASSUME WindowInv, TakeResult PROVE Numbered' /\ Apart'
<1>. USE DEF WindowInv
<1>. DEFINE r == Head(results)
<1>1. /\ taken' = taken \cup {WindowId(r)} /\ Handed' = Handed
      /\ UNCHANGED <<flows, windows, returned, ready, lost>>
  BY DEF TakeResult, callVars, Handed
<1>2. /\ results \in Seq(ResultType) /\ results # <<>> /\ results' = Tail(results)
  BY DEF TakeResult, TypeOK
<1>3. /\ Len(results) \in Nat /\ Len(results) > 0 /\ r = results[1]
      /\ Len(results') = Len(results) - 1
      /\ \A i \in 1 .. Len(results') : results'[i] = results[i + 1]
  BY <1>2
<1>4. /\ Queued' \subseteq Queued /\ r \in Queued
      /\ \A q \in Queued : q = r \/ q \in Queued'
      /\ \A q \in Queued' : Name(q) # Name(r)
  BY <1>2, HeadLeaves
<1>5. Names(Queued') = Names(Queued) \ {Name(r)} /\ Name(r) \in Names(Queued)
  BY <1>4 DEF Names
<1>6. /\ Names(taken') = Names(taken) \cup {Name(r)}
      /\ EachNamedOnce(taken') /\ Name(r) \notin Names(lost)
  BY <1>1, <1>4, TakenOne DEF InFlight
<1>7. /\ Names(InFlight') = Names(ready) \cup Names(Queued') \cup Names(Handed)
      /\ Names(InFlight) = Names(ready) \cup Names(Queued) \cup Names(Handed)
  BY <1>1 DEF InFlight, Names
<1>8. Numbered'
  <2>1. \A q \in Closed' : \E t \in Closed : q.key = t.key /\ q.window = t.window
    BY <1>1, <1>4 DEF Closed, InFlight, WindowId
  <2>. QED
    BY <1>1, <2>1, NumberedKept
<1>9. Apart'
  <2>1. \A i, j \in 1 .. Len(results') : i # j => Name(results'[i]) # Name(results'[j])
    <3>1. SUFFICES ASSUME NEW i \in 1 .. Len(results'), NEW j \in 1 .. Len(results'),
                          i # j
                   PROVE  Name(results[i + 1]) # Name(results[j + 1])
      BY <1>3
    <3>2. i + 1 \in 1 .. Len(results) /\ j + 1 \in 1 .. Len(results) /\ i + 1 # j + 1
      BY <1>3, <3>1
    <3>. QED
      BY <3>2 DEF Apart
  <2>2. /\ Names(ready) \cap Names(Queued') = {}
        /\ Names(Handed) \cap (Names(ready) \cup Names(Queued')) = {}
        /\ Names(taken') \cap (Names(InFlight') \cup Names(lost)) = {}
        /\ Names(lost) \cap Names(InFlight') = {}
    BY <1>5, <1>6, <1>7 DEF Apart
  <2>. QED
    BY <1>1, <1>6, <2>1, <2>2 DEF Apart
<1>. QED
  BY <1>8, <1>9

-----------------------------------------------------------------------------
LEMMA NextOneResult == TypeOK /\ OneResult /\ [AnyStep]_aggVars => OneResult'
<1> SUFFICES ASSUME TypeOK, OneResult, [AnyStep]_aggVars PROVE OneResult'
  OBVIOUS
<1>1. ASSUME NEW c \in Callers, AnyIngest(c) PROVE OneResult'
  <2>1. CASE \E k \in Keys, len \in Lengths : IngestRead(c, k, len)
    BY <2>1 DEF IngestRead, TypeOK, OneResult
  <2>2. CASE IngestLocked(c)
    <3>1. PICK r \in waiting[c] : CountReport(c, r)
      BY <2>2 DEF IngestLocked
    <3>2. /\ \A x, y \in returned'[c] : x = y
          /\ \A d \in Callers : d # c => returned'[d] = returned[d]
      BY <3>1 DEF CountReport, TypeOK
    <3>3. waiting' = [waiting EXCEPT ![c] = {}]
      BY <3>1 DEF CountReport
    <3>. QED
      BY <3>2, <3>3 DEF TypeOK, OneResult
  <2>. QED
    BY <1>1, <2>1, <2>2 DEF AnyIngest
<1>2. ASSUME NEW c \in Callers, TakeReturned(c) PROVE OneResult'
  BY <1>2 DEF TakeReturned, TypeOK, OneResult
<1>3. CASE Advance \/ Sweep \/ SweepStop \/ TakeResult
  BY <1>3 DEF Advance, Sweep, SweepTick, SweepScan, SweepPush, SweepDone,
              SweepStop, TakeResult, callVars, OneResult
<1>4. ASSUME NEW c \in Closers, Close(c) PROVE OneResult'
  BY <1>4 DEF Close, CloseCheck, CloseStop, CloseReturn, callVars, OneResult
<1>5. CASE UNCHANGED aggVars
  BY <1>5 DEF aggVars, OneResult
<1>. QED
  BY <1>1, <1>2, <1>3, <1>4, <1>5 DEF AnyStep

LEMMA NextApart == WindowInv /\ [AnyStep]_aggVars => Numbered' /\ Apart'
<1> SUFFICES ASSUME WindowInv, [AnyStep]_aggVars PROVE Numbered' /\ Apart'
  OBVIOUS
<1>1. ASSUME NEW c \in Callers, AnyIngest(c) PROVE Numbered' /\ Apart'
  <2>1. CASE \E k \in Keys, len \in Lengths : IngestRead(c, k, len)
    BY <2>1, IdleWindow DEF IngestRead, sweepVars, ghostVars
  <2>2. CASE IngestLocked(c)
    <3>1. PICK r \in waiting[c] : CountReport(c, r)
      BY <2>2 DEF IngestLocked
    <3>2. r \in ReportType /\ returned[c] = {}
      BY <3>1 DEF WindowInv, TypeOK, OneResult
    <3>. QED
      BY <3>1, <3>2, CountReportWindow
  <2>. QED
    BY <1>1, <2>1, <2>2 DEF AnyIngest
<1>2. ASSUME NEW c \in Callers, TakeReturned(c) PROVE Numbered' /\ Apart'
  BY <1>2, TakeReturnedWindow
<1>3. CASE Advance \/ SweepTick \/ SweepDone \/ SweepStop
  BY <1>3, IdleWindow
     DEF Advance, SweepTick, SweepDone, SweepStop, callVars, ghostVars
<1>4. CASE SweepScan \/ (\E r \in ready : SweepPush(r)) \/ TakeResult
  BY <1>4, SweepScanWindow, SweepPushWindow, TakeResultWindow
<1>5. ASSUME NEW c \in Closers, Close(c) PROVE Numbered' /\ Apart'
  BY <1>5, IdleWindow
     DEF Close, CloseCheck, CloseStop, CloseReturn, sweepVars, callVars, ghostVars
<1>6. CASE UNCHANGED aggVars
  BY <1>6, IdleWindow DEF aggVars
<1>. QED
  BY <1>1, <1>2, <1>3, <1>4, <1>5, <1>6 DEF AnyStep, Sweep

LEMMA InitHolds == Init => SweepHolds
BY DEF Init, SweepHolds

LEMMA InitWindow == Init => WindowInv
<1>1. Init => OneResult /\ Numbered /\ Apart
  BY DEF Init, OneResult, Numbered, Apart, Closed, InFlight, Queued, Handed,
         Names, EachNamedOnce
<1>. QED
  BY <1>1, InitType, InitHolds DEF WindowInv

LEMMA StepWindow == WindowInv /\ [AnyStep]_aggVars => WindowInv'
<1>1. WindowInv /\ [AnyStep]_aggVars => TypeOK'
  BY NextType DEF WindowInv
<1>2. WindowInv /\ [AnyStep]_aggVars => SweepHolds' /\ OneResult'
  BY NextHolds, NextOneResult DEF WindowInv
<1>. QED
  BY <1>1, <1>2, NextApart DEF WindowInv

LEMMA WindowInductive == Spec => []WindowInv
BY InitWindow, StepWindow, NextIsStep, PTL DEF Spec

LEMMA OnceWindow == WindowInv => EachWindowOnce
BY NumberedClosed DEF WindowInv, EachWindowOnce

(* Every window is closed once and evaluated at most once, however many    *)
(* goroutines race with the sweep and whatever becomes of the results.     *)
THEOREM WindowsOnce == Spec => []EachWindowOnce
BY OnceWindow, WindowInductive, PTL

-----------------------------------------------------------------------------
(* The refinement of FlowWindows: each action of the aggregator is one of  *)
(* FlowWindows or changes none of its variables.                           *)

Pending == {WindowId(r) : r \in InFlight}
Packets == [k \in Keys |-> flows[k].packets]

Refines == Windows!AbsNext \/ UNCHANGED <<Packets, windows, Pending, taken>>

LEMMA StepOrStutter ==
  Refines => [Windows!AbsNext]_(Windows!absVars)
BY DEF Refines, Windows!absVars, Packets, Pending

LEMMA IdleRefines ==
  ASSUME UNCHANGED <<flows, windows, results, ready, returned, taken>>
  PROVE  Refines
<1>1. Queued' = Queued /\ Handed' = Handed
  BY DEF Queued, Handed
<1>2. Pending' = Pending /\ Packets' = Packets
  BY <1>1 DEF Pending, Packets, InFlight
<1>. QED
  BY <1>2 DEF Refines

(* Two results in flight with the same identity are the same window.       *)
LEMMA IdOfName ==
  ASSUME NEW r, NEW q, WindowId(r) = WindowId(q)
  PROVE  Name(r) = Name(q)
BY DEF WindowId, Name

(* A caller that counts the last packet of a window holds its result.      *)
LEMMA CountReportHands ==
  ASSUME TypeOK, NEW c \in Callers, NEW r, returned[c] = {}, CountReport(c, r)
  PROVE  LET k == r.key
             f == Accumulate(flows[k], r, c)
             n == IF Open(k) THEN windows[k] ELSE windows[k] + 1
         IN Handed' = IF Full(f) THEN Handed \cup {Export(k, f, n)} ELSE Handed
<1>. DEFINE k == r.key
            f == Accumulate(flows[k], r, c)
            n == IF Open(k) THEN windows[k] ELSE windows[k] + 1
            e == Export(k, f, n)
<1>1. /\ returned'[c] = IF Full(f) THEN {e} ELSE {}
      /\ \A d \in Callers : d # c => returned'[d] = returned[d]
  BY DEF CountReport, TypeOK
<1>. QED
  BY <1>1 DEF Handed

LEMMA CountReportRefines ==
  ASSUME WindowInv, NEW c \in Callers, NEW r \in ReportType, returned[c] = {},
         CountReport(c, r)
  PROVE  Windows!Count(r.key)
<1>. DEFINE k == r.key
            f == Accumulate(flows[k], r, c)
            n == IF Open(k) THEN windows[k] ELSE windows[k] + 1
            e == Export(k, f, n)
<1>. USE DEF WindowInv
<1>1. /\ k \in Keys /\ flows[k] \in FlowType /\ flows[k].packets \in Nat
      /\ windows[k] \in Nat
  BY DEF TypeOK, ReportType, FlowType
<1>2. f.packets = flows[k].packets + 1
  BY <1>1, AccumulateType
<1>3. n = IF Packets[k] = 0 THEN windows[k] + 1 ELSE windows[k]
  BY <1>1 DEF Open, Packets
<1>4. windows' = [windows EXCEPT ![k] = n] /\ taken' = taken
  BY DEF CountReport
<1>5. UNCHANGED <<results, ready>> /\ Queued' = Queued
  BY DEF CountReport, sweepVars, Queued
<1>6. Full(f) <=> Packets[k] + 1 >= maxPackets
  BY <1>1, <1>2 DEF Full, Packets
<1>7. Packets' = [Packets EXCEPT ![k] = IF Full(f) THEN 0 ELSE @ + 1]
  <2>1. CASE Full(f)
    BY <1>1, <2>1, NoFlowType DEF CountReport, Deleted, Packets
  <2>2. CASE ~Full(f)
    BY <1>1, <1>2, <2>2 DEF CountReport, Packets, TypeOK
  <2>. QED
    BY <2>1, <2>2
<1>8. Handed' = IF Full(f) THEN Handed \cup {e} ELSE Handed
  BY CountReportHands
<1>9. WindowId(e) = [key |-> k, window |-> n, packets |-> Packets[k] + 1]
  BY <1>1, <1>2 DEF WindowId, Export, Packets
<1>10. Pending' = IF Full(f) THEN Pending \cup {WindowId(e)} ELSE Pending
  BY <1>5, <1>8 DEF Pending, InFlight
<1>. HIDE DEF n, f, e
<1>. QED
  BY <1>3, <1>4, <1>6, <1>7, <1>9, <1>10
     DEF Windows!Count, Windows!Window, Packets, Pending

LEMMA SweepScanRefines ==
  ASSUME WindowInv, SweepScan, NEW K, K = Ripe \cup Thin
  PROVE  Windows!Expire(K)
<1>. USE DEF WindowInv
<1>1. ready = {} /\ UNCHANGED <<results, returned, taken, windows>>
  BY DEF SweepScan, SweepHolds, callVars
<1>2. Queued' = Queued /\ Handed' = Handed
  BY <1>1 DEF Queued, Handed
<1>3. \A k \in Ripe \cup Thin : Packets[k] > 0
  BY DEF Ripe, Thin, Expired, Open, Packets
<1>4. Packets' = [k \in Keys |-> IF k \in Ripe \cup Thin THEN 0 ELSE Packets[k]]
  BY NoFlowType DEF SweepScan, Deleted, Packets
<1>5. {q \in Ripe \cup Thin : Packets[q] >= minPackets} = Ripe
  BY DEF Ripe, Thin, Enough, Packets
<1>6. \A k \in Ripe : WindowId(Exported(k))
                        = [key |-> k, window |-> windows[k], packets |-> Packets[k]]
  BY DEF Ripe, WindowId, Exported, Export, Packets
<1>7. Pending' = Pending \cup {[key |-> k, window |-> windows[k],
                                packets |-> Packets[k]] : k \in Ripe}
  <2>1. InFlight' = InFlight \cup {Exported(k) : k \in Ripe}
    BY <1>1, <1>2 DEF SweepScan, InFlight
  <2>. QED
    BY <1>6, <2>1 DEF Pending
<1>. QED
  BY <1>1, <1>3, <1>4, <1>5, <1>7
     DEF Windows!Expire, Windows!Window, Packets, Pending

(* A result that leaves the flight takes its window with it.               *)
LEMMA LeavesPending ==
  ASSUME NEW r \in InFlight, InFlight' \subseteq InFlight,
         \A q \in InFlight : q = r \/ q \in InFlight',
         Name(r) \notin Names(InFlight')
  PROVE  Pending' = Pending \ {WindowId(r)} /\ WindowId(r) \in Pending
<1>1. \A q \in InFlight' : WindowId(q) # WindowId(r)
  BY IdOfName DEF Names
<1>. QED
  BY <1>1 DEF Pending

LEMMA EvaluateRefines ==
  ASSUME NEW w \in Pending, Pending' = Pending \ {w}, taken' = taken \cup {w},
         Packets' = Packets, windows' = windows
  PROVE  Refines
<1>1. Windows!Evaluate(w)
  BY DEF Windows!Evaluate, Pending, Packets
<1>. QED
  BY <1>1 DEF Refines, Windows!AbsNext, Pending

LEMMA LoseRefines ==
  ASSUME NEW w \in Pending, Pending' = Pending \ {w},
         UNCHANGED <<Packets, windows, taken>>
  PROVE  Refines
<1>1. Windows!Lose(w)
  BY DEF Windows!Lose, Pending, Packets
<1>. QED
  BY <1>1 DEF Refines, Windows!AbsNext, Pending

LEMMA SweepPushRefines ==
  ASSUME WindowInv, NEW r \in ready, SweepPush(r)
  PROVE  Refines
<1>. USE DEF WindowInv
<1>1. /\ ready' = ready \ {r} /\ Handed' = Handed /\ taken' = taken
      /\ windows' = windows /\ Packets' = Packets
  BY DEF SweepPush, callVars, Handed, Packets
<1>2. CASE Len(results) < resultsCap
  <2>1. results \in Seq(ResultType) /\ r \in ResultType
    BY DEF TypeOK
  <2>2. results' = Append(results, r)
    BY <1>2 DEF SweepPush
  <2>3. /\ Len(results') = Len(results) + 1 /\ results'[Len(results) + 1] = r
        /\ \A i \in 1 .. Len(results) : results'[i] = results[i]
    BY <2>1, <2>2
  <2>4. Queued' = Queued \cup {r}
    BY <2>1, <2>3 DEF Queued
  <2>5. InFlight' = InFlight
    BY <1>1, <2>4 DEF InFlight
  <2>. QED
    BY <1>1, <2>5 DEF Refines, Pending
<1>3. CASE ~(Len(results) < resultsCap)
  <2>1. Queued' = Queued
    BY <1>3 DEF SweepPush, Queued
  <2>2. Name(r) \notin Names(ready') \cup Names(Queued) \cup Names(Handed)
    BY <1>1, ReadyOwned
  <2>3. Name(r) \notin Names(InFlight')
    BY <1>1, <2>1, <2>2 DEF InFlight, Names
  <2>4. /\ r \in InFlight /\ InFlight' \subseteq InFlight
        /\ \A q \in InFlight : q = r \/ q \in InFlight'
    BY <1>1, <2>1 DEF InFlight
  <2>5. Pending' = Pending \ {WindowId(r)} /\ WindowId(r) \in Pending
    BY <2>3, <2>4, LeavesPending
  <2>. QED
    BY <1>1, <2>5, LoseRefines
<1>. QED
  BY <1>2, <1>3

LEMMA TakeReturnedRefines ==
  ASSUME WindowInv, NEW c \in Callers, TakeReturned(c)
  PROVE  Refines
<1>. USE DEF WindowInv
<1>1. PICK r \in returned[c] : returned[c] = {r}
  BY DEF TakeReturned, OneResult
<1>2. /\ taken' = taken \cup {WindowId(r)} /\ ready' = ready
      /\ windows' = windows /\ Packets' = Packets /\ Queued' = Queued
  BY <1>1 DEF TakeReturned, sweepVars, Packets, Queued
<1>3. /\ returned'[c] = {}
      /\ \A d \in Callers : d # c => returned'[d] = returned[d]
  BY DEF TakeReturned, TypeOK
<1>4. \A d \in Callers : d # c => Name(r) \notin Names(returned[d])
  BY DEF Apart, Names
<1>5. /\ r \in Handed /\ Handed' \subseteq Handed
      /\ \A q \in Handed : q = r \/ q \in Handed'
      /\ Name(r) \notin Names(Handed')
  BY <1>1, <1>3, <1>4 DEF Handed, Names
<1>6. Name(r) \notin Names(ready) \cup Names(Queued)
  BY <1>5 DEF Apart, Names
<1>7. Name(r) \notin Names(InFlight')
  BY <1>2, <1>5, <1>6 DEF InFlight, Names
<1>8. /\ r \in InFlight /\ InFlight' \subseteq InFlight
      /\ \A q \in InFlight : q = r \/ q \in InFlight'
  BY <1>2, <1>5 DEF InFlight
<1>9. Pending' = Pending \ {WindowId(r)} /\ WindowId(r) \in Pending
  BY <1>7, <1>8, LeavesPending
<1>. QED
  BY <1>2, <1>9, EvaluateRefines

LEMMA TakeResultRefines == ASSUME WindowInv, TakeResult PROVE Refines
<1>. USE DEF WindowInv
<1>. DEFINE r == Head(results)
<1>1. /\ taken' = taken \cup {WindowId(r)} /\ Handed' = Handed
      /\ ready' = ready /\ windows' = windows /\ Packets' = Packets
  BY DEF TakeResult, callVars, Handed, Packets
<1>2. /\ Queued' \subseteq Queued /\ r \in Queued
      /\ \A q \in Queued : q = r \/ q \in Queued'
      /\ \A q \in Queued' : Name(q) # Name(r)
  BY HeadLeaves DEF TakeResult
<1>. HIDE DEF r
<1>3. Name(r) \notin Names(Queued') \cup Names(ready) \cup Names(Handed)
  BY <1>2 DEF Apart, Names
<1>4. Name(r) \notin Names(InFlight')
  BY <1>1, <1>3 DEF InFlight, Names
<1>5. /\ r \in InFlight /\ InFlight' \subseteq InFlight
      /\ \A q \in InFlight : q = r \/ q \in InFlight'
  BY <1>1, <1>2 DEF InFlight
<1>6. Pending' = Pending \ {WindowId(r)} /\ WindowId(r) \in Pending
  BY <1>4, <1>5, LeavesPending
<1>. QED
  BY <1>1, <1>6, EvaluateRefines

LEMMA NextRefines == WindowInv /\ [AnyStep]_aggVars => Refines
<1> SUFFICES ASSUME WindowInv, [AnyStep]_aggVars PROVE Refines
  OBVIOUS
<1>1. ASSUME NEW c \in Callers, AnyIngest(c) PROVE Refines
  <2>1. CASE \E k \in Keys, len \in Lengths : IngestRead(c, k, len)
    BY <2>1, IdleRefines DEF IngestRead, sweepVars, ghostVars
  <2>2. CASE IngestLocked(c)
    <3>1. PICK r \in waiting[c] : CountReport(c, r)
      BY <2>2 DEF IngestLocked
    <3>2. r \in ReportType /\ returned[c] = {}
      BY <3>1 DEF WindowInv, TypeOK, OneResult
    <3>3. Windows!Count(r.key) /\ r.key \in Keys
      BY <3>1, <3>2, CountReportRefines DEF ReportType
    <3>. QED
      BY <3>3 DEF Refines, Windows!AbsNext
  <2>. QED
    BY <1>1, <2>1, <2>2 DEF AnyIngest
<1>2. ASSUME NEW c \in Callers, TakeReturned(c) PROVE Refines
  BY <1>2, TakeReturnedRefines
<1>3. CASE Advance \/ SweepTick \/ SweepDone \/ SweepStop
  BY <1>3, IdleRefines
     DEF Advance, SweepTick, SweepDone, SweepStop, callVars, ghostVars
<1>4. CASE SweepScan
  <2>1. PICK K \in SUBSET Keys : K = Ripe \cup Thin
    BY DEF Ripe, Thin
  <2>2. Windows!Expire(K)
    BY <1>4, <2>1, SweepScanRefines
  <2>. QED
    BY <2>2 DEF Refines, Windows!AbsNext
<1>5. CASE (\E r \in ready : SweepPush(r)) \/ TakeResult
  BY <1>5, SweepPushRefines, TakeResultRefines
<1>6. ASSUME NEW c \in Closers, Close(c) PROVE Refines
  BY <1>6, IdleRefines
     DEF Close, CloseCheck, CloseStop, CloseReturn, sweepVars, callVars, ghostVars
<1>7. CASE UNCHANGED aggVars
  BY <1>7, IdleRefines DEF aggVars
<1>. QED
  BY <1>1, <1>2, <1>3, <1>4, <1>5, <1>6, <1>7 DEF AnyStep, Sweep

LEMMA InitRefines == Init => Windows!AbsInit
BY DEF Init, NoFlow, InFlight, Queued, Handed, Windows!AbsInit

LEMMA StepRefines ==
  WindowInv /\ [AnyStep]_aggVars => [Windows!AbsNext]_(Windows!absVars)
BY NextRefines, StepOrStutter

(* The aggregator implements FlowWindows: whatever the goroutines, the     *)
(* mutex, the ticker and the channel do, a step counts a report, expires   *)
(* windows, evaluates one closed window, loses one whole, or is invisible. *)
THEOREM AggregatorImplements == Spec => ImplementsWindows
BY InitRefines, StepRefines, NextIsStep, WindowInductive, PTL
   DEF Spec, ImplementsWindows, Windows!AbsSpec

-----------------------------------------------------------------------------
(* The sum of the first m numbers of a function *)

Sums(g, p, m) == g = [n \in 0 .. m |-> IF n = 0 THEN 0 ELSE g[n - 1] + p[n]]

(* The sum is defined: there is a function of the partial sums.            *)
LEMMA SumExists ==
  ASSUME NEW p, NEW m \in Nat
  PROVE  \E g : Sums(g, p, m)
<1>. DEFINE Bad == {n \in Nat : ~ \E g : Sums(g, p, n)}
<1>. SUFFICES ASSUME Bad # {} PROVE FALSE
  OBVIOUS
<1>1. PICK n \in Bad : \A k \in Bad : n <= k
  <2>1. Bad \in SUBSET Nat
    OBVIOUS
  <2>. HIDE DEF Bad
  <2>. QED
    BY <2>1, LeastNatural
<1>2. n # 0
  <2>. SUFFICES ASSUME n = 0 PROVE FALSE
    OBVIOUS
  <2>. DEFINE g0 == [i \in 0 .. 0 |-> 0]
  <2>1. Sums(g0, p, 0)
    BY DEF Sums
  <2>. QED
    BY <2>1
<1>3. n - 1 \in Nat /\ n - 1 \notin Bad
  BY <1>1, <1>2
<1>4. PICK g : Sums(g, p, n - 1)
  BY <1>3
<1>. DEFINE h == [i \in 0 .. n |-> IF i = n THEN g[n - 1] + p[n] ELSE g[i]]
<1>5. \A i \in 0 .. n : h[i] = IF i = 0 THEN 0 ELSE h[i - 1] + p[i]
  <2>. SUFFICES ASSUME NEW i \in 0 .. n
                PROVE  h[i] = IF i = 0 THEN 0 ELSE h[i - 1] + p[i]
    OBVIOUS
  <2>1. CASE i = n
    <3>1. h[i - 1] = g[n - 1]
      BY <2>1, <1>2
    <3>. QED
      BY <2>1, <3>1, <1>2
  <2>2. CASE i # n
    <3>1. i \in 0 .. n - 1 /\ h[i] = g[i]
      BY <2>2
    <3>2. i # 0 => i - 1 \in 0 .. n /\ i - 1 # n /\ h[i - 1] = g[i - 1]
      BY <2>2
    <3>3. g[i] = IF i = 0 THEN 0 ELSE g[i - 1] + p[i]
      <4>. HIDE DEF h
      <4>. QED
        BY <3>1, <1>4 DEF Sums
    <3>. HIDE DEF h
    <3>. QED
      BY <3>1, <3>2, <3>3
  <2>. QED
    BY <2>1, <2>2
<1>6. h = [i \in 0 .. n |-> IF i = 0 THEN 0 ELSE h[i - 1] + p[i]]
  <2>1. h = [i \in 0 .. n |-> h[i]]
    OBVIOUS
  <2>. HIDE DEF h
  <2>. QED
    BY <2>1, <1>5
<1>. HIDE DEF h
<1>. QED
  BY <1>6, <1>1 DEF Sums

LEMMA SumIsBuilt ==
  ASSUME NEW p, NEW m \in Nat
  PROVE  \E g : Sums(g, p, m) /\ SumTo(p, m) = g[m]
BY SumExists DEF SumTo, Sums

(* Functions that agree up to n have the same sum up to n.                 *)
LEMMA SumOnce ==
  ASSUME NEW g, NEW h, NEW i \in Nat, NEW j \in Nat, NEW m \in Nat,
         m <= i, m <= j, NEW p, NEW q, Sums(g, p, i), Sums(h, q, j),
         \A n \in 1 .. m : p[n] = q[n]
  PROVE  g[m] = h[m]
<1>. DEFINE Bad == {n \in 0 .. m : g[n] # h[n]}
<1>. SUFFICES ASSUME Bad # {} PROVE FALSE
  OBVIOUS
<1>1. PICK n \in Bad : \A k \in Bad : n <= k
  <2>1. Bad \in SUBSET Nat
    OBVIOUS
  <2>. HIDE DEF Bad
  <2>. QED
    BY <2>1, LeastNatural
<1>2. n \in 0 .. m /\ g[n] # h[n] /\ n \in 0 .. i /\ n \in 0 .. j
  OBVIOUS
<1>3. /\ g[n] = IF n = 0 THEN 0 ELSE g[n - 1] + p[n]
      /\ h[n] = IF n = 0 THEN 0 ELSE h[n - 1] + q[n]
  BY <1>2 DEF Sums
<1>4. n # 0 => n - 1 \in 0 .. m /\ n - 1 \notin Bad
  BY <1>1
<1>5. n # 0 => g[n - 1] = h[n - 1] /\ p[n] = q[n]
  BY <1>2, <1>4
<1>. QED
  BY <1>2, <1>3, <1>5

LEMMA SumSame ==
  ASSUME NEW p, NEW q, NEW m \in Nat, \A n \in 1 .. m : p[n] = q[n]
  PROVE  SumTo(p, m) = SumTo(q, m)
<1>1. PICK g : Sums(g, p, m) /\ SumTo(p, m) = g[m]
  BY SumIsBuilt
<1>2. PICK h : Sums(h, q, m) /\ SumTo(q, m) = h[m]
  BY SumIsBuilt
<1>. QED
  BY <1>1, <1>2, SumOnce

LEMMA SumNothing == ASSUME NEW p PROVE SumTo(p, 0) = 0
<1>1. PICK g : Sums(g, p, 0) /\ SumTo(p, 0) = g[0]
  BY SumIsBuilt
<1>. QED
  BY <1>1 DEF Sums

LEMMA SumNext ==
  ASSUME NEW p, NEW q, NEW m \in Nat, \A n \in 1 .. m : p[n] = q[n]
  PROVE  SumTo(q, m + 1) = SumTo(p, m) + q[m + 1]
<1>1. PICK g : Sums(g, p, m) /\ SumTo(p, m) = g[m]
  BY SumIsBuilt
<1>2. PICK h : Sums(h, q, m + 1) /\ SumTo(q, m + 1) = h[m + 1]
  BY SumIsBuilt
<1>3. g[m] = h[m]
  BY <1>1, <1>2, SumOnce
<1>4. h[m + 1] = h[m] + q[m + 1]
  BY <1>2 DEF Sums
<1>. QED
  BY <1>1, <1>2, <1>3, <1>4

LEMMA SumType ==
  ASSUME NEW p, NEW m \in Nat, \A n \in 1 .. m : p[n] \in Nat
  PROVE  SumTo(p, m) \in Nat
<1>1. PICK g : Sums(g, p, m) /\ SumTo(p, m) = g[m]
  BY SumIsBuilt
<1>. DEFINE Bad == {n \in 0 .. m : g[n] \notin Nat}
<1>2. ASSUME Bad # {} PROVE FALSE
  <2>1. PICK n \in Bad : \A k \in Bad : n <= k
    <3>1. Bad \in SUBSET Nat
      OBVIOUS
    <3>. HIDE DEF Bad
    <3>. QED
      BY <1>2, <3>1, LeastNatural
  <2>2. n \in 0 .. m /\ g[n] \notin Nat
    OBVIOUS
  <2>3. g[n] = IF n = 0 THEN 0 ELSE g[n - 1] + p[n]
    BY <1>1, <2>2 DEF Sums
  <2>4. n # 0 => n - 1 \in 0 .. m /\ n - 1 \notin Bad
    BY <2>1
  <2>5. n # 0 => g[n - 1] \in Nat /\ p[n] \in Nat
    BY <2>2, <2>4
  <2>. QED
    BY <2>2, <2>3, <2>5
<1>. QED
  BY <1>1, <1>2

-----------------------------------------------------------------------------
(* The account of one flow: windows 1 to m are closed, each once, and count *)
(* so many packets.                                                         *)

Accounts(ids, k, m, count) ==
  /\ \A w \in ids : w.key = k => w.window \in 1 .. m
  /\ \A n \in 1 .. m : \E w \in ids : Numbering(ids, k, n) = {w}
  /\ count = SumTo(Tally(ids, k, m), m)

(* It depends on the windows of that flow only.                            *)
LEMMA AccountsSame ==
  ASSUME NEW ids, NEW jds, NEW k, NEW m \in Nat, NEW count,
         {w \in jds : w.key = k} = {w \in ids : w.key = k},
         Accounts(ids, k, m, count)
  PROVE  Accounts(jds, k, m, count)
<1>1. \A w : w.key = k => (w \in jds <=> w \in ids)
  OBVIOUS
<1>2. \A n : Numbering(jds, k, n) = Numbering(ids, k, n)
  BY <1>1 DEF Numbering
<1>3. SumTo(Tally(jds, k, m), m) = SumTo(Tally(ids, k, m), m)
  <2>1. ASSUME NEW n \in 1 .. m PROVE Tally(jds, k, m)[n] = Tally(ids, k, m)[n]
    <3>1. Numbering(jds, k, n) = Numbering(ids, k, n)
      BY <1>2
    <3>. QED
      BY <3>1 DEF Tally
  <2>. QED
    BY <2>1, SumSame
<1>4. \A w \in jds : w.key = k => w.window \in 1 .. m
  BY <1>1 DEF Accounts
<1>5. ASSUME NEW n \in 1 .. m PROVE \E w \in jds : Numbering(jds, k, n) = {w}
  <2>1. PICK w \in ids : Numbering(ids, k, n) = {w}
    BY DEF Accounts
  <2>2. w \in jds /\ Numbering(jds, k, n) = {w}
    BY <1>2, <2>1 DEF Numbering
  <2>. QED
    BY <2>2
<1>. QED
  BY <1>3, <1>4, <1>5 DEF Accounts

(* A window that closes under the next number adds its packets.            *)
LEMMA AccountsMore ==
  ASSUME NEW ids \in SUBSET IdType, NEW jds, NEW k, NEW m \in Nat, NEW count,
         NEW e \in IdType, e.key = k, e.window = m + 1,
         {w \in jds : w.key = k} = {w \in ids : w.key = k} \cup {e},
         Accounts(ids, k, m, count)
  PROVE  Accounts(jds, k, m + 1, count + e.packets)
<1>1. \A w : w.key = k => (w \in jds <=> w \in ids \/ w = e)
  OBVIOUS
<1>2. \A w \in ids : w.key = k => w.window \in 1 .. m
  BY DEF Accounts
<1>3. Numbering(jds, k, m + 1) = {e}
  BY <1>1, <1>2 DEF Numbering
<1>4. \A n \in 1 .. m : Numbering(jds, k, n) = Numbering(ids, k, n)
  <2>. TAKE n \in 1 .. m
  <2>1. n # m + 1
    OBVIOUS
  <2>. QED
    BY <1>1, <2>1 DEF Numbering
<1>5. \A w \in jds : w.key = k => w.window \in 1 .. m + 1
  <2>. SUFFICES ASSUME NEW w \in jds, w.key = k PROVE w.window \in 1 .. m + 1
    OBVIOUS
  <2>1. w \in ids \/ w = e
    BY <1>1
  <2>. QED
    BY <1>2, <2>1
<1>6. ASSUME NEW n \in 1 .. m + 1
      PROVE  \E w \in jds : Numbering(jds, k, n) = {w}
  <2>1. CASE n = m + 1
    BY <1>1, <1>3, <2>1
  <2>2. CASE n # m + 1
    <3>1. n \in 1 .. m
      BY <2>2
    <3>2. PICK w \in ids : Numbering(ids, k, n) = {w}
      BY <3>1 DEF Accounts
    <3>3. w.key = k
      BY <3>2 DEF Numbering
    <3>. QED
      BY <1>1, <1>4, <3>1, <3>2, <3>3
  <2>. QED
    BY <2>1, <2>2
<1>. DEFINE p == Tally(ids, k, m)
            q == Tally(jds, k, m + 1)
<1>7. \A n \in 1 .. m : p[n] = q[n]
  <2>. TAKE n \in 1 .. m
  <2>1. n \in 1 .. m + 1 /\ Numbering(jds, k, n) = Numbering(ids, k, n)
    BY <1>4
  <2>. QED
    BY <2>1 DEF Tally
<1>8. q[m + 1] = e.packets
  <2>1. m + 1 \in 1 .. m + 1
    OBVIOUS
  <2>2. (CHOOSE w \in {e} : TRUE) = e
    OBVIOUS
  <2>. QED
    BY <1>3, <2>1, <2>2 DEF Tally
<1>9. SumTo(q, m + 1) = SumTo(p, m) + e.packets
  <2>. HIDE DEF p, q
  <2>. QED
    BY <1>7, <1>8, SumNext
<1>. QED
  BY <1>5, <1>6, <1>9 DEF Accounts

(* The count of an account is a number.                                    *)
LEMMA AccountsType ==
  ASSUME NEW ids \in SUBSET IdType, NEW k, NEW m \in Nat, NEW count,
         Accounts(ids, k, m, count)
  PROVE  count \in Nat
<1>1. ASSUME NEW n \in 1 .. m PROVE Tally(ids, k, m)[n] \in Nat
  <2>1. PICK w \in ids : Numbering(ids, k, n) = {w}
    BY DEF Accounts
  <2>2. (CHOOSE v \in {w} : TRUE) = w /\ w.packets \in Nat
    BY DEF IdType
  <2>. QED
    BY <2>1, <2>2 DEF Tally
<1>. QED
  BY <1>1, SumType DEF Accounts

-----------------------------------------------------------------------------
(* The accounts of all flows *)

Uncounted(k) == seen[k] - flows[k].packets
AccountOf(k) ==
  Closings(k) \in Nat /\ Accounts(ClosedIds, k, Closings(k), Uncounted(k))
AllAccounts == \A k \in Keys : AccountOf(k)

LEMMA ClosedIdsType == TypeOK => ClosedIds \subseteq IdType
<1> SUFFICES ASSUME TypeOK PROVE ClosedIds \subseteq IdType
  OBVIOUS
<1>1. \A r \in InFlight : WindowId(r) \in IdType
  BY ClosedType, WindowIdType DEF TypeOK, InFlight, Queued, Handed
<1>. QED
  BY <1>1 DEF TypeOK, ClosedIds

LEMMA AccountsAre == TypeOK /\ AllAccounts => PacketsAccounted
<1> SUFFICES ASSUME TypeOK, AllAccounts, NEW k \in Keys
             PROVE  seen[k] = flows[k].packets
                      + SumTo(Tally(ClosedIds, k, Closings(k)), Closings(k))
  BY DEF PacketsAccounted, AllAccounts, AccountOf, Accounts
<1>1. AccountOf(k)
  BY DEF AllAccounts
<1>2. SumTo(Tally(ClosedIds, k, Closings(k)), Closings(k)) = Uncounted(k)
  BY <1>1 DEF AccountOf, Accounts
<1>3. seen[k] \in Nat /\ flows[k].packets \in Nat
  BY DEF TypeOK, FlowType
<1>. QED
  BY <1>2, <1>3 DEF Uncounted

(* Steps that neither count, open nor close a window.                      *)
LEMMA IdleAccounts ==
  ASSUME AllAccounts, UNCHANGED <<flows, windows, seen>>, ClosedIds' = ClosedIds
  PROVE  AllAccounts'
BY DEF AllAccounts, AccountOf, Closings, Open, Uncounted

LEMMA ClosedIdsKept ==
  ASSUME UNCHANGED <<results, ready, returned, taken, lost>>
  PROVE  ClosedIds' = ClosedIds
<1>1. Queued' = Queued /\ Handed' = Handed
  BY DEF Queued, Handed
<1>. QED
  BY <1>1 DEF ClosedIds, InFlight

(* A result that moves on stays a closed window.                           *)
LEMMA MovedIds ==
  ASSUME NEW r \in InFlight, InFlight' \subseteq InFlight,
         \A q \in InFlight : q = r \/ q \in InFlight',
         taken' \cup lost' = taken \cup lost \cup {WindowId(r)}
  PROVE  ClosedIds' = ClosedIds
BY DEF ClosedIds

LEMMA SweepPushIds ==
  ASSUME TypeOK, NEW r \in ready, SweepPush(r)
  PROVE  ClosedIds' = ClosedIds
<1>1. ready' = ready \ {r} /\ Handed' = Handed /\ taken' = taken
  BY DEF SweepPush, callVars, Handed
<1>2. CASE Len(results) < resultsCap
  <2>1. results \in Seq(ResultType) /\ r \in ResultType
    BY DEF TypeOK
  <2>2. results' = Append(results, r) /\ lost' = lost
    BY <1>2 DEF SweepPush
  <2>3. /\ Len(results') = Len(results) + 1 /\ results'[Len(results) + 1] = r
        /\ \A i \in 1 .. Len(results) : results'[i] = results[i]
    BY <2>1, <2>2
  <2>4. Queued' = Queued \cup {r}
    BY <2>1, <2>3 DEF Queued
  <2>. QED
    BY <1>1, <2>2, <2>4 DEF InFlight, ClosedIds
<1>3. CASE ~(Len(results) < resultsCap)
  <2>1. Queued' = Queued /\ lost' = lost \cup {WindowId(r)}
    BY <1>3 DEF SweepPush, Queued
  <2>2. /\ r \in InFlight /\ InFlight' \subseteq InFlight
        /\ \A q \in InFlight : q = r \/ q \in InFlight'
    BY <1>1, <2>1 DEF InFlight
  <2>. QED
    BY <1>1, <2>1, <2>2, MovedIds
<1>. QED
  BY <1>2, <1>3

LEMMA TakeReturnedIds ==
  ASSUME WindowInv, NEW c \in Callers, TakeReturned(c)
  PROVE  ClosedIds' = ClosedIds
<1>1. PICK r \in returned[c] : returned[c] = {r}
  BY DEF TakeReturned, WindowInv, OneResult
<1>2. /\ taken' = taken \cup {WindowId(r)} /\ lost' = lost
      /\ ready' = ready /\ Queued' = Queued
  BY <1>1 DEF TakeReturned, sweepVars, Queued
<1>3. /\ returned'[c] = {}
      /\ \A d \in Callers : d # c => returned'[d] = returned[d]
  BY DEF TakeReturned, WindowInv, TypeOK
<1>4. /\ r \in Handed /\ Handed' \subseteq Handed
      /\ \A q \in Handed : q = r \/ q \in Handed'
  BY <1>1, <1>3 DEF Handed
<1>5. /\ r \in InFlight /\ InFlight' \subseteq InFlight
      /\ \A q \in InFlight : q = r \/ q \in InFlight'
  BY <1>2, <1>4 DEF InFlight
<1>. QED
  BY <1>2, <1>5, MovedIds

LEMMA TakeResultIds == ASSUME WindowInv, TakeResult PROVE ClosedIds' = ClosedIds
<1>. DEFINE r == Head(results)
<1>1. /\ taken' = taken \cup {WindowId(r)} /\ lost' = lost
      /\ ready' = ready /\ Handed' = Handed
  BY DEF TakeResult, callVars, Handed
<1>2. /\ Queued' \subseteq Queued /\ r \in Queued
      /\ \A q \in Queued : q = r \/ q \in Queued'
  BY HeadLeaves DEF TakeResult, WindowInv
<1>. HIDE DEF r
<1>3. /\ r \in InFlight /\ InFlight' \subseteq InFlight
      /\ \A q \in InFlight : q = r \/ q \in InFlight'
  BY <1>1, <1>2 DEF InFlight
<1>. QED
  BY <1>1, <1>3, MovedIds

-----------------------------------------------------------------------------
(* What a step does to the account of one flow *)

IdsOf(k) == {w \in ClosedIds : w.key = k}

LEMMA AccountKept ==
  ASSUME NEW k, AccountOf(k), Closings(k)' = Closings(k),
         Uncounted(k)' = Uncounted(k), IdsOf(k)' = IdsOf(k)
  PROVE  AccountOf(k)'
<1>. DEFINE m == Closings(k)
            count == Uncounted(k)
            ids == ClosedIds
            jds == ClosedIds'
<1>1. m \in Nat /\ Accounts(ids, k, m, count)
  BY DEF AccountOf
<1>2. {w \in jds : w.key = k} = {w \in ids : w.key = k}
  BY DEF IdsOf
<1>3. Accounts(jds, k, m, count)
  <2>. HIDE DEF m, count, ids, jds
  <2>. QED
    BY <1>1, <1>2, AccountsSame
<1>. QED
  BY <1>1, <1>3 DEF AccountOf

LEMMA AccountCloses ==
  ASSUME TypeOK, NEW k, AccountOf(k), NEW e \in IdType, e.key = k,
         e.window = Closings(k) + 1, Closings(k)' = Closings(k) + 1,
         Uncounted(k)' = Uncounted(k) + e.packets,
         IdsOf(k)' = IdsOf(k) \cup {e}
  PROVE  AccountOf(k)'
<1>. DEFINE m == Closings(k)
            count == Uncounted(k)
            ids == ClosedIds
            jds == ClosedIds'
<1>1. m \in Nat /\ Accounts(ids, k, m, count) /\ ids \in SUBSET IdType
  BY ClosedIdsType DEF AccountOf
<1>2. {w \in jds : w.key = k} = {w \in ids : w.key = k} \cup {e}
  BY DEF IdsOf
<1>3. Accounts(jds, k, m + 1, count + e.packets)
  <2>1. e.window = m + 1
    OBVIOUS
  <2>. HIDE DEF m, count, ids, jds
  <2>. QED
    BY <1>1, <1>2, <2>1, AccountsMore
<1>4. m + 1 \in Nat
  <2>. HIDE DEF m
  <2>. QED
    BY <1>1
<1>. QED
  BY <1>3, <1>4 DEF AccountOf

LEMMA CountReportAccounts ==
  ASSUME TypeOK, AllAccounts, NEW c \in Callers, NEW r \in ReportType,
         returned[c] = {}, CountReport(c, r)
  PROVE  AllAccounts'
<1>. DEFINE k == r.key
            f == Accumulate(flows[k], r, c)
            n == IF Open(k) THEN windows[k] ELSE windows[k] + 1
            e == Export(k, f, n)
            w == WindowId(e)
<1>1. /\ k \in Keys /\ flows[k] \in FlowType /\ flows[k].packets \in Nat
      /\ windows[k] \in Nat /\ seen[k] \in Nat
  BY DEF TypeOK, ReportType, FlowType
<1>2. f \in FlowType /\ f.packets = flows[k].packets + 1
  BY <1>1, AccumulateType
<1>3. /\ windows' = [windows EXCEPT ![k] = n] /\ seen' = [seen EXCEPT ![k] = @ + 1]
      /\ flows' = IF Full(f) THEN Deleted({k}) ELSE [flows EXCEPT ![k] = f]
      /\ UNCHANGED <<results, ready, taken, lost>>
  BY DEF CountReport, sweepVars
<1>4. ClosedIds' = IF Full(f) THEN ClosedIds \cup {w} ELSE ClosedIds
  <2>1. Queued' = Queued /\ ready' = ready
    BY <1>3 DEF Queued
  <2>2. Handed' = IF Full(f) THEN Handed \cup {e} ELSE Handed
    BY CountReportHands
  <2>. HIDE DEF e, f
  <2>3. InFlight' = IF Full(f) THEN InFlight \cup {e} ELSE InFlight
    BY <2>1, <2>2 DEF InFlight
  <2>. QED
    BY <1>3, <2>3 DEF ClosedIds
<1>5. w \in IdType /\ w.key = k /\ w.window = n /\ w.packets = f.packets
  <2>1. n \in Nat /\ e \in ResultType
    BY <1>1, <1>2, ExportType
  <2>2. e.key = k /\ e.window = n /\ e.packets = f.packets
    BY DEF Export
  <2>. QED
    BY <1>2, <2>1, <2>2, WindowIdType DEF WindowId, FlowType
<1>6. ASSUME NEW j \in Keys, j # k PROVE AccountOf(j)'
  <2>1. windows'[j] = windows[j] /\ seen'[j] = seen[j] /\ flows'[j] = flows[j]
    BY <1>1, <1>3, <1>6 DEF TypeOK, Deleted
  <2>2. Closings(j)' = Closings(j) /\ Uncounted(j)' = Uncounted(j)
    BY <2>1 DEF Closings, Open, Uncounted
  <2>3. IdsOf(j)' = IdsOf(j)
    <3>. HIDE DEF w, k, f
    <3>. QED
      BY <1>4, <1>5, <1>6 DEF IdsOf
  <2>. QED
    BY <2>2, <2>3, AccountKept DEF AllAccounts
<1>7. n = Closings(k) + 1 /\ Closings(k) \in Nat
  BY <1>1 DEF AllAccounts, AccountOf, Closings
<1>8. windows'[k] = n /\ seen'[k] = seen[k] + 1
  BY <1>1, <1>3 DEF TypeOK
<1>9. AccountOf(k)'
  <2>1. CASE Full(f)
    <3>1. flows'[k].packets = 0
      BY <1>1, <1>3, <2>1, NoFlowType DEF Deleted
    <3>2. Closings(k)' = Closings(k) + 1
      BY <1>7, <1>8, <3>1 DEF Closings, Open
    <3>3. Uncounted(k)' = Uncounted(k) + w.packets
      <4>. HIDE DEF w, f, k, n
      <4>. QED
        BY <1>1, <1>2, <1>5, <1>8, <3>1 DEF Uncounted
    <3>4. IdsOf(k)' = IdsOf(k) \cup {w}
      <4>. HIDE DEF w, f, k
      <4>. QED
        BY <1>4, <1>5, <2>1 DEF IdsOf
    <3>5. AccountOf(k)
      BY <1>1 DEF AllAccounts
    <3>6. w.window = Closings(k) + 1
      BY <1>5, <1>7
    <3>. HIDE DEF w, f, k, n
    <3>. QED
      BY <1>5, <3>2, <3>3, <3>4, <3>5, <3>6, AccountCloses
  <2>2. CASE ~Full(f)
    <3>1. flows'[k] = f
      BY <1>1, <1>3, <2>2 DEF TypeOK
    <3>. HIDE DEF w, f, k, n
    <3>2. Closings(k)' = Closings(k)
      BY <1>1, <1>2, <1>7, <1>8, <3>1 DEF Closings, Open
    <3>3. Uncounted(k)' = Uncounted(k)
      BY <1>1, <1>2, <1>8, <3>1 DEF Uncounted
    <3>4. IdsOf(k)' = IdsOf(k)
      BY <1>4, <2>2 DEF IdsOf
    <3>5. AccountOf(k)
      BY <1>1 DEF AllAccounts
    <3>. QED
      BY <3>2, <3>3, <3>4, <3>5, AccountKept
  <2>. QED
    BY <2>1, <2>2
<1>. HIDE DEF k
<1>. QED
  BY <1>6, <1>9 DEF AllAccounts

LEMMA SweepScanAccounts ==
  ASSUME WindowInv, AllAccounts, SweepScan
  PROVE  AllAccounts'
<1>. USE DEF WindowInv
<1>. DEFINE W(k) == WindowId(Exported(k))
<1>1. ready = {} /\ UNCHANGED <<results, returned, taken, windows, seen>>
  BY DEF SweepScan, SweepHolds, callVars
<1>2. Queued' = Queued /\ Handed' = Handed
  BY <1>1 DEF Queued, Handed
<1>3. /\ ready' = {Exported(k) : k \in Ripe}
      /\ lost' = lost \cup {W(k) : k \in Thin}
      /\ flows' = Deleted(Ripe \cup Thin)
  BY DEF SweepScan
<1>4. ClosedIds' = ClosedIds \cup {W(k) : k \in Ripe \cup Thin}
  <2>1. InFlight' = InFlight \cup {Exported(k) : k \in Ripe}
    BY <1>1, <1>2, <1>3 DEF InFlight
  <2>. QED
    BY <1>1, <1>3, <2>1 DEF ClosedIds
<1>5. \A k \in Keys : /\ W(k) \in IdType /\ W(k).key = k
                      /\ W(k).window = windows[k] /\ W(k).packets = flows[k].packets
  <2>. TAKE k \in Keys
  <2>1. WindowId(Exported(k)) \in IdType
    BY ExportedType
  <2>. QED
    BY <2>1 DEF WindowId, Exported, Export
<1>. HIDE DEF W
<1>6. ASSUME NEW k \in Keys PROVE AccountOf(k)'
  <2>1. AccountOf(k) /\ windows'[k] = windows[k] /\ seen'[k] = seen[k]
    BY <1>1 DEF AllAccounts
  <2>2. /\ windows[k] \in Nat /\ seen[k] \in Nat /\ flows[k].packets \in Nat
    BY DEF TypeOK, FlowType
  <2>3. CASE k \in Ripe \cup Thin
    <3>1. flows'[k].packets = 0 /\ Open(k)
      BY <1>3, <2>3, NoFlowType DEF Deleted, Ripe, Thin, Expired
    <3>2. Closings(k)' = windows[k] /\ Closings(k) + 1 = windows[k]
      BY <2>1, <2>2, <3>1 DEF Closings, Open
    <3>3. Closings(k)' = Closings(k) + 1 /\ W(k).window = Closings(k) + 1
      BY <1>5, <3>2
    <3>4. Uncounted(k)' = Uncounted(k) + W(k).packets
      BY <1>5, <2>1, <2>2, <3>1 DEF Uncounted
    <3>5. IdsOf(k)' = IdsOf(k) \cup {W(k)}
      BY <1>4, <1>5, <2>3 DEF IdsOf, Ripe, Thin
    <3>. QED
      BY <1>5, <2>1, <3>3, <3>4, <3>5, AccountCloses
  <2>4. CASE k \notin Ripe \cup Thin
    <3>1. flows'[k] = flows[k]
      BY <1>3, <2>4 DEF Deleted
    <3>2. Closings(k)' = Closings(k) /\ Uncounted(k)' = Uncounted(k)
      BY <2>1, <3>1 DEF Closings, Open, Uncounted
    <3>3. IdsOf(k)' = IdsOf(k)
      BY <1>4, <1>5, <2>4 DEF IdsOf, Ripe, Thin
    <3>. QED
      BY <2>1, <3>2, <3>3, AccountKept
  <2>. QED
    BY <2>3, <2>4
<1>. QED
  BY <1>6 DEF AllAccounts

LEMMA InitAccounts == Init => AllAccounts
<1> SUFFICES ASSUME Init, NEW k \in Keys PROVE AccountOf(k)
  BY DEF AllAccounts
<1>1. ClosedIds = {}
  BY DEF Init, ClosedIds, InFlight, Queued, Handed
<1>2. Closings(k) = 0 /\ Uncounted(k) = 0
  BY DEF Init, NoFlow, Closings, Open, Uncounted
<1>3. Accounts({}, k, 0, 0)
  BY SumNothing DEF Accounts
<1>. QED
  BY <1>1, <1>2, <1>3 DEF AccountOf

LEMMA StepAccounts ==
  WindowInv /\ AllAccounts /\ [AnyStep]_aggVars => AllAccounts'
<1> SUFFICES ASSUME WindowInv, AllAccounts, [AnyStep]_aggVars PROVE AllAccounts'
  OBVIOUS
<1>1. ASSUME NEW c \in Callers, AnyIngest(c) PROVE AllAccounts'
  <2>1. CASE \E k \in Keys, len \in Lengths : IngestRead(c, k, len)
    BY <2>1, IdleAccounts, ClosedIdsKept DEF IngestRead, sweepVars, ghostVars
  <2>2. CASE IngestLocked(c)
    <3>1. PICK r \in waiting[c] : CountReport(c, r)
      BY <2>2 DEF IngestLocked
    <3>2. r \in ReportType /\ returned[c] = {} /\ TypeOK
      BY <3>1 DEF WindowInv, TypeOK, OneResult
    <3>. QED
      BY <3>1, <3>2, CountReportAccounts
  <2>. QED
    BY <1>1, <2>1, <2>2 DEF AnyIngest
<1>2. ASSUME NEW c \in Callers, TakeReturned(c) PROVE AllAccounts'
  BY <1>2, TakeReturnedIds, IdleAccounts DEF TakeReturned
<1>3. CASE Advance \/ SweepTick \/ SweepDone \/ SweepStop
  BY <1>3, IdleAccounts, ClosedIdsKept
     DEF Advance, SweepTick, SweepDone, SweepStop, callVars, ghostVars
<1>4. CASE SweepScan
  BY <1>4, SweepScanAccounts
<1>5. ASSUME NEW r \in ready, SweepPush(r) PROVE AllAccounts'
  BY <1>5, SweepPushIds, IdleAccounts DEF SweepPush, WindowInv
<1>6. CASE TakeResult
  BY <1>6, TakeResultIds, IdleAccounts DEF TakeResult
<1>7. ASSUME NEW c \in Closers, Close(c) PROVE AllAccounts'
  BY <1>7, IdleAccounts, ClosedIdsKept
     DEF Close, CloseCheck, CloseStop, CloseReturn, sweepVars, callVars, ghostVars
<1>8. CASE UNCHANGED aggVars
  BY <1>8, IdleAccounts, ClosedIdsKept DEF aggVars
<1>. QED
  BY <1>1, <1>2, <1>3, <1>4, <1>5, <1>6, <1>7, <1>8 DEF AnyStep, Sweep

LEMMA WindowAccounts == WindowInv /\ AllAccounts => PacketsAccounted
BY AccountsAre DEF WindowInv

(* No report is lost or counted twice by the aggregator itself: those of a *)
(* flow are the packets of its open window and of the windows closed       *)
(* before it, and each of these is somewhere, once, with all its packets.  *)
THEOREM ReportsAreAccounted == Spec => []PacketsAccounted
BY InitAccounts, StepAccounts, WindowAccounts, NextIsStep, WindowInductive, PTL
   DEF Spec
=============================================================================
