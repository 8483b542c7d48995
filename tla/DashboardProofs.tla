-------------------------- MODULE DashboardProofs --------------------------
(* Theorems about Dashboard, for any streams, ids and capacities: the bus  *)
(* has one reader, and the table shows what the streams published.         *)
EXTENDS Dashboard, NaturalLemmas, SequenceTheorems

(* The one reader waits for an event, or has one on its way to Update; it  *)
(* runs as long as the dashboard does.                                     *)
Reading ==
  IF Running
  THEN \/ reading = 1 /\ inbox = {}
       \/ reading = 0 /\ \E e \in EventType : inbox = {e}
  ELSE reading = 0 /\ inbox = {}

(* What a handler has to publish: each event about its agent once, surely  *)
(* and not with others to choose from; the greeting comes first.           *)
Occurs(t, kind) == \E i \in DOMAIN t : kind \in t[i]
Ordered(t) ==
  \A kind \in AboutAgents, i \in DOMAIN t :
    kind \in t[i] =>
      /\ t[i] = {kind} /\ \A j \in DOMAIN t : kind \in t[j] => j = i
      /\ kind = "AgentConnected" => i = 1
OncePublished == \A s \in Streams : Ordered(todo[s])

(* A stream publishes what its phase calls for, and has lost nothing it    *)
(* has yet to publish.                                                     *)
PhaseOf(s) ==
  /\ handler[s] = "new" => todo[s] = <<>> /\ reports[s] = 0
  /\ reports[s] = 0 =>
       \A kind \in AboutAgents : ~ToPublish(s, kind) /\ lost[s][kind] = 0
  /\ ToPublish(s, "AgentConnected") =>
       /\ ToPublish(s, "PacketReceived") /\ reports[s] = 1
       /\ lost[s]["AgentConnected"] = 0 /\ lost[s]["PacketReceived"] = 0
  /\ ToPublish(s, "PacketReceived") => handler[s] = "recv"
  /\ ToPublish(s, "AgentDisconnected") => handler[s] = "returned"
  /\ ToPublish(s, "AgentDisconnected") \/ handler[s] # "returned" =>
       lost[s]["AgentDisconnected"] = 0
InPhase == \A s \in Streams : PhaseOf(s)

DashTyped == DashTypeOK /\ Reading
Scripted == OncePublished /\ InPhase

-----------------------------------------------------------------------------
(* The fold of events into the table *)

Builds(g, known, events, m) ==
  g = [n \in 0 .. m |->
        IF n = 0 THEN known ELSE Tabulated(g[n - 1], events[n])]

(* The fold is defined: there is a function that builds it.                *)
LEMMA FoldExists ==
  ASSUME NEW known, NEW events, NEW m \in Nat
  PROVE  \E g : Builds(g, known, events, m)
<1>. DEFINE Bad == {n \in Nat : ~ \E g : Builds(g, known, events, n)}
<1>. SUFFICES ASSUME Bad # {} PROVE FALSE
  OBVIOUS
<1>1. PICK n \in Bad : \A k \in Bad : n <= k
  <2>1. Bad \in SUBSET Nat
    OBVIOUS
  <2>. HIDE DEF Bad
  <2>. QED
    BY <2>1, LeastNatural
<1>2. n # 0
  <2>. SUFFICES ASSUME n = 0 PROVE FALSE
    OBVIOUS
  <2>. DEFINE g0 == [i \in 0 .. 0 |-> known]
  <2>1. Builds(g0, known, events, 0)
    BY DEF Builds
  <2>. QED
    BY <2>1
<1>3. n - 1 \in Nat /\ n - 1 \notin Bad
  BY <1>1, <1>2
<1>4. PICK g : Builds(g, known, events, n - 1)
  BY <1>3
<1>. DEFINE h == [i \in 0 .. n |-> IF i = n THEN Tabulated(g[n - 1], events[n])
                                   ELSE g[i]]
<1>5. \A i \in 0 .. n : h[i] = IF i = 0 THEN known ELSE Tabulated(h[i - 1], events[i])
  <2>. SUFFICES ASSUME NEW i \in 0 .. n
                PROVE  h[i] = IF i = 0 THEN known ELSE Tabulated(h[i - 1], events[i])
    OBVIOUS
  <2>1. CASE i = n
    <3>1. h[i - 1] = g[n - 1]
      BY <2>1, <1>2
    <3>. QED
      BY <2>1, <3>1, <1>2
  <2>2. CASE i # n
    <3>1. i \in 0 .. n - 1 /\ h[i] = g[i]
      BY <2>2
    <3>2. i # 0 => i - 1 \in 0 .. n /\ i - 1 # n /\ h[i - 1] = g[i - 1]
      BY <2>2
    <3>3. g[i] = IF i = 0 THEN known ELSE Tabulated(g[i - 1], events[i])
      <4>. HIDE DEF h
      <4>. QED
        BY <3>1, <1>4 DEF Builds
    <3>. HIDE DEF h
    <3>. QED
      BY <3>1, <3>2, <3>3
  <2>. QED
    BY <2>1, <2>2
<1>6. h = [i \in 0 .. n |->
            IF i = 0 THEN known ELSE Tabulated(h[i - 1], events[i])]
  <2>1. h = [i \in 0 .. n |-> h[i]]
    OBVIOUS
  <2>. HIDE DEF h
  <2>. QED
    BY <2>1, <1>5
<1>. HIDE DEF h
<1>. QED
  BY <1>6, <1>1 DEF Builds

(* After is the last of the tables of such a function.                     *)
LEMMA AfterIsBuilt ==
  ASSUME NEW known, NEW events \in Seq(EventType)
  PROVE  \E g : /\ Builds(g, known, events, Len(events))
                /\ After(known, events) = g[Len(events)]
<1>1. \E g : Builds(g, known, events, Len(events))
  BY FoldExists, LenProperties
<1>. QED
  BY <1>1 DEF After, Builds

(* There is only one.                                                      *)
LEMMA BuiltOnce ==
  ASSUME NEW g, NEW h, NEW m \in Nat, NEW known, NEW events,
         Builds(g, known, events, m), Builds(h, known, events, m)
  PROVE  g[m] = h[m]
<1>. DEFINE Bad == {n \in 0 .. m : g[n] # h[n]}
<1>. SUFFICES ASSUME Bad # {} PROVE FALSE
  OBVIOUS
<1>1. PICK n \in Bad : \A k \in Bad : n <= k
  <2>1. Bad \in SUBSET Nat
    OBVIOUS
  <2>. HIDE DEF Bad
  <2>. QED
    BY <2>1, LeastNatural
<1>2. n \in 0 .. m /\ g[n] # h[n]
  OBVIOUS
<1>3. /\ g[n] = IF n = 0 THEN known ELSE Tabulated(g[n - 1], events[n])
      /\ h[n] = IF n = 0 THEN known ELSE Tabulated(h[n - 1], events[n])
  BY <1>2 DEF Builds
<1>4. n # 0 => n - 1 \in 0 .. m /\ n - 1 \notin Bad
  BY <1>1
<1>5. n # 0 => g[n - 1] = h[n - 1]
  BY <1>4
<1>. QED
  BY <1>2, <1>3, <1>5

LEMMA AfterNothing ==
  ASSUME NEW known
  PROVE  After(known, <<>>) = known
<1>1. PICK g : /\ Builds(g, known, <<>>, Len(<<>>))
               /\ After(known, <<>>) = g[Len(<<>>)]
  BY AfterIsBuilt, EmptySeq
<1>. QED
  BY <1>1, EmptySeq DEF Builds

(* The last event changes the table of those before it.                    *)
LEMMA AfterLast ==
  ASSUME NEW known, NEW events \in Seq(EventType), NEW e \in EventType
  PROVE  After(known, Append(events, e)) = Tabulated(After(known, events), e)
<1>. DEFINE longer == Append(events, e)
            m == Len(events)
<1>1. /\ m \in Nat /\ longer \in Seq(EventType) /\ Len(longer) = m + 1
      /\ longer[m + 1] = e /\ \A i \in 1 .. m : longer[i] = events[i]
  BY AppendProperties, LenProperties
<1>2. PICK g : Builds(g, known, longer, m + 1) /\ After(known, longer) = g[m + 1]
  BY <1>1, AfterIsBuilt
<1>3. PICK h : Builds(h, known, events, m) /\ After(known, events) = h[m]
  BY <1>1, AfterIsBuilt
<1>. HIDE DEF longer, m
<1>4. g[0] = known /\ g[m + 1] = Tabulated(g[m], e)
  BY <1>1, <1>2 DEF Builds
<1>. DEFINE k == [n \in 0 .. m |-> g[n]]
<1>5. Builds(k, known, events, m) /\ k[m] = g[m]
  <2>1. \A n \in 0 .. m : g[n] = IF n = 0 THEN known
                                ELSE Tabulated(g[n - 1], events[n])
    BY <1>1, <1>2 DEF Builds
  <2>. QED
    BY <1>1, <2>1 DEF Builds
<1>6. k[m] = h[m]
  BY <1>1, <1>3, <1>5, BuiltOnce
<1>. QED
  BY <1>1, <1>2, <1>3, <1>4, <1>5, <1>6 DEF longer

(* The first event may be handled before the others.                       *)
LEMMA AfterFirst ==
  ASSUME NEW known, NEW events \in Seq(EventType), events # <<>>
  PROVE  After(known, events) = After(Tabulated(known, Head(events)), Tail(events))
<1>. DEFINE rest == Tail(events)
            m == Len(rest)
            next == Tabulated(known, Head(events))
<1>1. /\ m \in Nat /\ rest \in Seq(EventType) /\ Len(events) = m + 1
      /\ \A i \in 1 .. m : events[i + 1] = rest[i]
      /\ Head(events) = events[1]
  BY HeadTailProperties, LenProperties, EmptySeq
<1>2. PICK g : Builds(g, known, events, m + 1) /\ After(known, events) = g[m + 1]
  BY <1>1, AfterIsBuilt
<1>3. PICK h : Builds(h, next, rest, m) /\ After(next, rest) = h[m]
  BY <1>1, AfterIsBuilt
<1>4. g[1] = next
  <2>. HIDE DEF m, rest
  <2>1. g[0] = known /\ g[1] = Tabulated(g[0], events[1])
    BY <1>1, <1>2 DEF Builds
  <2>. QED
    BY <2>1, <1>1
<1>. HIDE DEF rest, m, next
<1>. DEFINE k == [n \in 0 .. m |-> g[n + 1]]
<1>5. Builds(k, next, rest, m) /\ k[m] = g[m + 1]
  <2>1. \A n \in 1 .. m : g[n + 1] = Tabulated(g[n], rest[n])
    <3>. SUFFICES ASSUME NEW n \in 1 .. m
                  PROVE  g[n + 1] = Tabulated(g[n], rest[n])
      OBVIOUS
    <3>1. PICK i \in 0 .. m + 1 : i = n + 1 /\ i # 0 /\ i - 1 = n
      BY <1>1
    <3>2. g[i] = Tabulated(g[i - 1], events[i])
      BY <1>2, <3>1 DEF Builds
    <3>. QED
      BY <1>1, <3>1, <3>2
  <2>2. \A n \in 0 .. m : k[n] = IF n = 0 THEN next
                                ELSE Tabulated(k[n - 1], rest[n])
    <3>. SUFFICES ASSUME NEW n \in 0 .. m
                  PROVE  k[n] = IF n = 0 THEN next
                                ELSE Tabulated(k[n - 1], rest[n])
      OBVIOUS
    <3>1. n # 0 => n - 1 \in 0 .. m /\ k[n - 1] = g[n]
      BY <1>1
    <3>2. n # 0 => k[n] = Tabulated(g[n], rest[n])
      BY <1>1, <2>1
    <3>3. k[0] = next
      BY <1>1, <1>4
    <3>. HIDE DEF k
    <3>. QED
      BY <3>1, <3>2, <3>3
  <2>3. k = [n \in 0 .. m |-> k[n]]
    OBVIOUS
  <2>4. k[m] = g[m + 1]
    BY <1>1
  <2>. HIDE DEF k
  <2>. QED
    BY <2>2, <2>3, <2>4 DEF Builds
<1>6. k[m] = h[m]
  <2>. HIDE DEF k
  <2>. QED
    BY <1>1, <1>3, <1>5, BuiltOnce
<1>. QED
  BY <1>2, <1>3, <1>5, <1>6 DEF rest, next

(* An event leaves a table a table.                                        *)
LEMMA TabulatedTypes ==
  ASSUME NEW known, IsTable(known), NEW e \in EventType
  PROVE  IsTable(Tabulated(known, e))
<1>1. e.kind \in AboutAgents => e.id \in Ids
  BY DEF EventType
<1>2. ASSUME NEW id \in Ids, NEW n \in Nat PROVE IsTable(With(known, id, n))
  BY DEF IsTable, With
<1>3. ASSUME NEW id PROVE IsTable(Without(known, id))
  BY DEF IsTable, Without, Restrict
<1>4. e.id \in DOMAIN known => known[e.id] + 1 \in Nat
  BY DEF IsTable
<1>. QED
  BY <1>1, <1>2, <1>3, <1>4 DEF Tabulated, AboutAgents

LEMMA AfterTypes ==
  ASSUME NEW known, IsTable(known), NEW events \in Seq(EventType)
  PROVE  IsTable(After(known, events))
<1>. DEFINE m == Len(events)
<1>1. PICK g : Builds(g, known, events, m) /\ After(known, events) = g[m]
  BY AfterIsBuilt
<1>2. m \in Nat /\ \A n \in 1 .. m : events[n] \in EventType
  BY LenProperties, ElementOfSeq
<1>. DEFINE Bad == {n \in 0 .. m : ~ IsTable(g[n])}
<1>3. Bad = {}
  <2>. SUFFICES ASSUME Bad # {} PROVE FALSE
    OBVIOUS
  <2>1. PICK n \in Bad : \A k \in Bad : n <= k
    <3>1. Bad \in SUBSET Nat
      BY <1>2
    <3>. HIDE DEF Bad
    <3>. QED
      BY <3>1, LeastNatural
  <2>. HIDE DEF m
  <2>2. g[n] = IF n = 0 THEN known ELSE Tabulated(g[n - 1], events[n])
    BY <1>1, <1>2 DEF Builds
  <2>3. n # 0 => n - 1 \in 0 .. m /\ n - 1 \notin Bad
    BY <1>2, <2>1
  <2>4. n # 0 => IsTable(g[n - 1]) /\ events[n] \in EventType
    BY <1>2, <2>3
  <2>. QED
    BY <2>2, <2>4, TabulatedTypes
<1>. QED
  BY <1>1, <1>2, <1>3

-----------------------------------------------------------------------------
(* What is still to come, and the table after it *)

LEMMA SequenceOfOne ==
  /\ SetToSeq({}) = <<>>
  /\ \A e : SetToSeq({e}) = <<e>>
<1>1. SetToSeq({}) = <<>>
  <2>1. Cardinality({}) = 0 /\ <<>> \in [1 .. 0 -> {}] /\ IsInjective(<<>>)
    BY FS_EmptySet DEF IsInjective
  <2>2. \A f \in [1 .. 0 -> {}] : f = <<>>
    OBVIOUS
  <2>. QED
    BY <2>1, <2>2 DEF SetToSeq
<1>2. ASSUME NEW e PROVE SetToSeq({e}) = <<e>>
  <2>1. Cardinality({e}) = 1
    BY FS_Singleton
  <2>2. <<e>> \in [1 .. 1 -> {e}] /\ IsInjective(<<e>>)
    BY DEF IsInjective
  <2>3. \A f \in [1 .. 1 -> {e}] : f = <<e>>
    OBVIOUS
  <2>. QED
    BY <2>1, <2>2, <2>3 DEF SetToSeq
<1>. QED
  BY <1>1, <1>2

Upcoming == SetToSeq(inbox) \o bus

LEMMA UpcomingEvents ==
  ASSUME DashTyped
  PROVE  /\ Upcoming \in Seq(EventType) /\ SetToSeq(inbox) \in Seq(EventType)
         /\ inbox = {} => Upcoming = bus
         /\ \A e : inbox = {e} => /\ e \in EventType /\ Upcoming # <<>>
                                  /\ Head(Upcoming) = e /\ Tail(Upcoming) = bus
<1>1. bus \in Seq(EventType)
  BY DEF DashTyped, DashTypeOK
<1>2. CASE inbox = {}
  <2>1. SetToSeq(inbox) = <<>>
    BY <1>2, SequenceOfOne
  <2>2. Upcoming = bus
    BY <1>1, <2>1, ConcatEmptySeq DEF Upcoming
  <2>3. <<>> \in Seq(EventType)
    BY EmptySeq
  <2>. QED
    BY <1>1, <1>2, <2>1, <2>2, <2>3
<1>3. CASE inbox # {}
  <2>1. PICK e \in EventType : inbox = {e}
    BY <1>3 DEF DashTyped, Reading
  <2>2. SetToSeq(inbox) = <<e>> /\ <<e>> \in Seq(EventType)
    <3>1. SetToSeq({e}) = <<e>>
      BY SequenceOfOne
    <3>. QED
      BY <2>1, <3>1
  <2>3. Upcoming \in Seq(EventType)
    BY <1>1, <2>2, ConcatProperties DEF Upcoming
  <2>4. Upcoming # <<>> /\ Head(Upcoming) = e /\ Tail(Upcoming) = bus
    <3>1. Upcoming = <<e>> \o bus
      BY <2>2 DEF Upcoming
    <3>. QED
      BY <1>1, <3>1
  <2>. QED
    BY <2>1, <2>2, <2>3, <2>4
<1>. QED
  BY <1>2, <1>3

LEMMA SettledIsTable ==
  ASSUME DashTyped
  PROVE  IsTable(Settled)
<1>1. IsTable(agents) /\ Upcoming \in Seq(EventType)
  BY UpcomingEvents DEF DashTyped, DashTypeOK
<1>. QED
  BY <1>1, AfterTypes DEF Settled, Upcoming

(* An event that the bus takes is the last of those to come.               *)
LEMMA SettledTakes ==
  ASSUME DashTyped, NEW e \in EventType, bus' = Append(bus, e),
         UNCHANGED <<inbox, agents>>
  PROVE  Settled' = Tabulated(Settled, e)
<1>1. Upcoming \in Seq(EventType) /\ SetToSeq(inbox) \in Seq(EventType)
      /\ bus \in Seq(EventType)
  BY UpcomingEvents DEF DashTyped, DashTypeOK
<1>2. SetToSeq(inbox) \o Append(bus, e) = Append(Upcoming, e)
  BY <1>1 DEF Upcoming
<1>3. Settled' = After(agents, Append(Upcoming, e))
  BY <1>2 DEF Settled
<1>. QED
  BY <1>1, <1>3, AfterLast DEF Settled, Upcoming

(* Reading and handling an event leaves the outcome as it was.             *)
LEMMA SettledKept ==
  ASSUME DashTyped, \/ UNCHANGED <<bus, inbox, agents>>
                    \/ WaitForEvent \/ \E e \in inbox : Update(e)
  PROVE  Settled' = Settled
<1>1. CASE UNCHANGED <<bus, inbox, agents>>
  BY <1>1 DEF Settled
<1>2. CASE WaitForEvent
  <2>1. inbox = {} /\ bus # <<>> /\ bus \in Seq(EventType)
    BY <1>2 DEF WaitForEvent, DashTyped, DashTypeOK, Reading
  <2>2. inbox' = {Head(bus)} /\ bus' = Tail(bus) /\ agents' = agents
    BY <1>2, <2>1 DEF WaitForEvent
  <2>3. SetToSeq({Head(bus)}) \o Tail(bus) = bus
    <3>1. SetToSeq({Head(bus)}) = <<Head(bus)>>
      BY SequenceOfOne
    <3>2. <<Head(bus)>> \o Tail(bus) = bus
      BY <2>1
    <3>. QED
      BY <3>1, <3>2
  <2>4. Upcoming = bus
    BY <2>1, UpcomingEvents
  <2>. QED
    BY <2>2, <2>3, <2>4 DEF Settled, Upcoming
<1>3. CASE \E e \in inbox : Update(e)
  <2>1. PICK e \in inbox : Update(e)
    BY <1>3
  <2>2. inbox = {e} /\ e \in EventType
    BY <2>1 DEF DashTyped, Reading
  <2>3. inbox' = {} /\ bus' = bus /\ agents' = Tabulated(agents, e)
    BY <2>1, <2>2 DEF Update
  <2>4. Settled' = After(Tabulated(agents, e), SetToSeq({}) \o bus)
    BY <2>3 DEF Settled
  <2>5. SetToSeq({}) \o bus = bus
    BY SequenceOfOne, ConcatEmptySeq DEF DashTyped, DashTypeOK
  <2>. QED
    BY <2>2, <2>4, <2>5, UpcomingEvents, AfterFirst DEF Settled, Upcoming
<1>. QED
  BY <1>1, <1>2, <1>3

-----------------------------------------------------------------------------
(* Types *)

LEMMA IsTyped ==
  ASSUME DashTyped
  PROVE  /\ main \in {"boot", "up", "serving", "exited"}
         /\ agentId \in [Streams -> Ids]
         /\ handler \in [Streams -> {"new", "recv", "returned"}]
         /\ reports \in [Streams -> 0 .. MaxReports]
         /\ todo \in [Streams -> Seq(SUBSET (Kinds \cup {None}))]
         /\ bus \in Seq(EventType) /\ Len(bus) \in Nat /\ Len(bus) <= busCap
         /\ reading \in Nat /\ inbox \subseteq EventType
         /\ IsTable(agents)
         /\ alerts \in 0 .. maxAlerts /\ logs \in 0 .. maxLogs
         /\ lost \in [Streams -> [AboutAgents -> Nat]]
         /\ busCap \in Nat \ {0} /\ None \notin Ids /\ MaxReports \in Nat
         /\ maxAlerts \in Nat \ {0} /\ maxLogs \in Nat \ {0}
BY DashboardAssumption, LenProperties DEF DashTyped, DashTypeOK, DashboardAssumption

LEMMA LineIsEvent ==
  /\ Line \in EventType /\ Event("AlertFired", None) \in EventType
  /\ "LogMessage" \notin AboutAgents /\ "AlertFired" \notin AboutAgents
  /\ None \notin AboutAgents
BY DEF Line, Event, EventType, Kinds, AboutAgents, None

LEMMA PublishTypes ==
  ASSUME DashTyped, NEW e \in EventType, Publish(e)
  PROVE  bus' \in Seq(EventType) /\ Len(bus') <= busCap
<1>1. bus \in Seq(EventType) /\ Len(bus) \in Nat /\ Len(bus) <= busCap
      /\ busCap \in Nat
  BY IsTyped
<1>2. CASE Len(bus) < busCap /\ bus' = Append(bus, e)
  BY <1>1, <1>2, AppendProperties
<1>3. CASE Len(bus) = busCap /\ UNCHANGED bus
  BY <1>1, <1>3
<1>. QED
  BY <1>2, <1>3 DEF Publish

LEMMA TypesInit ==
  ASSUME DashInit
  PROVE  DashTyped
<1>1. agentId \in [Streams -> Ids]
  <2>1. agentId \in AgentIds /\ agentId = [s \in Streams |-> agentId[s]]
    BY DashboardAssumption DEF DashInit, DashboardAssumption
  <2>2. \A s \in Streams : agentId[s] \in Ids
    BY <2>1 DEF Ids
  <2>. QED
    BY <2>1, <2>2
<1>2. bus \in Seq(EventType) /\ Len(bus) <= busCap
  BY LineIsEvent, DashboardAssumption DEF DashInit, DashboardAssumption
<1>3. IsTable(agents)
  BY DEF DashInit, IsTable
<1>4. lost \in [Streams -> [AboutAgents -> Nat]] /\ handler \in [Streams -> {"new", "recv", "returned"}]
      /\ reports \in [Streams -> 0 .. MaxReports] /\ todo \in [Streams -> Seq(SUBSET (Kinds \cup {None}))]
  BY DashboardAssumption, EmptySeq DEF DashInit, Each, NoneLost, DashboardAssumption
<1>5. reading = 0 /\ inbox = {} /\ alerts = 0 /\ logs = 0 /\ main = "boot"
  BY DEF DashInit
<1>. QED
  BY <1>1, <1>2, <1>3, <1>4, <1>5, DashboardAssumption
  DEF DashTyped, DashTypeOK, Reading, Running, DashboardAssumption

LEMMA TypesListen ==
  ASSUME DashTyped, Listen
  PROVE  DashTyped'
<1>1. DashTypeOK'
  BY IsTyped DEF Listen, DashTypeOK, IsTable, streamVars
<1>2. Reading'
  BY DEF Listen, DashTyped, Reading, Running
<1>. QED
  BY <1>1, <1>2 DEF DashTyped

LEMMA TypesServe ==
  ASSUME DashTyped, Serve
  PROVE  DashTyped'
<1>1. bus' \in Seq(EventType) /\ Len(bus') <= busCap
  BY LineIsEvent, PublishTypes DEF Serve
<1>2. DashTypeOK'
  BY <1>1, IsTyped DEF Serve, DashTypeOK, IsTable, streamVars, tuiVars
<1>3. Reading'
  BY DEF Serve, DashTyped, Reading, Running, tuiVars
<1>. QED
  BY <1>2, <1>3 DEF DashTyped

LEMMA TypesExit ==
  ASSUME DashTyped, Exit
  PROVE  DashTyped'
<1>1. bus' \in Seq(EventType) /\ Len(bus') <= busCap
  BY EmptySeq, IsTyped DEF Exit
<1>2. lost' \in [Streams -> [AboutAgents -> Nat]]
  BY DEF Exit, Each, NoneLost
<1>3. /\ handler' \in [Streams -> {"new", "recv", "returned"}]
      /\ reports' \in [Streams -> 0 .. MaxReports]
      /\ todo' \in [Streams -> Seq(SUBSET (Kinds \cup {None}))]
      /\ agentId' \in [Streams -> Ids]
  BY EmptySeq, IsTyped DEF Exit, Each
<1>4. IsTable(agents')
  BY DEF Exit, IsTable
<1>5. alerts' \in 0 .. maxAlerts /\ logs' \in 0 .. maxLogs
      /\ main' = "exited" /\ reading' = 0 /\ inbox' = {}
  BY IsTyped DEF Exit
<1>6. DashTypeOK'
  BY <1>1, <1>2, <1>3, <1>4, <1>5 DEF DashTypeOK, IsTable
<1>. QED
  BY <1>5, <1>6 DEF DashTyped, Reading, Running

(* A handler that only changes its own state.                              *)
LEMMA TypesHandler ==
  ASSUME DashTyped, UNCHANGED <<main, agentId, bus, tuiVars, lost>>,
         handler' \in [Streams -> {"new", "recv", "returned"}],
         reports' \in [Streams -> 0 .. MaxReports],
         todo' \in [Streams -> Seq(SUBSET (Kinds \cup {None}))]
  PROVE  DashTyped'
BY DEF DashTyped, DashTypeOK, IsTable, Reading, Running, tuiVars

LEMMA TypesMonitorStart ==
  ASSUME DashTyped, NEW s \in Streams, MonitorStart(s)
  PROVE  DashTyped'
<1>1. <<{"LogMessage"}>> \in Seq(SUBSET (Kinds \cup {None}))
  BY DEF Kinds
<1>. QED
  BY <1>1, IsTyped, TypesHandler DEF MonitorStart

LEMMA TypesRecv ==
  ASSUME DashTyped, NEW s \in Streams, Recv(s)
  PROVE  DashTyped'
<1>1. Greeting(s) \o Report \in Seq(SUBSET (Kinds \cup {None}))
  <2>1. Greeting(s) \in Seq(SUBSET (Kinds \cup {None}))
    <3>1. <<{"AgentConnected"}>> \in Seq(SUBSET (Kinds \cup {None}))
      BY DEF Kinds, AboutAgents
    <3>. QED
      BY <3>1, EmptySeq DEF Greeting
  <2>2. Report \in Seq(SUBSET (Kinds \cup {None}))
    BY DEF Report, Kinds, AboutAgents
  <2>. QED
    BY <2>1, <2>2, ConcatProperties
<1>2. reports' \in [Streams -> 0 .. MaxReports]
  BY IsTyped DEF Recv
<1>. QED
  BY <1>1, <1>2, IsTyped, TypesHandler DEF Recv

LEMMA TypesRecvEnd ==
  ASSUME DashTyped, NEW s \in Streams, RecvEnd(s)
  PROVE  DashTyped'
<1>1. Farewell(s) \in Seq(SUBSET (Kinds \cup {None}))
  <2>1. /\ <<{"AgentDisconnected"}, {"LogMessage"}>> \in Seq(SUBSET (Kinds \cup {None}))
        /\ <<{"LogMessage"}>> \in Seq(SUBSET (Kinds \cup {None}))
    BY DEF Kinds, AboutAgents
  <2>. QED
    BY <2>1 DEF Farewell
<1>. QED
  BY <1>1, IsTyped, TypesHandler DEF RecvEnd

LEMMA TypesDrain ==
  ASSUME DashTyped, NEW s \in Streams, Drain(s)
  PROVE  DashTyped'
<1>1. bus' \in Seq(EventType) /\ Len(bus') <= busCap
  BY LineIsEvent, PublishTypes DEF Drain, Line
<1>. QED
  BY <1>1, IsTyped DEF Drain, DashTyped, DashTypeOK, IsTable, Reading, Running,
                       streamVars, tuiVars

LEMMA TypesPublishNext ==
  ASSUME DashTyped, NEW s \in Streams, PublishNext(s)
  PROVE  DashTyped'
<1>1. todo' \in [Streams -> Seq(SUBSET (Kinds \cup {None}))]
  BY IsTyped, HeadTailProperties DEF PublishNext
<1>2. Head(todo[s]) \in SUBSET (Kinds \cup {None})
  BY IsTyped, HeadTailProperties DEF PublishNext
<1>3. bus' \in Seq(EventType) /\ Len(bus') <= busCap
      /\ lost' \in [Streams -> [AboutAgents -> Nat]]
  <2>1. PICK kind \in Head(todo[s]) :
          IF kind = None THEN UNCHANGED <<bus, lost>>
          ELSE /\ Publish(Event(kind, IF kind \in AboutAgents THEN agentId[s] ELSE None))
               /\ lost' = IF kind \in AboutAgents /\ Len(bus) = busCap
                          THEN [lost EXCEPT ![s][kind] = @ + 1] ELSE lost
    BY DEF PublishNext
  <2>2. CASE kind = None
    BY <2>1, <2>2, IsTyped
  <2>3. CASE kind # None
    <3>1. Event(kind, IF kind \in AboutAgents THEN agentId[s] ELSE None) \in EventType
      BY <1>2, <2>3, IsTyped DEF Event, EventType
    <3>2. lost' \in [Streams -> [AboutAgents -> Nat]]
      <4>1. lost \in [Streams -> [AboutAgents -> Nat]]
        BY IsTyped
      <4>2. ASSUME kind \in AboutAgents
            PROVE  [lost EXCEPT ![s][kind] = @ + 1] \in [Streams -> [AboutAgents -> Nat]]
        <5>1. lost[s] \in [AboutAgents -> Nat] /\ lost[s][kind] + 1 \in Nat
          BY <4>1, <4>2
        <5>2. [lost[s] EXCEPT ![kind] = @ + 1] \in [AboutAgents -> Nat]
          BY <5>1, <4>2
        <5>. QED
          BY <4>1, <5>2
      <4>. QED
        BY <2>1, <2>3, <4>1, <4>2
    <3>. QED
      BY <2>1, <2>3, <3>1, <3>2, PublishTypes
  <2>. QED
    BY <2>2, <2>3
<1>. QED
  BY <1>1, <1>3, IsTyped DEF PublishNext, DashTyped, DashTypeOK, IsTable,
                             Reading, Running, tuiVars

LEMMA TypesWaitForEvent ==
  ASSUME DashTyped, WaitForEvent
  PROVE  DashTyped'
<1>1. /\ Head(bus) \in EventType /\ Tail(bus) \in Seq(EventType)
      /\ Len(Tail(bus)) <= busCap
  BY IsTyped, HeadTailProperties DEF WaitForEvent
<1>2. reading = 1 /\ inbox = {} /\ Running
  BY DEF DashTyped, Reading, WaitForEvent
<1>3. reading' = 0 /\ inbox' = {Head(bus)} /\ Running'
  BY <1>2 DEF WaitForEvent, Running
<1>4. Reading'
  BY <1>1, <1>3 DEF Reading
<1>5. /\ bus' \in Seq(EventType) /\ Len(bus') <= busCap
      /\ reading' \in Nat /\ inbox' \subseteq EventType
  BY <1>1, <1>3 DEF WaitForEvent
<1>6. DashTypeOK'
  BY <1>5, IsTyped DEF WaitForEvent, DashTypeOK, IsTable, streamVars
<1>. QED
  BY <1>4, <1>6 DEF DashTyped

LEMMA KeptTypes ==
  ASSUME NEW most \in Nat \ {0}, NEW length \in 0 .. most
  PROVE  Kept(length, most) \in 0 .. most
BY DEF Kept, Min

LEMMA TypesUpdate ==
  ASSUME DashTyped, NEW e \in inbox, Update(e)
  PROVE  DashTyped'
<1>1. e \in EventType /\ inbox = {e} /\ reading = 0 /\ Running
  BY DEF DashTyped, Reading
<1>2. reading' = 1 /\ inbox' = {} /\ Running'
  BY <1>1 DEF Update, Rearm, Running
<1>3. IsTable(agents')
  BY <1>1, IsTyped, TabulatedTypes DEF Update
<1>4. alerts' \in 0 .. maxAlerts /\ logs' \in 0 .. maxLogs
  BY IsTyped, KeptTypes DEF Update
<1>. QED
  BY <1>2, <1>3, <1>4, IsTyped DEF Update, DashTyped, DashTypeOK, IsTable,
                                   Reading, streamVars

LEMMA TypesNext ==
  ASSUME DashTyped, [DashNext]_dashVars
  PROVE  DashTyped'
<1>1. CASE UNCHANGED dashVars
  BY <1>1 DEF dashVars, DashTyped, DashTypeOK, IsTable, Reading, Running
<1>2. CASE UpdateInput
  BY <1>2 DEF UpdateInput, dashVars, DashTyped, DashTypeOK, IsTable, Reading,
              Running
<1>. QED
  BY <1>1, <1>2, TypesListen, TypesServe, TypesExit, TypesMonitorStart, TypesRecv,
     TypesRecvEnd, TypesPublishNext, TypesDrain, TypesWaitForEvent, TypesUpdate
  DEF DashNext

LEMMA TypesAlways == DashSpec => []DashTyped
BY TypesInit, TypesNext, PTL DEF DashSpec

(* Every reachable state is of its type: the bus and the lists respect     *)
(* their sizes, whatever is published and however slowly it is read        *)
(* (events.go:29-37, tui.go:141-172).                                      *)
THEOREM DashTypes == DashSpec => []DashTypeOK
BY TypesAlways, PTL DEF DashTyped

(* There is always exactly one reader of the bus or one event on its way   *)
(* to Update, while the dashboard runs (tui.go:76-86, 121-158).            *)
THEOREM OneReaderEver == DashSpec => []OneReader
<1>1. DashTyped => OneReader
  <2>. SUFFICES ASSUME DashTyped, Running PROVE reading + Cardinality(inbox) = 1
    BY DEF OneReader
  <2>1. CASE reading = 1 /\ inbox = {}
    <3>1. Cardinality({}) = 0
      BY FS_EmptySet
    <3>. QED
      BY <2>1, <3>1
  <2>2. CASE reading = 0 /\ \E e \in EventType : inbox = {e}
    <3>1. PICK e \in EventType : inbox = {e}
      BY <2>2
    <3>2. Cardinality({e}) = 1
      BY FS_Singleton
    <3>. QED
      BY <2>2, <3>1, <3>2
  <2>. QED
    BY <2>1, <2>2 DEF DashTyped, Reading
<1>. QED
  BY <1>1, TypesAlways, PTL

-----------------------------------------------------------------------------
(* What the streams have yet to publish *)

Scripts == Seq(SUBSET (Kinds \cup {None}))

LEMMA NothingToPublish ==
  /\ Ordered(<<>>) /\ \A kind : ~Occurs(<<>>, kind)
BY DEF Ordered, Occurs

LEMMA LinesToPublish ==
  /\ Ordered(<<{"LogMessage"}>>)
  /\ \A kind \in AboutAgents : ~Occurs(<<{"LogMessage"}>>, kind)
BY DEF Ordered, Occurs, AboutAgents

LEMMA FarewellsToPublish ==
  ASSUME NEW s \in Streams
  PROVE  /\ Ordered(Farewell(s))
         /\ \A kind \in AboutAgents :
              Occurs(Farewell(s), kind) <=>
                kind = "AgentDisconnected" /\ reports[s] > 0
<1>. DEFINE t == <<{"AgentDisconnected"}, {"LogMessage"}>>
<1>1. DOMAIN t = {1, 2} /\ t[1] = {"AgentDisconnected"} /\ t[2] = {"LogMessage"}
  OBVIOUS
<1>. HIDE DEF t
<1>2. Ordered(t) /\ \A kind \in AboutAgents : Occurs(t, kind) <=> kind = "AgentDisconnected"
  BY <1>1 DEF Ordered, Occurs, AboutAgents
<1>. USE DEF t
<1>. QED
  BY <1>2, LinesToPublish DEF Farewell

LEMMA FourItems ==
  ASSUME NEW a, NEW b, NEW c, NEW d
  PROVE  <<a>> \o <<b, c, d>> = <<a, b, c, d>>
<1>. DEFINE S == {a, b, c, d}
            u == <<a>> \o <<b, c, d>>
<1>1. <<a>> \in Seq(S) /\ <<b, c, d>> \in Seq(S) /\ <<a, b, c, d>> \in Seq(S)
  OBVIOUS
<1>2. Len(<<a>>) = 1 /\ Len(<<b, c, d>>) = 3 /\ Len(<<a, b, c, d>>) = 4
  OBVIOUS
<1>3. Len(u) = 4 /\ u \in Seq(S)
  BY <1>1, <1>2, ConcatProperties
<1>4. \A i \in 1 .. 4 : u[i] = IF i <= 1 THEN <<a>>[i] ELSE <<b, c, d>>[i - 1]
  BY <1>1, <1>2, ConcatProperties
<1>. HIDE DEF u
<1>5. \A i \in 1 .. 4 : u[i] = <<a, b, c, d>>[i]
  BY <1>4
<1>. HIDE DEF S
<1>6. u = <<a, b, c, d>>
  BY <1>1, <1>2, <1>3, <1>5, SeqEqual
<1>. QED
  BY <1>6 DEF u

LEMMA ReportToPublish ==
  ASSUME NEW s \in Streams
  PROVE  /\ Ordered(Greeting(s) \o Report)
         /\ \A kind \in AboutAgents :
              Occurs(Greeting(s) \o Report, kind) <=>
                \/ kind = "PacketReceived"
                \/ kind = "AgentConnected" /\ reports[s] = 0
<1>1. CASE reports[s] = 0
  <2>. DEFINE t == <<{"AgentConnected"}, {"PacketReceived"},
                     {"AlertFired", None}, {"LogMessage", None}>>
  <2>1. Greeting(s) \o Report = t
    <3>1. <<{"AgentConnected"}>> \o Report = t
      BY FourItems DEF Report
    <3>. QED
      BY <1>1, <3>1 DEF Greeting
  <2>2. /\ DOMAIN t = 1 .. 4
        /\ t[1] = {"AgentConnected"} /\ t[2] = {"PacketReceived"}
        /\ t[3] = {"AlertFired", None} /\ t[4] = {"LogMessage", None}
    OBVIOUS
  <2>. HIDE DEF t
  <2>3. Ordered(t)
    BY <2>2 DEF Ordered, AboutAgents, None
  <2>4. \A kind \in AboutAgents :
          Occurs(t, kind) <=> kind \in {"PacketReceived", "AgentConnected"}
    BY <2>2 DEF Occurs, AboutAgents, None
  <2>. QED
    BY <1>1, <2>1, <2>3, <2>4
<1>2. CASE reports[s] # 0
  <2>1. Greeting(s) \o Report = Report
    BY <1>2 DEF Greeting, Report
  <2>2. /\ DOMAIN Report = 1 .. 3 /\ Report[1] = {"PacketReceived"}
        /\ Report[2] = {"AlertFired", None} /\ Report[3] = {"LogMessage", None}
    BY DEF Report
  <2>3. Ordered(Report)
    BY <2>2 DEF Ordered, AboutAgents, None
  <2>4. \A kind \in AboutAgents : Occurs(Report, kind) <=> kind = "PacketReceived"
    BY <2>2 DEF Occurs, AboutAgents, None
  <2>. QED
    BY <1>2, <2>1, <2>3, <2>4
<1>. QED
  BY <1>1, <1>2

(* Publishing the first leaves the others.                                 *)
LEMMA RestToPublish ==
  ASSUME NEW t \in Scripts, t # <<>>, Ordered(t)
  PROVE  /\ Ordered(Tail(t)) /\ ~Occurs(Tail(t), "AgentConnected")
         /\ \A kind \in AboutAgents :
              /\ kind \in Head(t) => Head(t) = {kind} /\ Occurs(t, kind)
              /\ Occurs(Tail(t), kind) <=> Occurs(t, kind) /\ kind \notin Head(t)
<1>. DEFINE rest == Tail(t)
            m == Len(rest)
<1>1. /\ m \in Nat /\ DOMAIN rest = 1 .. m /\ DOMAIN t = 1 .. m + 1
      /\ \A i \in 1 .. m : rest[i] = t[i + 1]
      /\ Head(t) = t[1]
  BY HeadTailProperties, LenProperties, EmptySeq DEF Scripts
<1>. HIDE DEF rest, m
<1>2. "AgentConnected" \in AboutAgents
  BY DEF AboutAgents
<1>3. ASSUME NEW kind \in AboutAgents, NEW i \in DOMAIN rest, kind \in rest[i]
      PROVE  /\ rest[i] = {kind} /\ \A j \in DOMAIN rest : kind \in rest[j] => j = i
             /\ kind # "AgentConnected" /\ Occurs(t, kind) /\ kind \notin t[1]
  <2>1. i \in Nat /\ i + 1 \in DOMAIN t /\ kind \in t[i + 1] /\ i + 1 # 1 /\ 1 \in DOMAIN t
    BY <1>1, <1>3
  <2>2. t[i + 1] = {kind} /\ kind # "AgentConnected"
        /\ \A j \in DOMAIN t : kind \in t[j] => j = i + 1
    BY <2>1 DEF Ordered
  <2>3. ASSUME NEW j \in DOMAIN rest, kind \in rest[j] PROVE j = i
    <3>1. j \in Nat /\ j + 1 \in DOMAIN t /\ kind \in t[j + 1]
      BY <1>1, <2>3
    <3>2. j + 1 = i + 1
      BY <2>2, <3>1
    <3>. QED
      BY <2>1, <3>1, <3>2
  <2>. QED
    BY <1>1, <1>3, <2>1, <2>2, <2>3 DEF Occurs
<1>4. ASSUME NEW kind \in AboutAgents, kind \in t[1]
      PROVE  t[1] = {kind} /\ Occurs(t, kind)
  <2>1. 1 \in DOMAIN t
    BY <1>1
  <2>. QED
    BY <2>1, <1>4 DEF Ordered, Occurs
<1>5. ASSUME NEW kind \in AboutAgents, Occurs(t, kind), kind \notin t[1]
      PROVE  Occurs(rest, kind)
  <2>1. PICK i \in DOMAIN t : kind \in t[i]
    BY <1>5 DEF Occurs
  <2>2. i \in 1 .. m + 1 /\ i # 1
    BY <1>1, <1>5, <2>1
  <2>3. PICK j \in 1 .. m : i = j + 1
    <3>1. i - 1 \in 1 .. m /\ i = (i - 1) + 1
      BY <1>1, <2>2
    <3>. QED
      BY <3>1
  <2>. QED
    BY <1>1, <2>1, <2>3 DEF Occurs
<1>6. Ordered(rest) /\ ~Occurs(rest, "AgentConnected")
  BY <1>2, <1>3 DEF Ordered, Occurs
<1>7. \A kind \in AboutAgents : Occurs(rest, kind) => Occurs(t, kind) /\ kind \notin t[1]
  BY <1>3 DEF Occurs
<1>. QED
  BY <1>1, <1>4, <1>5, <1>6, <1>7 DEF rest

LEMMA ToPublishOccurs ==
  ASSUME NEW s, NEW kind
  PROVE  /\ ToPublish(s, kind) <=> Occurs(todo[s], kind)
         /\ ToPublish(s, kind)' <=> Occurs(todo'[s], kind)
BY DEF ToPublish, Occurs

-----------------------------------------------------------------------------
(* What a step publishes *)

(* A step that changes neither what is to publish nor the table to come.   *)
SameOutcome ==
  UNCHANGED <<agentId, handler, reports, todo, lost>> /\ Settled' = Settled

LEMMA PublishedNext ==
  ASSUME DashTyped, OncePublished, NEW s \in Streams, PublishNext(s)
  PROVE  \E kind \in Kinds \cup {None} :
           /\ OncePublished' /\ ~ToPublish(s, "AgentConnected")'
           /\ \A u \in Streams, k \in AboutAgents :
                ToPublish(u, k)' <=> ToPublish(u, k) /\ ~(u = s /\ k = kind)
           /\ kind \in AboutAgents => ToPublish(s, kind)
           /\ \/ /\ lost' = lost
                 /\ Settled' = IF kind \in AboutAgents
                               THEN Tabulated(Settled, Event(kind, agentId[s]))
                               ELSE Settled
              \/ /\ kind \in AboutAgents /\ Settled' = Settled
                 /\ lost' = [lost EXCEPT ![s][kind] = @ + 1]
           /\ todo[s] # <<>> /\ UNCHANGED <<main, agentId, handler, reports>>
<1>. DEFINE t == todo[s]
<1>1. t \in Scripts /\ t # <<>> /\ Ordered(t) /\ Head(t) \subseteq Kinds \cup {None}
  BY IsTyped, HeadTailProperties DEF OncePublished, Scripts, PublishNext
<1>2. \A u \in Streams : todo'[u] = IF u = s THEN Tail(t) ELSE todo[u]
  BY IsTyped DEF PublishNext
<1>3. PICK kind \in Head(t) :
        IF kind = None THEN UNCHANGED <<bus, lost>>
        ELSE /\ Publish(Event(kind, IF kind \in AboutAgents THEN agentId[s] ELSE None))
             /\ lost' = IF kind \in AboutAgents /\ Len(bus) = busCap
                        THEN [lost EXCEPT ![s][kind] = @ + 1] ELSE lost
  BY DEF PublishNext
<1>4. OncePublished' /\ ~ToPublish(s, "AgentConnected")'
  BY <1>1, <1>2, RestToPublish, ToPublishOccurs DEF OncePublished
<1>5. ASSUME NEW k \in AboutAgents
      PROVE  k \in Head(t) <=> k = kind
  BY <1>1, <1>3, RestToPublish
<1>6. ASSUME NEW u \in Streams, NEW k \in AboutAgents
      PROVE  ToPublish(u, k)' <=> ToPublish(u, k) /\ ~(u = s /\ k = kind)
  <2>1. CASE u = s
    BY <1>1, <1>2, <1>5, <2>1, RestToPublish, ToPublishOccurs
  <2>2. CASE u # s
    BY <1>2, <2>2, ToPublishOccurs
  <2>. QED
    BY <2>1, <2>2
<1>7. kind \in AboutAgents => ToPublish(s, kind)
  BY <1>1, <1>3, RestToPublish, ToPublishOccurs
<1>8. UNCHANGED <<inbox, agents>> /\ UNCHANGED <<main, agentId, handler, reports>>
  BY DEF PublishNext, tuiVars
<1>9. \/ /\ lost' = lost
         /\ Settled' = IF kind \in AboutAgents
                       THEN Tabulated(Settled, Event(kind, agentId[s]))
                       ELSE Settled
      \/ /\ kind \in AboutAgents /\ Settled' = Settled
         /\ lost' = [lost EXCEPT ![s][kind] = @ + 1]
  <2>1. CASE kind = None
    <3>1. kind \notin AboutAgents
      BY <2>1, LineIsEvent
    <3>2. UNCHANGED <<bus, inbox, agents, lost>>
      BY <1>3, <1>8, <2>1
    <3>. QED
      BY <3>1, <3>2, SettledKept
  <2>2. CASE kind # None
    <3>. DEFINE e == Event(kind, IF kind \in AboutAgents THEN agentId[s] ELSE None)
    <3>1. e \in EventType
      BY <1>1, <2>2, IsTyped DEF Event, EventType
    <3>2. Len(bus) \in Nat /\ busCap \in Nat
      BY IsTyped
    <3>3. CASE Len(bus) < busCap /\ bus' = Append(bus, e)
      <4>1. Settled' = Tabulated(Settled, e) /\ lost' = lost
        BY <1>3, <1>8, <2>2, <3>1, <3>2, <3>3, SettledTakes
      <4>2. kind \notin AboutAgents => Tabulated(Settled, e) = Settled
        BY DEF Tabulated, Event, AboutAgents
      <4>. QED
        BY <4>1, <4>2
    <3>4. CASE Len(bus) = busCap /\ UNCHANGED bus
      <4>1. Settled' = Settled
        BY <1>8, <3>4, SettledKept
      <4>. QED
        BY <1>3, <2>2, <3>4, <4>1
    <3>. QED
      BY <1>3, <2>2, <3>3, <3>4 DEF Publish
  <2>. QED
    BY <2>1, <2>2
<1>. QED
  BY <1>1, <1>3, <1>4, <1>6, <1>7, <1>8, <1>9

(* Of a handler that begins, receives, or ends.                            *)
LEMMA PublishedScript ==
  ASSUME DashTyped, OncePublished, NEW s \in Streams, NEW t,
         todo' = [todo EXCEPT ![s] = t], Ordered(t)
  PROVE  /\ OncePublished'
         /\ \A u \in Streams, k \in AboutAgents :
              ToPublish(u, k)' <=> Occurs(IF u = s THEN t ELSE todo[u], k)
<1>1. \A u \in Streams : todo'[u] = IF u = s THEN t ELSE todo[u]
  BY IsTyped
<1>. QED
  BY <1>1, ToPublishOccurs DEF OncePublished

(* A line or an alert changes no table.                                    *)
LEMMA PublishedLine ==
  ASSUME DashTyped, NEW kind \in {"AlertFired", "LogMessage"},
         Publish(Event(kind, None)), UNCHANGED <<inbox, agents>>
  PROVE  Settled' = Settled
<1>. DEFINE e == Event(kind, None)
<1>1. e \in EventType
  BY LineIsEvent DEF Line
<1>2. CASE bus' = Append(bus, e)
  <2>1. Settled' = Tabulated(Settled, e)
    BY <1>1, <1>2, SettledTakes
  <2>. QED
    BY <2>1 DEF Tabulated, Event
<1>3. CASE UNCHANGED bus
  BY <1>3, SettledKept
<1>. QED
  BY <1>2, <1>3 DEF Publish

LEMMA OthersPublishNothing ==
  ASSUME DashTyped,
         \/ Listen \/ Serve \/ WaitForEvent \/ UNCHANGED dashVars
         \/ \E e \in inbox : Update(e)
         \/ \E s \in Streams : Drain(s)
  PROVE  SameOutcome
<1>1. CASE Listen
  BY <1>1, SettledKept DEF Listen, streamVars, SameOutcome
<1>2. CASE Serve
  BY <1>2, PublishedLine DEF Serve, Line, streamVars, tuiVars, SameOutcome
<1>3. CASE WaitForEvent
  BY <1>3, SettledKept DEF WaitForEvent, streamVars, SameOutcome
<1>4. CASE UNCHANGED dashVars
  BY <1>4, SettledKept DEF dashVars, SameOutcome
<1>5. CASE \E e \in inbox : Update(e)
  BY <1>5, SettledKept DEF Update, streamVars, SameOutcome
<1>6. CASE \E s \in Streams : Drain(s)
  BY <1>6, PublishedLine DEF Drain, streamVars, tuiVars, SameOutcome
<1>. QED
  BY <1>1, <1>2, <1>3, <1>4, <1>5, <1>6

-----------------------------------------------------------------------------
(* The table shows what was published *)

ExactAt(s) ==
  (\A t \in Streams : agentId[t] = agentId[s] => t = s)
    => LET id == agentId[s]
       IN /\ id \in DOMAIN Settled <=> OnTable(s)
          /\ OnTable(s) =>
               Settled[id] = reports[s] - lost[s]["PacketReceived"]
                 - (IF ToPublish(s, "PacketReceived") THEN 1 ELSE 0)

DashInv == DashTyped /\ Scripted /\ TableExact /\ NoGhostAgents

LEMMA ExactEverywhere == TableExact <=> \A s \in Streams : ExactAt(s)
BY DEF TableExact, ExactAt

(* Nothing about an agent is published or to be published, and the table   *)
(* is empty.                                                               *)
Fresh ==
  /\ handler = Each("new") /\ reports = Each(0) /\ todo = Each(<<>>)
  /\ lost = NoneLost /\ \A id : id \notin DOMAIN Settled

LEMMA FreshHolds ==
  ASSUME Fresh
  PROVE  Scripted /\ TableExact /\ NoGhostAgents
<1>1. \A s \in Streams :
        /\ handler[s] = "new" /\ reports[s] = 0 /\ todo[s] = <<>>
        /\ \A kind \in AboutAgents : lost[s][kind] = 0 /\ ~ToPublish(s, kind)
  BY NothingToPublish, ToPublishOccurs DEF Fresh, Each, NoneLost
<1>2. \A s \in Streams : PhaseOf(s)
  BY <1>1 DEF PhaseOf, AboutAgents
<1>3. OncePublished
  BY <1>1, NothingToPublish DEF OncePublished
<1>4. \A s \in Streams : ~OnTable(s)
  BY <1>1 DEF OnTable
<1>. QED
  BY <1>2, <1>3, <1>4, ExactEverywhere
  DEF Fresh, Scripted, InPhase, ExactAt, NoGhostAgents

LEMMA InvInit ==
  ASSUME DashInit
  PROVE  DashInv
<1>1. DashTyped
  BY TypesInit
<1>2. \A id : id \notin DOMAIN Settled
  <2>1. inbox = {} /\ agents = <<>> /\ bus = <<Line>> /\ Line \in EventType
    BY LineIsEvent DEF DashInit
  <2>2. /\ Settled = After(agents, <<Line>>)
        /\ <<Line>> \in Seq(EventType) /\ <<Line>> # <<>>
        /\ Head(<<Line>>) = Line /\ Tail(<<Line>>) = <<>>
    <3>1. Settled = After(agents, <<Line>>)
      BY <1>1, <2>1, UpcomingEvents DEF Settled, Upcoming
    <3>2. <<Line>> \in Seq(EventType) /\ <<Line>> # <<>>
      BY <2>1
    <3>3. ASSUME NEW x PROVE Head(<<x>>) = x /\ Tail(<<x>>) = <<>>
      OBVIOUS
    <3>. QED
      BY <3>1, <3>2, <3>3
  <2>3. Settled = After(Tabulated(agents, Line), <<>>)
    BY <2>1, <2>2, AfterFirst DEF Settled
  <2>4. Tabulated(agents, Line) = agents
    BY DEF Tabulated, Line, Event
  <2>5. Settled = <<>>
    BY <2>1, <2>3, <2>4, AfterNothing
  <2>. QED
    BY <2>5
<1>3. Fresh
  BY <1>2 DEF Fresh, DashInit
<1>. QED
  BY <1>1, <1>3, FreshHolds DEF DashInv

LEMMA InvSameOutcome ==
  ASSUME Scripted, TableExact, NoGhostAgents, SameOutcome
  PROVE  (Scripted /\ TableExact /\ NoGhostAgents)'
<1>1. Scripted'
  BY DEF Scripted, OncePublished, InPhase, PhaseOf, ToPublish, SameOutcome
<1>2. \A s \in Streams : OnTable(s)' <=> OnTable(s)
  BY DEF OnTable, Heard, ToPublish, SameOutcome
<1>3. \A kind : \A s \in Streams : ToPublish(s, kind)' <=> ToPublish(s, kind)
  BY DEF ToPublish, SameOutcome
<1>4. TableExact'
  BY <1>2, <1>3 DEF TableExact, SameOutcome
<1>5. NoGhostAgents'
  BY <1>2 DEF NoGhostAgents, SameOutcome
<1>. QED
  BY <1>1, <1>4, <1>5

(* A handler that only changes what it has to publish, its phase and its   *)
(* count, so that it is on the table as before with the same packets.      *)
LEMMA InvHandler ==
  ASSUME TableExact, NoGhostAgents, Settled' = Settled, UNCHANGED agentId,
         \A u \in Streams : OnTable(u)' <=> OnTable(u),
         \A u \in Streams :
           OnTable(u) =>
             reports'[u] - lost'[u]["PacketReceived"]
                 - (IF ToPublish(u, "PacketReceived")' THEN 1 ELSE 0)
               = reports[u] - lost[u]["PacketReceived"]
                 - (IF ToPublish(u, "PacketReceived") THEN 1 ELSE 0)
  PROVE  (TableExact /\ NoGhostAgents)'
BY DEF TableExact, NoGhostAgents

LEMMA InvExit ==
  ASSUME DashInv, Exit
  PROVE  DashInv'
<1>1. DashTyped'
  BY TypesExit DEF DashInv
<1>2. (\A id : id \notin DOMAIN Settled)'
  <2>1. inbox' = {} /\ agents' = <<>> /\ bus' = <<>>
    BY DEF Exit
  <2>2. SetToSeq({}) \o <<>> = <<>>
    BY SequenceOfOne
  <2>3. Settled' = After(<<>>, <<>>)
    BY <2>1, <2>2 DEF Settled
  <2>4. Settled' = <<>>
    BY <2>3, AfterNothing
  <2>. QED
    BY <2>4
<1>3. Fresh'
  BY <1>2 DEF Fresh, Exit, Each, NoneLost
<1>4. Fresh' => (Scripted /\ TableExact /\ NoGhostAgents)'
  BY FreshHolds, PTL
<1>. QED
  BY <1>1, <1>3, <1>4 DEF DashInv

LEMMA InvMonitorStart ==
  ASSUME DashInv, NEW s \in Streams, MonitorStart(s)
  PROVE  DashInv'
<1>1. DashTyped /\ DashTyped' /\ OncePublished /\ Settled' = Settled
  BY TypesMonitorStart, SettledKept DEF DashInv, Scripted, MonitorStart, tuiVars
<1>2. /\ OncePublished'
      /\ \A u \in Streams, k \in AboutAgents :
           ToPublish(u, k)' <=> Occurs(IF u = s THEN <<{"LogMessage"}>> ELSE todo[u], k)
  BY <1>1, LinesToPublish, PublishedScript DEF MonitorStart
<1>3. /\ UNCHANGED <<agentId, reports, lost>> /\ reports[s] = 0
      /\ \A u \in Streams : handler'[u] = IF u = s THEN "recv" ELSE handler[u]
      /\ \A u \in Streams : u # s => todo'[u] = todo[u]
      /\ todo[s] = <<>> /\ handler[s] = "new"
  BY <1>1, IsTyped DEF MonitorStart, DashInv, Scripted, InPhase, PhaseOf
<1>4. \A u \in Streams, k \in AboutAgents : ToPublish(u, k)' <=> ToPublish(u, k)
  BY <1>2, <1>3, LinesToPublish, NothingToPublish, ToPublishOccurs
<1>5. ASSUME NEW u \in Streams PROVE PhaseOf(u)'
  <2>1. PhaseOf(u)
    BY DEF DashInv, Scripted, InPhase
  <2>. QED
    BY <2>1, <1>3, <1>4 DEF PhaseOf, AboutAgents
<1>6. \A u \in Streams : OnTable(u)' <=> OnTable(u)
  BY <1>3, <1>4 DEF OnTable, Heard, AboutAgents
<1>7. (TableExact /\ NoGhostAgents)'
  BY <1>1, <1>3, <1>4, <1>6, InvHandler DEF DashInv, AboutAgents
<1>. QED
  BY <1>1, <1>2, <1>5, <1>7 DEF DashInv, Scripted, InPhase

LEMMA InvRecv ==
  ASSUME DashInv, NEW s \in Streams, Recv(s)
  PROVE  DashInv'
<1>. DEFINE t == Greeting(s) \o Report
<1>1. DashTyped /\ DashTyped' /\ OncePublished /\ Settled' = Settled
  BY TypesRecv, SettledKept DEF DashInv, Scripted, Recv, tuiVars
<1>2. /\ OncePublished'
      /\ \A u \in Streams, k \in AboutAgents :
           ToPublish(u, k)' <=> Occurs(IF u = s THEN t ELSE todo[u], k)
  <2>1. Ordered(t) /\ todo' = [todo EXCEPT ![s] = t]
    BY ReportToPublish DEF Recv
  <2>. HIDE DEF t
  <2>. QED
    BY <1>1, <2>1, PublishedScript
<1>3. /\ UNCHANGED <<agentId, handler, lost>>
      /\ \A u \in Streams : reports'[u] = IF u = s THEN reports[u] + 1 ELSE reports[u]
      /\ \A u \in Streams : u # s => todo'[u] = todo[u]
      /\ todo[s] = <<>> /\ handler[s] = "recv"
      /\ \A u \in Streams : reports[u] \in Nat
      /\ \A u \in Streams, k \in AboutAgents : lost[u][k] \in Nat
  BY <1>1, IsTyped DEF Recv
<1>4. /\ \A u \in Streams, k \in AboutAgents :
           u # s => (ToPublish(u, k)' <=> ToPublish(u, k))
      /\ \A k \in AboutAgents : ~ToPublish(s, k)
      /\ \A k \in AboutAgents :
           ToPublish(s, k)' <=> \/ k = "PacketReceived"
                                \/ k = "AgentConnected" /\ reports[s] = 0
  BY <1>2, <1>3, ReportToPublish, NothingToPublish, ToPublishOccurs
<1>5. ASSUME NEW u \in Streams PROVE PhaseOf(u)'
  <2>1. PhaseOf(u)
    BY DEF DashInv, Scripted, InPhase
  <2>2. CASE u = s
    BY <2>1, <2>2, <1>3, <1>4 DEF PhaseOf, AboutAgents
  <2>3. CASE u # s
    BY <2>1, <2>3, <1>3, <1>4 DEF PhaseOf, AboutAgents
  <2>. QED
    BY <2>2, <2>3
<1>6. \A u \in Streams : OnTable(u)' <=> OnTable(u)
  <2>1. OnTable(s)' <=> OnTable(s)
    BY <1>3, <1>4 DEF OnTable, Heard, AboutAgents
  <2>2. \A u \in Streams : u # s => (OnTable(u)' <=> OnTable(u))
    BY <1>3, <1>4 DEF OnTable, Heard, AboutAgents
  <2>. QED
    BY <2>1, <2>2
<1>7. \A u \in Streams :
        reports'[u] - lost'[u]["PacketReceived"]
            - (IF ToPublish(u, "PacketReceived")' THEN 1 ELSE 0)
          = reports[u] - lost[u]["PacketReceived"]
            - (IF ToPublish(u, "PacketReceived") THEN 1 ELSE 0)
  BY <1>3, <1>4 DEF AboutAgents
<1>8. (TableExact /\ NoGhostAgents)'
  BY <1>1, <1>3, <1>6, <1>7, InvHandler DEF DashInv
<1>. QED
  BY <1>1, <1>2, <1>5, <1>8 DEF DashInv, Scripted, InPhase

LEMMA InvRecvEnd ==
  ASSUME DashInv, NEW s \in Streams, RecvEnd(s)
  PROVE  DashInv'
<1>1. DashTyped /\ DashTyped' /\ OncePublished /\ Settled' = Settled
  BY TypesRecvEnd, SettledKept DEF DashInv, Scripted, RecvEnd, tuiVars
<1>2. /\ OncePublished'
      /\ \A u \in Streams, k \in AboutAgents :
           ToPublish(u, k)' <=> Occurs(IF u = s THEN Farewell(s) ELSE todo[u], k)
  BY <1>1, FarewellsToPublish, PublishedScript DEF RecvEnd
<1>3. /\ UNCHANGED <<agentId, reports, lost>>
      /\ \A u \in Streams : handler'[u] = IF u = s THEN "returned" ELSE handler[u]
      /\ \A u \in Streams : u # s => todo'[u] = todo[u]
      /\ todo[s] = <<>> /\ handler[s] = "recv"
      /\ \A u \in Streams : reports[u] \in Nat
  BY <1>1, IsTyped DEF RecvEnd
<1>4. /\ \A u \in Streams, k \in AboutAgents :
           u # s => (ToPublish(u, k)' <=> ToPublish(u, k))
      /\ \A k \in AboutAgents : ~ToPublish(s, k)
      /\ \A k \in AboutAgents :
           ToPublish(s, k)' <=> k = "AgentDisconnected" /\ reports[s] > 0
  BY <1>2, <1>3, FarewellsToPublish, NothingToPublish, ToPublishOccurs
<1>5. ASSUME NEW u \in Streams PROVE PhaseOf(u)'
  <2>1. PhaseOf(u)
    BY DEF DashInv, Scripted, InPhase
  <2>2. CASE u = s
    BY <2>1, <2>2, <1>3, <1>4 DEF PhaseOf, AboutAgents
  <2>3. CASE u # s
    BY <2>1, <2>3, <1>3, <1>4 DEF PhaseOf, AboutAgents
  <2>. QED
    BY <2>2, <2>3
<1>6. \A u \in Streams : OnTable(u)' <=> OnTable(u)
  <2>1. OnTable(s)' <=> OnTable(s)
    BY <1>3, <1>4 DEF OnTable, Heard, AboutAgents
  <2>2. \A u \in Streams : u # s => (OnTable(u)' <=> OnTable(u))
    BY <1>3, <1>4 DEF OnTable, Heard, AboutAgents
  <2>. QED
    BY <2>1, <2>2
<1>7. \A u \in Streams :
        ToPublish(u, "PacketReceived")' <=> ToPublish(u, "PacketReceived")
  BY <1>4 DEF AboutAgents
<1>8. (TableExact /\ NoGhostAgents)'
  BY <1>1, <1>3, <1>6, <1>7, InvHandler DEF DashInv
<1>. QED
  BY <1>1, <1>2, <1>5, <1>8 DEF DashInv, Scripted, InPhase

(* What an event does to the entry of its agent, and to no other.          *)
LEMMA TabulatedEntries ==
  ASSUME NEW known, NEW id, NEW kind \in AboutAgents
  PROVE  LET next == Tabulated(known, Event(kind, id))
         IN /\ \A i : i # id => (i \in DOMAIN next <=> i \in DOMAIN known)
            /\ \A i \in DOMAIN known : i # id => next[i] = known[i]
            /\ kind = "AgentConnected" => id \in DOMAIN next /\ next[id] = 0
            /\ kind = "AgentDisconnected" => id \notin DOMAIN next
            /\ kind = "PacketReceived" =>
                 /\ id \in DOMAIN next <=> id \in DOMAIN known
                 /\ id \in DOMAIN known => next[id] = known[id] + 1
<1>. DEFINE e == Event(kind, id)
            next == Tabulated(known, e)
<1>1. e.kind = kind /\ e.id = id
  BY DEF Event
<1>. HIDE DEF e
<1>2. CASE kind = "AgentConnected"
  <2>1. next = With(known, id, 0)
    BY <1>1, <1>2 DEF Tabulated
  <2>. HIDE DEF next
  <2>. QED
    BY <1>2, <2>1 DEF With, e, next
<1>3. CASE kind = "AgentDisconnected"
  <2>1. next = Without(known, id)
    BY <1>1, <1>3 DEF Tabulated
  <2>. HIDE DEF next
  <2>. QED
    BY <1>3, <2>1 DEF Without, Restrict, e, next
<1>4. CASE kind = "PacketReceived" /\ id \in DOMAIN known
  <2>1. next = With(known, id, known[id] + 1)
    BY <1>1, <1>4 DEF Tabulated
  <2>. HIDE DEF next
  <2>. QED
    BY <1>4, <2>1 DEF With, e, next
<1>5. CASE kind = "PacketReceived" /\ id \notin DOMAIN known
  <2>1. next = known
    BY <1>1, <1>5 DEF Tabulated
  <2>. HIDE DEF next
  <2>. QED
    BY <1>5, <2>1 DEF e, next
<1>. QED
  BY <1>2, <1>3, <1>4, <1>5 DEF AboutAgents

LEMMA InvPublishNext ==
  ASSUME DashInv, NEW s \in Streams, PublishNext(s)
  PROVE  DashInv'
<1>1. DashTyped /\ DashTyped' /\ OncePublished
  BY TypesPublishNext DEF DashInv, Scripted
<1>. DEFINE id == agentId[s]
            Taken(kind) == Tabulated(Settled, Event(kind, id))
            Lost(kind) == [lost EXCEPT ![s][kind] = @ + 1]
<1>2. PICK kind \in Kinds \cup {None} :
        /\ OncePublished' /\ ~ToPublish(s, "AgentConnected")'
        /\ \A u \in Streams, k \in AboutAgents :
             ToPublish(u, k)' <=> ToPublish(u, k) /\ ~(u = s /\ k = kind)
        /\ kind \in AboutAgents => ToPublish(s, kind)
        /\ \/ /\ lost' = lost
              /\ Settled' = IF kind \in AboutAgents THEN Taken(kind) ELSE Settled
           \/ /\ kind \in AboutAgents /\ Settled' = Settled
              /\ lost' = Lost(kind)
        /\ todo[s] # <<>> /\ UNCHANGED <<main, agentId, handler, reports>>
  BY <1>1, PublishedNext
<1>3. /\ lost \in [Streams -> [AboutAgents -> Nat]] /\ IsTable(Settled)
      /\ \A u \in Streams : reports[u] \in Nat
      /\ \A u \in Streams, k \in AboutAgents : lost[u][k] \in Nat
      /\ \A u \in Streams, k \in AboutAgents : lost'[u][k] \in Nat
  <2>1. lost' \in [Streams -> [AboutAgents -> Nat]]
    BY <1>1 DEF DashTyped, DashTypeOK
  <2>. QED
    BY <1>1, <2>1, IsTyped, SettledIsTable
<1>4. \A u \in Streams : PhaseOf(u)
  BY DEF DashInv, Scripted, InPhase
<1>5. ASSUME kind \in AboutAgents, lost' = Lost(kind)
      PROVE  \A u \in Streams, k \in AboutAgents :
               lost'[u][k] = IF u = s /\ k = kind THEN lost[u][k] + 1 ELSE lost[u][k]
  BY <1>3, <1>5
<1>6. \A u \in Streams, k \in AboutAgents : lost'[u][k] # lost[u][k] => u = s /\ k = kind
  BY <1>2, <1>5
<1>7. ASSUME NEW u \in Streams PROVE PhaseOf(u)'
  <2>1. PhaseOf(u)
    BY <1>4
  <2>2. handler'[u] = "new" => todo'[u] = <<>> /\ reports'[u] = 0
    <3>1. u # s => todo'[u] = todo[u]
      BY <1>1, IsTyped DEF PublishNext
    <3>. QED
      BY <1>2, <2>1, <3>1 DEF PhaseOf
  <2>3. reports'[u] = 0 =>
          \A k \in AboutAgents : ~ToPublish(u, k)' /\ lost'[u][k] = 0
    BY <1>2, <1>6, <2>1 DEF PhaseOf
  <2>4. ToPublish(u, "AgentConnected")' =>
          /\ ToPublish(u, "PacketReceived")' /\ reports'[u] = 1
          /\ lost'[u]["AgentConnected"] = 0 /\ lost'[u]["PacketReceived"] = 0
    BY <1>2, <1>6, <2>1 DEF PhaseOf, AboutAgents
  <2>5. /\ ToPublish(u, "PacketReceived")' => handler'[u] = "recv"
        /\ ToPublish(u, "AgentDisconnected")' => handler'[u] = "returned"
    BY <1>2, <2>1 DEF PhaseOf, AboutAgents
  <2>6. ToPublish(u, "AgentDisconnected")' \/ handler'[u] # "returned" =>
          lost'[u]["AgentDisconnected"] = 0
    BY <1>2, <1>6, <2>1 DEF PhaseOf, AboutAgents
  <2>. QED
    BY <2>2, <2>3, <2>4, <2>5, <2>6 DEF PhaseOf
<1>8. \A u \in Streams : u # s \/ kind \notin AboutAgents =>
        /\ OnTable(u)' <=> OnTable(u)
        /\ reports'[u] = reports[u]
        /\ lost'[u]["PacketReceived"] = lost[u]["PacketReceived"]
        /\ ToPublish(u, "PacketReceived")' <=> ToPublish(u, "PacketReceived")
  BY <1>2, <1>6 DEF OnTable, Heard, AboutAgents
<1>9. CASE kind \notin AboutAgents
  <2>1. Settled' = Settled
    BY <1>2, <1>9
  <2>2. (TableExact /\ NoGhostAgents)'
    BY <1>2, <1>8, <1>9, <2>1, InvHandler DEF DashInv
  <2>. QED
    BY <1>1, <1>2, <1>7, <2>2 DEF DashInv, Scripted, InPhase
<1>10. CASE kind \in AboutAgents
  <2>1. /\ kind = "AgentConnected" =>
             /\ ~OnTable(s) /\ reports[s] = 1 /\ reports[s] > 0
             /\ lost[s]["PacketReceived"] = 0 /\ handler[s] = "recv"
             /\ ToPublish(s, "PacketReceived") /\ lost[s]["AgentConnected"] = 0
        /\ kind = "PacketReceived" => ToPublish(s, kind) /\ handler[s] = "recv"
        /\ kind = "AgentDisconnected" =>
             ToPublish(s, kind) /\ lost[s][kind] = 0 /\ handler[s] = "returned"
    BY <1>2, <1>4, <1>10 DEF PhaseOf, OnTable, Heard
  <2>2. CASE lost' = lost /\ Settled' = Taken(kind)
    <3>1. /\ kind = "AgentConnected" => OnTable(s)'
          /\ kind = "PacketReceived" => (OnTable(s)' <=> OnTable(s))
          /\ kind = "AgentDisconnected" => ~OnTable(s)'
      BY <1>2, <2>1, <2>2 DEF OnTable, Heard, AboutAgents
    <3>2. /\ \A i : i # id => (i \in DOMAIN Settled' <=> i \in DOMAIN Settled)
          /\ \A i \in DOMAIN Settled : i # id => Settled'[i] = Settled[i]
          /\ kind = "AgentConnected" => id \in DOMAIN Settled' /\ Settled'[id] = 0
          /\ kind = "AgentDisconnected" => id \notin DOMAIN Settled'
          /\ kind = "PacketReceived" =>
               /\ id \in DOMAIN Settled' <=> id \in DOMAIN Settled
               /\ id \in DOMAIN Settled => Settled'[id] = Settled[id] + 1
      BY <1>10, <2>2, TabulatedEntries
    <3>3. ASSUME NEW u \in Streams PROVE ExactAt(u)'
      <4>. SUFFICES ASSUME \A t \in Streams : agentId[t] = agentId[u] => t = u
                    PROVE  /\ agentId[u] \in DOMAIN Settled' <=> OnTable(u)'
                           /\ OnTable(u)' =>
                                Settled'[agentId[u]]
                                  = reports[u] - lost[u]["PacketReceived"]
                                    - (IF ToPublish(u, "PacketReceived")' THEN 1 ELSE 0)
        BY <1>2, <2>2 DEF ExactAt
      <4>1. /\ agentId[u] \in DOMAIN Settled <=> OnTable(u)
            /\ OnTable(u) =>
                 Settled[agentId[u]] = reports[u] - lost[u]["PacketReceived"]
                   - (IF ToPublish(u, "PacketReceived") THEN 1 ELSE 0)
        BY DEF DashInv, TableExact
      <4>2. CASE u # s
        <5>1. agentId[u] # id
          BY <4>2
        <5>. QED
          BY <1>8, <3>2, <4>1, <4>2, <5>1
      <4>3. CASE u = s
        <5>1. CASE kind = "AgentConnected"
          <6>1. ToPublish(s, "PacketReceived")'
            BY <1>2, <2>1, <5>1 DEF AboutAgents
          <6>. QED
            BY <2>1, <3>1, <3>2, <4>3, <5>1, <6>1
        <5>2. CASE kind = "PacketReceived"
          <6>1. ~ToPublish(s, "PacketReceived")' /\ ToPublish(s, "PacketReceived")
            BY <1>2, <2>1, <5>2 DEF AboutAgents
          <6>2. reports[s] \in Nat /\ lost[s]["PacketReceived"] \in Nat
            BY <1>3 DEF AboutAgents
          <6>. QED
            BY <3>1, <3>2, <4>1, <4>3, <5>2, <6>1, <6>2
        <5>3. CASE kind = "AgentDisconnected"
          BY <3>1, <3>2, <4>3, <5>3
        <5>. QED
          BY <1>10, <5>1, <5>2, <5>3 DEF AboutAgents
      <4>. QED
        BY <4>2, <4>3
    <3>4. TableExact'
      BY <3>3 DEF TableExact, ExactAt
    <3>5. ASSUME NEW i \in DOMAIN Settled'
          PROVE  \E u \in Streams : agentId[u] = i /\ OnTable(u)'
      <4>1. CASE i # id
        <5>1. PICK u \in Streams : agentId[u] = i /\ OnTable(u)
          BY <3>2, <3>5, <4>1 DEF DashInv, NoGhostAgents
        <5>. QED
          BY <1>8, <4>1, <5>1
      <4>2. CASE i = id /\ kind = "AgentConnected"
        BY <3>1, <4>2
      <4>3. CASE i = id /\ kind = "PacketReceived"
        <5>1. PICK u \in Streams : agentId[u] = i /\ OnTable(u)
          BY <3>2, <3>5, <4>3 DEF DashInv, NoGhostAgents
        <5>. QED
          BY <1>8, <3>1, <4>3, <5>1
      <4>. QED
        BY <1>10, <3>2, <3>5, <4>1, <4>2, <4>3 DEF AboutAgents
    <3>6. NoGhostAgents'
      BY <1>2, <3>5 DEF NoGhostAgents
    <3>. QED
      BY <1>1, <1>2, <1>7, <3>4, <3>6 DEF DashInv, Scripted, InPhase
  <2>3. CASE Settled' = Settled /\ lost' = Lost(kind)
    <3>1. OnTable(s)' <=> OnTable(s)
      <4>1. \A k \in AboutAgents : lost'[s][k] = IF k = kind THEN lost[s][k] + 1 ELSE lost[s][k]
        BY <1>5, <1>10, <2>3
      <4>2. \A k \in AboutAgents : lost[s][k] \in Nat
        BY <1>3
      <4>. QED
        BY <1>2, <2>1, <4>1, <4>2 DEF OnTable, Heard, AboutAgents
    <3>2. reports'[s] - lost'[s]["PacketReceived"]
              - (IF ToPublish(s, "PacketReceived")' THEN 1 ELSE 0)
            = reports[s] - lost[s]["PacketReceived"]
              - (IF ToPublish(s, "PacketReceived") THEN 1 ELSE 0)
      <4>1. reports[s] \in Nat /\ lost[s]["PacketReceived"] \in Nat /\ reports' = reports
        BY <1>2, <1>3 DEF AboutAgents
      <4>2. CASE kind = "PacketReceived"
        <5>1. lost'[s]["PacketReceived"] = lost[s]["PacketReceived"] + 1
          BY <1>5, <1>10, <2>3, <4>2
        <5>2. ToPublish(s, "PacketReceived") /\ ~ToPublish(s, "PacketReceived")'
          BY <1>2, <2>1, <4>2 DEF AboutAgents
        <5>. QED
          BY <4>1, <5>1, <5>2
      <4>3. CASE kind # "PacketReceived"
        <5>1. lost'[s]["PacketReceived"] = lost[s]["PacketReceived"]
          BY <1>6, <4>3 DEF AboutAgents
        <5>2. ToPublish(s, "PacketReceived") <=> ToPublish(s, "PacketReceived")'
          BY <1>2, <4>3 DEF AboutAgents
        <5>. QED
          BY <4>1, <5>1, <5>2
      <4>. QED
        BY <4>2, <4>3
    <3>3. \A u \in Streams :
            /\ OnTable(u)' <=> OnTable(u)
            /\ reports'[u] - lost'[u]["PacketReceived"]
                   - (IF ToPublish(u, "PacketReceived")' THEN 1 ELSE 0)
                 = reports[u] - lost[u]["PacketReceived"]
                   - (IF ToPublish(u, "PacketReceived") THEN 1 ELSE 0)
      BY <1>8, <3>1, <3>2
    <3>4. (TableExact /\ NoGhostAgents)'
      BY <1>2, <2>3, <3>3, InvHandler DEF DashInv
    <3>. QED
      BY <1>1, <1>2, <1>7, <3>4 DEF DashInv, Scripted, InPhase
  <2>. QED
    BY <1>2, <1>10, <2>2, <2>3
<1>. QED
  BY <1>9, <1>10

LEMMA InvNext ==
  ASSUME DashInv, [DashNext]_dashVars
  PROVE  DashInv'
<1>1. DashTyped'
  BY TypesNext DEF DashInv
<1>2. SameOutcome => DashInv'
  BY <1>1, InvSameOutcome DEF DashInv
<1>3. UpdateInput => UNCHANGED dashVars
  BY DEF UpdateInput
<1>. QED
  BY <1>2, <1>3, OthersPublishNothing, InvExit, InvMonitorStart, InvRecv, InvRecvEnd,
     InvPublishNext
  DEF DashNext, DashInv

LEMMA InvAlways == DashSpec => []DashInv
BY InvInit, InvNext, PTL DEF DashSpec

(* However events of any number of streams interleave and are dropped, an  *)
(* agent whose id is its own is on the table exactly while it is connected *)
(* as far as the bus took its events, with the packets that the bus took   *)
(* (events.go:29-37, tui.go:121-139, server.go:104-131).                   *)
THEOREM TableIsExact == DashSpec => []TableExact
BY InvAlways, PTL DEF DashInv

(* Whatever ids agents give themselves, the table has no agent whose       *)
(* streams have all ended, unless a goodbye was dropped                    *)
(* (events.go:33-36, tui.go:129-130).                                      *)
THEOREM NoGhosts == DashSpec => []NoGhostAgents
BY InvAlways, PTL DEF DashInv
=============================================================================
