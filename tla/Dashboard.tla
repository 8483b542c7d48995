----------------------------- MODULE Dashboard -----------------------------
(***************************************************************************)
(* manager/internal/events, manager/internal/tui and what main.go and      *)
(* server.go publish: every goroutine publishes to one bounded bus that    *)
(* drops what does not fit, and the dashboard reads one event at a time:   *)
(* waitForEvent, a command that bubbletea runs in a goroutine of its own,  *)
(* receives one event, hands it to Update, and Update asks for the next.   *)
(* Rendering is left out; the logs and alerts shown are counted.           *)
(***************************************************************************)
EXTENDS Integers, Sequences, SequencesExt, FiniteSetsExt, TLC

CONSTANTS
  Streams,     \* agent streams, each with its handler and drain goroutine
  AgentIds,    \* which ids the streams' agents may call themselves by
  busCap,      \* capacity of events.Bus (1000 in the code)
  maxAlerts,   \* alerts kept (100)
  maxLogs,     \* log lines kept (1000)
  MaxReports   \* bound on the reports of a stream

Ids == UNION {{f[s] : s \in Streams} : f \in AgentIds}
None == "none"

ASSUME DashboardAssumption ==
  /\ \A f \in AgentIds : f = [s \in Streams |-> f[s]]
  /\ None \notin Ids /\ MaxReports \in Nat
  /\ busCap \in Nat \ {0} /\ maxAlerts \in Nat \ {0} /\ maxLogs \in Nat \ {0}

VARIABLES
  main,      \* the manager's process: "boot", "up", "serving" or "exited"
  agentId,   \* per stream: the AgentId of its reports
  handler,   \* per stream: "new", "recv" or "returned"
  reports,   \* per stream: reports received
  todo,      \* per stream: what its handler publishes before it goes on: for
             \* each event in turn the kinds it may have
  bus,       \* events.Bus
  reading,   \* running waitForEvent commands
  inbox,     \* events received and not yet handled by Update
  agents,    \* m.activeAgents: id -> packets
  alerts,    \* length of m.alerts
  logs,      \* length of m.logs
  lost       \* ghost: per stream, the dropped events about its agent

dashVars == <<main, agentId, handler, reports, todo, bus, reading, inbox,
              agents, alerts, logs, lost>>
tuiVars == <<reading, inbox, agents, alerts, logs>>
streamVars == <<agentId, handler, reports, todo>>

AboutAgents == {"AgentConnected", "AgentDisconnected", "PacketReceived"}
Kinds == AboutAgents \cup {"AlertFired", "LogMessage"}

(* An event: of some kind, and perhaps about an agent.                     *)
Event(kind, id) == [kind |-> kind, id |-> id]
Line == Event("LogMessage", None)

Each(x) == [s \in Streams |-> x]
NoneLost == Each([k \in AboutAgents |-> 0])

(* main has logged the outcome of decision.Init.                           *)
DashInit ==
  /\ main = "boot" /\ agentId \in AgentIds
  /\ handler = Each("new") /\ reports = Each(0) /\ todo = Each(<<>>)
  /\ bus = <<Line>> /\ reading = 0 /\ inbox = {}
  /\ agents = <<>> /\ alerts = 0 /\ logs = 0 /\ lost = NoneLost

Running == main \in {"up", "serving"}

-----------------------------------------------------------------------------
(* events.go *)

PublishBlocking(e) == \* mutant: bus <- e without a default
  Len(bus) < busCap /\ bus' = Append(bus, e)

(* The event goes into the bus, or the full bus drops it.                  *)
Publish(e) ==
  \/ Len(bus) < busCap /\ bus' = Append(bus, e)
  \/ Len(bus) = busCap /\ UNCHANGED bus

-----------------------------------------------------------------------------
(* main.go *)

(* The dashboard starts, and asks for its first event.                     *)
Listen ==
  /\ main = "boot" /\ main' = "up" /\ reading' = 1
  /\ UNCHANGED <<streamVars, bus, inbox, agents, alerts, logs, lost>>

Serve ==
  /\ main = "up" /\ main' = "serving" /\ Publish(Line)
  /\ UNCHANGED <<streamVars, tuiVars, lost>>

(* The process ends: with q or ctrl+c Run returns, and main with it; when  *)
(* listening fails log.Fatalf sends its line to the bus nobody reads yet.  *)
Exit ==
  /\ main # "exited" /\ main' = "exited"
  /\ handler' = Each("new") /\ reports' = Each(0) /\ todo' = Each(<<>>)
  /\ bus' = <<>> /\ reading' = 0 /\ inbox' = {}
  /\ agents' = <<>> /\ alerts' = 0 /\ logs' = 0 /\ lost' = NoneLost
  /\ UNCHANGED agentId

-----------------------------------------------------------------------------
(* server.go: what Monitor and its drain goroutine publish *)

(* The handler publishes its next event, if there is one.                  *)
PublishNext(s) ==
  /\ todo[s] # <<>>
  /\ todo' = [todo EXCEPT ![s] = Tail(@)]
  /\ \E kind \in Head(todo[s]) :
       LET about == kind \in AboutAgents
       IN IF kind = None THEN UNCHANGED <<bus, lost>>
          ELSE /\ Publish(Event(kind, IF about THEN agentId[s] ELSE None))
               /\ lost' = IF about /\ Len(bus) = busCap
                          THEN [lost EXCEPT ![s][kind] = @ + 1] ELSE lost
  /\ UNCHANGED <<main, agentId, handler, reports, tuiVars>>

MonitorStart(s) ==
  /\ main = "serving" /\ handler[s] = "new"
  /\ handler' = [handler EXCEPT ![s] = "recv"]
  /\ todo' = [todo EXCEPT ![s] = <<{"LogMessage"}>>]
  /\ UNCHANGED <<main, agentId, reports, bus, tuiVars, lost>>

(* The first report introduces the agent.  A report may raise an alert,    *)
(* and its command or its window end in an error; what its window adds to  *)
(* the alert of a rule is like the events of Drain.                        *)
Greeting(s) == IF reports[s] = 0 THEN <<{"AgentConnected"}>> ELSE <<>>
Report == <<{"PacketReceived"}, {"AlertFired", None}, {"LogMessage", None}>>

Recv(s) ==
  /\ handler[s] = "recv" /\ todo[s] = <<>> /\ reports[s] < MaxReports
  /\ reports' = [reports EXCEPT ![s] = @ + 1]
  /\ todo' = [todo EXCEPT ![s] = Greeting(s) \o Report]
  /\ UNCHANGED <<main, agentId, handler, bus, tuiVars, lost>>

FarewellSilent(s) == <<{"LogMessage"}>> \* mutant: a broken stream says no goodbye
Farewell(s) ==
  IF reports[s] > 0 THEN <<{"AgentDisconnected"}, {"LogMessage"}>>
  ELSE <<{"LogMessage"}>>

(* io.EOF or a read error.                                                 *)
RecvEnd(s) ==
  /\ handler[s] = "recv" /\ todo[s] = <<>>
  /\ handler' = [handler EXCEPT ![s] = "returned"]
  /\ todo' = [todo EXCEPT ![s] = Farewell(s)]
  /\ UNCHANGED <<main, agentId, reports, bus, tuiVars, lost>>

(* The drain goroutine publishes alerts and errors whenever windows come.  *)
Drain(s) ==
  /\ handler[s] # "new"
  /\ \E kind \in {"AlertFired", "LogMessage"} : Publish(Event(kind, None))
  /\ UNCHANGED <<main, streamVars, tuiVars, lost>>

-----------------------------------------------------------------------------
(* tui.go *)

WaitForEvent ==
  /\ Running /\ reading > 0 /\ bus # <<>>
  /\ inbox' = inbox \cup {Head(bus)} /\ bus' = Tail(bus)
  /\ reading' = reading - 1
  /\ UNCHANGED <<main, streamVars, agents, alerts, logs, lost>>

(* The table with an agent at a number of packets, or without an agent.    *)
With(known, id, packets) ==
  [i \in DOMAIN known \cup {id} |-> IF i = id THEN packets ELSE known[i]]
Without(known, id) == Restrict(known, DOMAIN known \ {id})

TabulatedAny(known, e) == \* mutant: a packet makes its agent known
  CASE e.kind = "AgentConnected" -> With(known, e.id, 0)
    [] e.kind = "AgentDisconnected" -> Without(known, e.id)
    [] e.kind = "PacketReceived" ->
         With(known, e.id, IF e.id \in DOMAIN known THEN known[e.id] + 1 ELSE 1)
    [] OTHER -> known

(* What an event does to the table of agents.                              *)
Tabulated(known, e) ==
  CASE e.kind = "AgentConnected" -> With(known, e.id, 0)
    [] e.kind = "AgentDisconnected" -> Without(known, e.id)
    [] e.kind = "PacketReceived" /\ e.id \in DOMAIN known
         -> With(known, e.id, known[e.id] + 1)
    [] OTHER -> known

(* A list with one more, the oldest dropped when there are more than most. *)
KeptLate(length, most) == IF length > most THEN most ELSE length + 1 \* mutant
Kept(length, most) == Min({length + 1, most})

RearmKnown(e) == \* mutant: no next event after a packet of an unknown agent
  IF e.kind = "PacketReceived" /\ e.id \notin DOMAIN agents THEN 0 ELSE 1
Rearm(e) == 1

(* Update, for an event of the bus.                                        *)
Update(e) ==
  /\ Running /\ e \in inbox
  /\ inbox' = inbox \ {e} /\ reading' = reading + Rearm(e)
  /\ agents' = Tabulated(agents, e)
  /\ alerts' = IF e.kind = "AlertFired" THEN Kept(alerts, maxAlerts) ELSE alerts
  /\ logs' = IF e.kind = "PacketReceived" THEN logs ELSE Kept(logs, maxLogs)
  /\ UNCHANGED <<main, streamVars, bus, lost>>

(* Update, for a key or a resize: it asks for no event.                    *)
UpdateInputRearm == \* mutant: every message asks for the next event
  /\ Running /\ reading < 2 /\ reading' = reading + 1
  /\ UNCHANGED <<main, streamVars, bus, inbox, agents, alerts, logs, lost>>
UpdateInput == Running /\ UNCHANGED dashVars

-----------------------------------------------------------------------------
DashNext ==
  \/ Listen \/ Serve \/ Exit
  \/ \E s \in Streams :
       MonitorStart(s) \/ Recv(s) \/ RecvEnd(s) \/ PublishNext(s) \/ Drain(s)
  \/ WaitForEvent \/ UpdateInput
  \/ \E e \in inbox : Update(e)

DashSpec == DashInit /\ [][DashNext]_dashVars

(* A goroutine that can publish does.  The terminal may hold up the        *)
(* dashboard as long as it likes.                                          *)
FairDashSpec == DashSpec /\ \A s \in Streams : WF_dashVars(PublishNext(s))

TuiRuns == WF_dashVars(WaitForEvent) /\ WF_dashVars(\E e \in inbox : Update(e))

-----------------------------------------------------------------------------
(* Properties *)

EventType ==
  [kind : AboutAgents, id : Ids] \cup [kind : Kinds \ AboutAgents, id : {None}]

IsTable(known) == known \in [DOMAIN known -> Nat] /\ DOMAIN known \subseteq Ids

(* Every variable has its type; the bus and the lists respect their size.  *)
DashTypeOK ==
  /\ main \in {"boot", "up", "serving", "exited"}
  /\ agentId \in [Streams -> Ids]
  /\ handler \in [Streams -> {"new", "recv", "returned"}]
  /\ reports \in [Streams -> 0 .. MaxReports]
  /\ todo \in [Streams -> Seq(SUBSET (Kinds \cup {None}))]
  /\ bus \in Seq(EventType) /\ Len(bus) <= busCap
  /\ reading \in Nat /\ inbox \subseteq EventType
  /\ IsTable(agents)
  /\ alerts \in 0 .. maxAlerts /\ logs \in 0 .. maxLogs
  /\ lost \in [Streams -> [AboutAgents -> Nat]]

(* While the dashboard runs there is exactly one reader of the bus, or one *)
(* event on its way to Update: with none the dashboard freezes, with two   *)
(* it sees events out of order (tui.go:76-86, 121-158).                    *)
OneReader == Running => reading + Cardinality(inbox) = 1

(* The table after some events, and once those under way are handled.      *)
After(known, events) ==
  LET after[n \in 0 .. Len(events)] ==
        IF n = 0 THEN known ELSE Tabulated(after[n - 1], events[n])
  IN after[Len(events)]
Settled == After(agents, SetToSeq(inbox) \o bus)

(* What a stream has published, as far as the bus took it.                 *)
ToPublish(s, kind) == \E i \in DOMAIN todo[s] : kind \in todo[s][i]
Heard(s, kind) == ~ToPublish(s, kind) /\ lost[s][kind] = 0
OnTable(s) ==
  /\ reports[s] > 0 /\ Heard(s, "AgentConnected")
  /\ ~(handler[s] = "returned" /\ Heard(s, "AgentDisconnected"))

(* If no two streams have one id, the table shows exactly the agents that  *)
(* are connected, with their packets, but for the events the bus dropped   *)
(* (events.go:29-37, tui.go:121-139, server.go:104-131).                   *)
TableExact ==
  \A s \in Streams :
    (\A t \in Streams : agentId[t] = agentId[s] => t = s)
      => LET id == agentId[s]
         IN /\ id \in DOMAIN Settled <=> OnTable(s)
            /\ OnTable(s) =>
                 Settled[id] = reports[s] - lost[s]["PacketReceived"]
                   - (IF ToPublish(s, "PacketReceived") THEN 1 ELSE 0)

(* Whatever ids agents have, one is on the table only if a stream of that  *)
(* id was greeted and has not ended, or its goodbye was dropped            *)
(* (events.go:33-36, tui.go:129-130).                                      *)
NoGhostAgents ==
  \A id \in DOMAIN Settled : \E s \in Streams : agentId[s] = id /\ OnTable(s)

(* A stream that has ended is done with, however long the dashboard is     *)
(* held up: nobody who publishes ever waits for it (events.go:30-36).      *)
PublishersNeverBlock ==
  \A s \in Streams :
    handler[s] = "returned" ~> (main = "exited" \/ todo[s] = <<>>)

(* While the dashboard runs, all that a stream had published about its     *)
(* agent reaches the table, although drain goroutines publish all the time *)
(* (tui.go:83-86).                                                         *)
Shown(s) ==
  todo[s] = <<>> /\ \A e \in inbox \cup Range(bus) : e.id # agentId[s]
EventsShown ==
  TuiRuns =>
    \A s \in Streams : handler[s] = "returned" ~> (main = "exited" \/ Shown(s))
=============================================================================
