--------------------------- MODULE AgentPipeline ---------------------------
(***************************************************************************)
(* agent/src/main.rs: the capture thread, the parser thread and the gRPC   *)
(* task, the queues between them, and the stream to a handler of the       *)
(* manager (Monitor in server.go), which sends commands on the same        *)
(* stream.  Both directions of the stream have a window: a sender that has *)
(* filled it waits.  The agent connects once.                              *)
(***************************************************************************)
EXTENDS Integers, Sequences

CONSTANTS
  queueCap,    \* capacity of the report queue (1000 in the code)
  upWindow,    \* reports the stream holds on their way up
  downWindow,  \* commands it holds on their way down
  MaxPackets,  \* bound on the packets that parse
  MaxRaw,      \* bound on the unbounded capture queue
  MaxDrained   \* bound on the commands of the stream's drain goroutine

ASSUME PipelineAssumption ==
  /\ {queueCap, upWindow, downWindow, MaxRaw} \subseteq Nat \ {0}
  /\ MaxPackets \in Nat /\ MaxDrained \in Nat

VARIABLES
  capture,   \* the capture thread: "starting", "running" or "ended"
  captured,  \* packets that parse, captured so far
  raw,       \* tx/rx: packets, by number; 0 is one that does not parse
  parser,    \* the parser thread: "recv", "sending" or "ended"
  held,      \* the report it is sending
  queue,     \* tx_report/rx_report
  receiver,  \* rx_report is not dropped
  task,      \* the gRPC task: "connecting", "calling", "reading", "handling",
             \* or "done"
  link,      \* the stream: "none", "open" or "broken"
  fin,       \* the agent has ended its direction of the stream
  up,        \* reports on their way
  down,      \* commands on their way
  handler,   \* the manager's handler: "none", "recv", "sending" or "returned"
  owed,      \* commands it has still to send for the last report
  headers,   \* a first command has gone out, and the response headers with it
  drained,   \* commands its drain goroutine sent
  delivered  \* ghost: reports the handler received

agentVars == <<capture, captured, raw, parser, held, queue, receiver, task>>
streamVars == <<link, fin, up, down>>
serverVars == <<handler, owed, headers, drained, delivered>>
pipeVars == <<agentVars, streamVars, serverVars>>

PipeInit ==
  /\ capture = "starting" /\ captured = 0 /\ raw = <<>>
  /\ parser = "recv" /\ held = <<>> /\ queue = <<>> /\ receiver = TRUE
  /\ task = "connecting" /\ link = "none" /\ fin = FALSE
  /\ up = <<>> /\ down = 0
  /\ handler = "none" /\ owed = 0 /\ headers = FALSE /\ drained = 0
  /\ delivered = <<>>

-----------------------------------------------------------------------------
(* The capture thread *)

(* The interface is opened, or the thread panics and drops tx.             *)
CaptureStart ==
  /\ capture = "starting" /\ capture' \in {"running", "ended"}
  /\ UNCHANGED <<captured, raw, parser, held, queue, receiver, task, streamVars,
                 serverVars>>

Capture ==
  /\ capture = "running" /\ Len(raw) < MaxRaw
  /\ \/ /\ captured < MaxPackets /\ captured' = captured + 1
        /\ raw' = Append(raw, captured + 1)
     \/ UNCHANGED captured /\ raw' = Append(raw, 0)
  /\ UNCHANGED <<capture, parser, held, queue, receiver, task, streamVars,
                 serverVars>>

-----------------------------------------------------------------------------
(* The parser thread *)

Parses(p) == p # 0

(* A packet that does not parse is dropped.                                *)
ParserRecv ==
  /\ parser = "recv" /\ raw # <<>>
  /\ raw' = Tail(raw)
  /\ IF Parses(Head(raw)) THEN parser' = "sending" /\ held' = <<Head(raw)>>
     ELSE UNCHANGED <<parser, held>>
  /\ UNCHANGED <<capture, captured, queue, receiver, task, streamVars, serverVars>>

Sent(q) == parser' = "recv" /\ held' = <<>> /\ queue' = q

ParserSendUnbounded == \* mutant: unbounded_channel
  /\ parser = "sending" /\ receiver /\ Sent(queue \o held)
  /\ UNCHANGED <<capture, captured, raw, receiver, task, streamVars, serverVars>>
ParserSendTry == \* mutant: try_send
  /\ parser = "sending" /\ receiver
  /\ Sent(IF Len(queue) < queueCap THEN queue \o held ELSE queue)
  /\ UNCHANGED <<capture, captured, raw, receiver, task, streamVars, serverVars>>

(* blocking_send waits for room ...                                        *)
ParserSend ==
  /\ parser = "sending" /\ receiver /\ Len(queue) < queueCap
  /\ Sent(queue \o held)
  /\ UNCHANGED <<capture, captured, raw, receiver, task, streamVars, serverVars>>

(* ... and fails, with a message, once nobody can receive.                 *)
ParserSendFails ==
  /\ parser = "sending" /\ ~receiver /\ Sent(queue)
  /\ UNCHANGED <<capture, captured, raw, receiver, task, streamVars, serverVars>>

(* tx is gone and the capture queue empty: the thread ends, tx_report too. *)
ParserEnd ==
  /\ parser = "recv" /\ capture = "ended" /\ raw = <<>>
  /\ parser' = "ended"
  /\ UNCHANGED <<capture, captured, raw, held, queue, receiver, task, streamVars,
                 serverVars>>

-----------------------------------------------------------------------------
(* The gRPC task, and the stream it runs *)

(* One attempt to connect; the call then begins to send the reports.       *)
Connect ==
  /\ task = "connecting" /\ link = "none"
  /\ \/ task' = "calling" /\ link' = "open" /\ handler' = "recv"
     \/ task' = "done" /\ link' = "broken" /\ UNCHANGED handler
  /\ UNCHANGED <<capture, captured, raw, parser, held, queue, receiver, fin, up,
                 down, owed, headers, drained, delivered>>

Upload ==
  /\ link = "open" /\ queue # <<>> /\ Len(up) < upWindow
  /\ up' = Append(up, Head(queue)) /\ queue' = Tail(queue)
  /\ UNCHANGED <<capture, captured, raw, parser, held, receiver, task, link, fin,
                 down, serverVars>>

SendersGoneCloned == FALSE \* mutant: main keeps a clone of tx_report
SendersGone == parser = "ended"

(* No sender and nothing queued: the outbound stream ends.                 *)
UploadEnd ==
  /\ link = "open" /\ SendersGone /\ queue = <<>> /\ ~fin
  /\ fin' = TRUE
  /\ UNCHANGED <<agentVars, link, up, down, serverVars>>

(* monitor().await: the response comes with its headers.                   *)
Response ==
  /\ task = "calling" /\ link = "open"
  /\ headers \/ handler = "returned"
  /\ task' = "reading"
  /\ UNCHANGED <<capture, captured, raw, parser, held, queue, receiver,
                 streamVars, serverVars>>

ReadCommandIdle == \* mutant: commands are read when no report waits
  /\ task = "reading" /\ down > 0 /\ queue = <<>>
  /\ down' = down - 1 /\ task' = "handling"
  /\ UNCHANGED <<capture, captured, raw, parser, held, queue, receiver, link,
                 fin, up, serverVars>>

(* One command at a time: handle_command (Responder) is awaited.           *)
ReadCommand ==
  /\ task = "reading" /\ down > 0
  /\ down' = down - 1 /\ task' = "handling"
  /\ UNCHANGED <<capture, captured, raw, parser, held, queue, receiver, link,
                 fin, up, serverVars>>

CommandHandled ==
  /\ task = "handling" /\ task' = "reading"
  /\ UNCHANGED <<capture, captured, raw, parser, held, queue, receiver,
                 streamVars, serverVars>>

(* The call failed, the stream broke, or the manager ended it.             *)
TaskEnd ==
  /\ \/ task \in {"calling", "reading"} /\ link = "broken"
     \/ task = "reading" /\ handler = "returned" /\ down = 0
  /\ task' = "done"
  /\ UNCHANGED <<capture, captured, raw, parser, held, queue, receiver,
                 streamVars, serverVars>>

DropReceiverDrained == \* mutant: rx_report is kept until it is empty
  /\ receiver /\ link = "broken" /\ queue = <<>> /\ receiver' = FALSE
  /\ UNCHANGED <<capture, captured, raw, parser, held, queue, task, streamVars,
                 serverVars>>

(* With the stream rx_report is dropped, and the reports in it.            *)
DropReceiver ==
  /\ receiver /\ link = "broken"
  /\ receiver' = FALSE /\ queue' = <<>>
  /\ UNCHANGED <<capture, captured, raw, parser, held, task, streamVars,
                 serverVars>>

(* The network or the manager fails: the handler may still find reports    *)
(* that had arrived, the agent commands.                                   *)
Break ==
  /\ link = "open" /\ handler # "returned" /\ link' = "broken"
  /\ \E k \in 0 .. Len(up) : up' = SubSeq(up, 1, k)
  /\ UNCHANGED <<agentVars, fin, down, serverVars>>

(* Ctrl-C: exit(0), at any time.                                           *)
Exit ==
  /\ parser # "ended" \/ task # "done"
  /\ link' = IF handler = "returned" THEN link ELSE "broken"
  /\ capture' = "ended" /\ raw' = <<>> /\ parser' = "ended" /\ held' = <<>>
  /\ queue' = <<>> /\ receiver' = FALSE /\ task' = "done" /\ down' = 0
  /\ UNCHANGED <<captured, fin, up, serverVars>>

-----------------------------------------------------------------------------
(* The manager's side of the stream *)

(* A report is received; a rule and a window may each make a command.      *)
MonitorRecv ==
  /\ handler = "recv" /\ up # <<>>
  /\ delivered' = Append(delivered, Head(up)) /\ up' = Tail(up)
  /\ owed' \in 0 .. 2 /\ handler' = IF owed' > 0 THEN "sending" ELSE "recv"
  /\ UNCHANGED <<agentVars, link, fin, down, headers, drained>>

(* Send waits for the window, or fails when the stream is broken.          *)
MonitorSend ==
  /\ handler = "sending"
  /\ \/ link = "open" /\ down < downWindow /\ down' = down + 1 /\ headers' = TRUE
     \/ link = "broken" /\ UNCHANGED <<down, headers>>
  /\ owed' = owed - 1 /\ handler' = IF owed' > 0 THEN "sending" ELSE "recv"
  /\ UNCHANGED <<agentVars, link, fin, up, drained, delivered>>

(* io.EOF, or the error of a broken stream.                                *)
MonitorEnd ==
  /\ handler = "recv" /\ up = <<>>
  /\ fin \/ link = "broken"
  /\ handler' = "returned"
  /\ UNCHANGED <<agentVars, streamVars, owed, headers, drained, delivered>>

DrainSend ==
  /\ handler \in {"recv", "sending"} /\ link = "open" /\ drained < MaxDrained
  /\ down < downWindow /\ down' = down + 1
  /\ headers' = TRUE /\ drained' = drained + 1
  /\ UNCHANGED <<agentVars, link, fin, up, handler, owed, delivered>>

-----------------------------------------------------------------------------
Parser == ParserRecv \/ ParserSend \/ ParserSendFails \/ ParserEnd
Stream == Upload \/ UploadEnd
Task == Connect \/ Response \/ ReadCommand \/ CommandHandled \/ TaskEnd
Monitor == MonitorRecv \/ MonitorSend \/ MonitorEnd

PipeNext ==
  \/ CaptureStart \/ Capture \/ Parser \/ Stream \/ Task \/ DropReceiver
  \/ Monitor \/ DrainSend \/ Break \/ Exit

PipeSpec == PipeInit /\ [][PipeNext]_pipeVars

(* Threads, tasks and the manager's handler run, and a connection attempt  *)
(* ends in one way or the other.  No packet has to come.                   *)
PipeFairness ==
  /\ WF_pipeVars(Parser) /\ WF_pipeVars(Stream) /\ WF_pipeVars(Task)
  /\ WF_pipeVars(DropReceiver) /\ WF_pipeVars(Monitor)

FairPipeSpec == PipeSpec /\ PipeFairness

-----------------------------------------------------------------------------
(* Properties *)

Number == 1 .. MaxPackets

(* Every variable has its type; queue and windows respect their capacity.  *)
PipeTypeOK ==
  /\ capture \in {"starting", "running", "ended"} /\ captured \in 0 .. MaxPackets
  /\ raw \in Seq({0} \cup Number)
  /\ parser \in {"recv", "sending", "ended"} /\ held \in Seq(Number)
  /\ queue \in Seq(Number) /\ Len(queue) <= queueCap /\ receiver \in BOOLEAN
  /\ task \in {"connecting", "calling", "reading", "handling", "done"}
  /\ link \in {"none", "open", "broken"} /\ fin \in BOOLEAN
  /\ up \in Seq(Number) /\ Len(up) <= upWindow /\ down \in 0 .. downWindow
  /\ handler \in {"none", "recv", "sending", "returned"}
  /\ owed \in 0 .. 2 /\ headers \in BOOLEAN /\ drained \in 0 .. MaxDrained
  /\ delivered \in Seq(Number)

(* The numbers of the packets after the first m, up to the n-th.           *)
Outstanding(m, n) == [i \in 1 .. n - m |-> m + i]

(* The pipeline is a stream of reports: in order, none missing and none    *)
(* twice until it breaks, and closed only when all are delivered; what is  *)
(* still on its way after a break is what had left the agent               *)
(* (main.rs:61-84, 98, server.go:104-131).                                 *)
Reports == INSTANCE ReportStream WITH
  status <- IF link = "broken" THEN "broken"
            ELSE IF handler = "returned" THEN "closed" ELSE "open",
  waiting <- IF link = "broken" THEN up ELSE Outstanding(Len(delivered), captured)

ImplementsStream == Reports!StreamSpec

(* A report captured arrives at the manager unless the stream breaks: a    *)
(* handler that waits to send, and an agent that waits to report, never    *)
(* wait for each other (main.rs:79, 111-120, server.go:142, 183).          *)
ReportsArrive ==
  \A n \in Number : captured >= n ~> (Len(delivered) >= n \/ link = "broken")

(* The parser never waits for ever in blocking_send, also when the manager *)
(* was never there or is gone: its receiver goes with the task             *)
(* (main.rs:79-81, 90-104).                                                *)
ParserFreed == parser = "sending" ~> parser # "sending"

(* When the capture fails, the end goes through all queues: the parser     *)
(* thread, the stream, the manager's handler and the task end              *)
(* (main.rs:62, 98, 111, server.go:106-111).                               *)
EndPropagates ==
  capture = "ended" ~> (parser = "ended" /\ task = "done"
                          /\ handler \in {"none", "returned"})
=============================================================================
