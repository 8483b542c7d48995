----------------------------- MODULE Responder -----------------------------
(***************************************************************************)
(* The Linux agent's response: agent/src/responder.rs, ebpf_loader.rs and  *)
(* the shutdown and start of main.rs.  Commands are handled one at a time; *)
(* each spawns a task that undoes it after its duration, and the tasks run *)
(* concurrently with the handler and with the shutdown.  Every run of      *)
(* iptables or bpftool is one step, and may fail: the code ignores it.     *)
(* (rm -f of the pins is taken to succeed.)  The INPUT chain and the       *)
(* attached XDP program with its map are the kernel's: they outlive the    *)
(* agent.                                                                  *)
(***************************************************************************)
EXTENDS Integers, FiniteSets

CONSTANTS
  IPs,          \* addresses the manager commands against
  V4,           \* those that are IPv4
  Rates,        \* rate_limit_pps values; 0 if the YAML has none
  Durations,    \* duration_seconds values
  MaxTime,      \* bound: the clock saturates here
  MaxCommands,  \* bound on the commands
  MaxFailures,  \* bound on the failures of iptables and bpftool
  MaxStops      \* bound on the agent's crashes and shutdowns

ASSUME ResponderAssumption ==
  /\ V4 \subseteq IPs /\ Rates \subseteq Nat /\ Durations \subseteq Nat
  /\ MaxTime \in Nat /\ MaxCommands \in Nat /\ MaxFailures \in Nat
  /\ MaxStops \in Nat

VARIABLES
  now,          \* the clock
  alive,        \* the agent's process runs
  closing,      \* the next step of the Ctrl-C task, if it has been woken
  stops,        \* crashes and shutdowns so far
  xdpActive,    \* XDP_ACTIVE
  pinned,       \* blocked_ips names the map of the attached program
  xdpMap,       \* keys of the attached program's map
  leaked,       \* ghost: keys that a failed deletion or detach left there
  chain,        \* the INPUT rules of the agent, each at its position
  appended,     \* ghost: rules appended so far; positions only grow
  handler,      \* the command being handled and its next step
  tasks,        \* spawned tasks: what they undo, when, and their next step
  received,     \* commands received so far
  permanent,    \* ghost: for each rule, commands of duration 0 that hold it
  blocked,      \* ghost: addresses that this process blocked for good
  orphaned,     \* ghost: for each rule, holders that died with the agent
  torn,         \* ghost: addresses whose rate limit died half done
  failedAdds,   \* ghost: for each rule, failed -A
  failedDels,   \* ghost: for each rule, failed -D
  failures      \* ghost: failures that did not have to happen

processVars == <<alive, closing, stops>>
xdpVars == <<xdpActive, pinned, xdpMap, leaked>>
chainVars == <<chain, appended>>
pastVars == <<permanent, blocked, orphaned, torn>>
failVars == <<failedAdds, failedDels, failures>>
respVars == <<now, processVars, xdpVars, chainVars, handler, tasks, received,
              pastVars, failVars>>

Drop(ip) == [ip |-> ip, target |-> "DROP", pps |-> 0]
Accept(ip, pps) == [ip |-> ip, target |-> "ACCEPT", pps |-> pps]
Rules == {Drop(ip) : ip \in IPs} \cup {Accept(ip, p) : ip \in IPs, p \in Rates}

(* main first loads XDP, which may fail; nothing of ours is there yet.     *)
RespInit ==
  /\ now = 0 /\ alive = TRUE /\ closing = "no" /\ stops = 0
  /\ xdpActive \in BOOLEAN /\ pinned = xdpActive /\ xdpMap = {} /\ leaked = {}
  /\ chain = {} /\ appended = 0
  /\ handler = {} /\ tasks = {} /\ received = 0
  /\ permanent = [r \in Rules |-> 0] /\ orphaned = [r \in Rules |-> 0]
  /\ blocked = {} /\ torn = {}
  /\ failedAdds = [r \in Rules |-> 0] /\ failedDels = [r \in Rules |-> 0]
  /\ failures = 0

-----------------------------------------------------------------------------
(* The kernel's side *)

MayFail == failures < MaxFailures

At(r) == {x \in chain : x.rule = r}

(* iptables rejects an IPv6 address, and a limit of 0/s.                   *)
WellFormed(r) == r.ip \in V4 /\ (r.target = "ACCEPT" => r.pps > 0)

AppendFirst(r) == \* mutant: inserts, -I
  /\ WellFormed(r)
  /\ chain' = chain \cup {[pos |-> -appended, rule |-> r]}
  /\ appended' = appended + 1
  /\ UNCHANGED <<failedAdds, failures>>

(* iptables -A INPUT: appends, unless it fails, as it must for a rule that *)
(* is not well formed.                                                     *)
Append(r) ==
  \/ /\ WellFormed(r)
     /\ chain' = chain \cup {[pos |-> appended + 1, rule |-> r]}
     /\ appended' = appended + 1
     /\ UNCHANGED <<failedAdds, failures>>
  \/ /\ ~WellFormed(r) \/ MayFail
     /\ failedAdds' = [failedAdds EXCEPT ![r] = @ + 1]
     /\ failures' = IF WellFormed(r) THEN failures + 1 ELSE failures
     /\ UNCHANGED chainVars

(* iptables -D INPUT: deletes the first rule that is equal, if there is    *)
(* one, unless it fails.                                                   *)
First(S) == {x \in S : \A y \in S : x.pos <= y.pos}
DeleteEvery(r) == \* mutant: all equal rules go
  /\ chain' = chain \ At(r)
  /\ UNCHANGED <<failedDels, failures>>
DeleteLast(r) == \* mutant: the last equal rule goes
  /\ chain' = chain \ {x \in At(r) : \A y \in At(r) : y.pos <= x.pos}
  /\ UNCHANGED <<failedDels, failures>>
Delete(r) ==
  \/ /\ chain' = chain \ First(At(r))
     /\ UNCHANGED <<failedDels, failures>>
  \/ /\ At(r) # {} /\ MayFail
     /\ failedDels' = [failedDels EXCEPT ![r] = @ + 1]
     /\ failures' = failures + 1
     /\ UNCHANGED chain

(* block_ip and unblock_ip of ebpf_loader: an IPv4 key of the pinned map.  *)
(* They are called if XDP is active; the flag and bpftool's run are one    *)
(* step, because once the pin is gone the run has no effect either way.    *)
Reaches(ip) == xdpActive /\ pinned /\ ip \in V4

XdpInsert(ip) ==
  \/ /\ Reaches(ip)
     /\ xdpMap' = xdpMap \cup {ip} /\ leaked' = leaked \ {ip}
     /\ UNCHANGED failures
  \/ /\ Reaches(ip) /\ MayFail
     /\ failures' = failures + 1 /\ UNCHANGED <<xdpMap, leaked>>
  \/ ~Reaches(ip) /\ UNCHANGED <<xdpMap, leaked, failures>>

XdpDeleteNever(ip) == UNCHANGED <<xdpMap, leaked, failures>> \* mutant
XdpDelete(ip) ==
  \/ /\ Reaches(ip)
     /\ xdpMap' = xdpMap \ {ip} /\ leaked' = leaked \ {ip}
     /\ UNCHANGED failures
  \/ /\ Reaches(ip) /\ ip \in xdpMap /\ MayFail
     /\ leaked' = leaked \cup {ip}
     /\ failures' = failures + 1 /\ UNCHANGED xdpMap
  \/ ~Reaches(ip) /\ UNCHANGED <<xdpMap, leaked, failures>>

-----------------------------------------------------------------------------
(* handle_command: one command at a time *)

Commands ==
  [action : {"BLOCK"}, ip : IPs, pps : {0}, duration : Durations]
  \cup [action : {"RATE_LIMIT"}, ip : IPs, pps : Rates, duration : Durations]

(* An ALLOW is only printed.                                               *)
Receive(cmd) ==
  /\ alive /\ handler = {} /\ received < MaxCommands
  /\ received' = received + 1
  /\ handler' = {[cmd |-> cmd,
                  step |-> IF cmd.action = "BLOCK" THEN "xdp" ELSE "accept"]}
  /\ UNCHANGED <<now, processVars, xdpVars, chainVars, tasks, pastVars, failVars>>

Goto(h, step) == handler' = {[h EXCEPT !.step = step]}

(* block_ip: the XDP map first; iptables is used in any case.              *)
BlockXdp ==
  \E h \in handler :
    /\ h.step = "xdp"
    /\ XdpInsert(h.cmd.ip)
    /\ Goto(h, "drop")
    /\ UNCHANGED <<now, processVars, xdpActive, pinned, chainVars, tasks,
                   received, pastVars, failedAdds, failedDels>>

(* rate_limit_ip_linux: packets within the limit are accepted ...          *)
RateLimitAccept ==
  \E h \in handler :
    /\ h.step = "accept"
    /\ Append(Accept(h.cmd.ip, h.cmd.pps))
    /\ Goto(h, "drop")
    /\ UNCHANGED <<now, processVars, xdpVars, tasks, received, pastVars,
                   failedDels>>

(* The rules a command stands for once it is carried out.                  *)
Holds(cmd) == IF cmd.action = "BLOCK" THEN {Drop(cmd.ip)}
              ELSE {Accept(cmd.ip, cmd.pps), Drop(cmd.ip)}

SaturatedTime(t) == IF t < MaxTime THEN t ELSE MaxTime

(* ... and both end with a DROP and, for a duration, a task.               *)
HandlerDrop ==
  \E h \in handler :
    LET cmd == h.cmd
        task == [n |-> received, cmd |-> cmd,
                 due |-> SaturatedTime(now + cmd.duration),
                 step |-> IF cmd.action = "BLOCK" THEN "xdp" ELSE "accept"]
    IN /\ h.step = "drop"
       /\ Append(Drop(cmd.ip))
       /\ handler' = {}
       /\ tasks' = IF cmd.duration > 0 THEN tasks \cup {task} ELSE tasks
       /\ permanent' = [r \in Rules |->
                          IF cmd.duration = 0 /\ r \in Holds(cmd)
                          THEN permanent[r] + 1 ELSE permanent[r]]
       /\ blocked' = IF cmd.duration = 0 /\ cmd.action = "BLOCK"
                     THEN blocked \cup {cmd.ip} ELSE blocked
       /\ UNCHANGED <<now, processVars, xdpVars, received, orphaned, torn,
                      failedDels>>

-----------------------------------------------------------------------------
(* The spawned tasks *)

Due(t) == now >= t.due
Step(t, step) == tasks' = (tasks \ {t}) \cup {[t EXCEPT !.step = step]}

UnblockXdpActive(t) == \* mutant: without XDP the task never goes on
  /\ t.step = "xdp" /\ Due(t) /\ xdpActive
  /\ XdpDelete(t.cmd.ip)
  /\ Step(t, "drop")
  /\ UNCHANGED <<now, processVars, xdpActive, pinned, chainVars, handler,
                 received, pastVars, failedAdds, failedDels>>

(* The task of a block: the map key, then the DROP.                        *)
UnblockXdp(t) ==
  /\ t.step = "xdp" /\ Due(t)
  /\ XdpDelete(t.cmd.ip)
  /\ Step(t, "drop")
  /\ UNCHANGED <<now, processVars, xdpActive, pinned, chainVars, handler,
                 received, pastVars, failedAdds, failedDels>>

(* The task of a rate limit: the ACCEPT, then the DROP.                    *)
UnlimitAccept(t) ==
  /\ t.step = "accept" /\ Due(t)
  /\ Delete(Accept(t.cmd.ip, t.cmd.pps))
  /\ Step(t, "drop")
  /\ UNCHANGED <<now, processVars, xdpVars, appended, handler, received,
                 pastVars, failedAdds>>

TaskDrop(t) ==
  /\ t.step = "drop"
  /\ Delete(Drop(t.cmd.ip))
  /\ tasks' = tasks \ {t}
  /\ UNCHANGED <<now, processVars, xdpVars, appended, handler, received,
                 pastVars, failedAdds>>

-----------------------------------------------------------------------------
(* The process *)

(* The rules the handler and the tasks hold: what they put, or tried to    *)
(* put, into the chain and have not taken out.                             *)
HalfLimited(h) == h.cmd.action = "RATE_LIMIT" /\ h.step = "drop"
HandlerHolds(h) ==
  IF HalfLimited(h) THEN {Accept(h.cmd.ip, h.cmd.pps)} ELSE {}
TaskHolds(t) == IF t.step = "drop" THEN {Drop(t.cmd.ip)} ELSE Holds(t.cmd)

HandlersOf(r) == {h \in handler : r \in HandlerHolds(h)}
TasksOf(r) == {t \in tasks : r \in TaskHolds(t)}
Holders(r) == Cardinality(HandlersOf(r)) + Cardinality(TasksOf(r))

(* The process is gone; so are its handler and its tasks.                  *)
Gone ==
  /\ alive /\ stops < MaxStops
  /\ alive' = FALSE /\ closing' = "no" /\ stops' = stops + 1
  /\ handler' = {} /\ tasks' = {}
  /\ orphaned' = [r \in Rules |-> orphaned[r] + Holders(r)]
  /\ torn' = torn \cup {h.cmd.ip : h \in {g \in handler : HalfLimited(g)}}
  /\ blocked' = {}
  /\ UNCHANGED <<now, xdpVars, chainVars, received, permanent, failVars>>

(* A crash, or a kill: XDP stays attached, the maps stay pinned.           *)
Crash == Gone

(* Ctrl-C wakes a task of its own: unload_xdp, then exit, while the        *)
(* handler and the other tasks go on.                                      *)
CtrlC ==
  /\ alive /\ closing = "no" /\ stops < MaxStops
  /\ closing' = IF xdpActive THEN "detach" ELSE "exit"
  /\ UNCHANGED <<now, alive, stops, xdpVars, chainVars, handler, tasks,
                 received, pastVars, failVars>>

(* bpftool net detach, for both kinds of XDP.  The keys go with the        *)
(* program; the pinned map is then one that no packet sees.                *)
Detach ==
  /\ closing = "detach" /\ closing' = "unpin"
  /\ \/ /\ pinned' = FALSE /\ xdpMap' = {} /\ leaked' = {}
        /\ UNCHANGED failures
     \/ /\ MayFail /\ failures' = failures + 1
        /\ UNCHANGED <<pinned, xdpMap, leaked>>
  /\ UNCHANGED <<now, alive, stops, xdpActive, chainVars, handler, tasks,
                 received, pastVars, failedAdds, failedDels>>

(* rm -f of the pins, and the flag: the keys of a program that is still    *)
(* attached are out of reach.                                              *)
Unpin ==
  /\ closing = "unpin" /\ closing' = "exit"
  /\ xdpActive' = FALSE /\ pinned' = FALSE /\ leaked' = xdpMap
  /\ UNCHANGED <<now, alive, stops, xdpMap, chainVars, handler, tasks,
                 received, pastVars, failVars>>

Exit == closing = "exit" /\ Gone

(* The container is restarted.  load_xdp detaches an old program, removes  *)
(* the old pins, loads and attaches: any of it may fail, and main goes on  *)
(* without XDP.  If the old program cannot be detached, the new one cannot *)
(* be attached, and the old keys stay in force.  The responder starts when *)
(* load_xdp has ended: it is one step.                                     *)
Restart ==
  /\ ~alive
  /\ alive' = TRUE
  /\ \/ /\ xdpActive' \in BOOLEAN /\ pinned' = xdpActive'
        /\ xdpMap' = {} /\ leaked' = {}
        /\ UNCHANGED failures
     \/ /\ xdpMap # {} /\ MayFail /\ failures' = failures + 1
        /\ xdpActive' = FALSE /\ pinned' = FALSE /\ leaked' = xdpMap
        /\ UNCHANGED xdpMap
  /\ UNCHANGED <<now, closing, stops, chainVars, handler, tasks, received,
                 pastVars, failedAdds, failedDels>>

Tick ==
  /\ now' = SaturatedTime(now + 1)
  /\ UNCHANGED <<processVars, xdpVars, chainVars, handler, tasks, received,
                 pastVars, failVars>>

-----------------------------------------------------------------------------
Handle == BlockXdp \/ RateLimitAccept \/ HandlerDrop
Undo(t) == UnblockXdp(t) \/ UnlimitAccept(t) \/ TaskDrop(t)
Shutdown == CtrlC \/ Detach \/ Unpin \/ Exit

RespNext ==
  \/ \E cmd \in Commands : Receive(cmd)
  \/ Handle \/ \E t \in tasks : Undo(t)
  \/ Tick \/ Crash \/ Shutdown \/ Restart

RespSpec == RespInit /\ [][RespNext]_respVars

(* Time passes and tokio runs every task.  Nothing makes a command arrive, *)
(* and a dead agent need not be restarted.                                 *)
RespFairness ==
  /\ WF_respVars(Tick) /\ WF_respVars(Handle)
  /\ \A n \in 1 .. MaxCommands :
       WF_respVars(\E t \in tasks : t.n = n /\ Undo(t))

FairRespSpec == RespSpec /\ RespFairness

-----------------------------------------------------------------------------
(* Properties *)

TaskType ==
  [n : Nat, cmd : Commands, due : Nat, step : {"xdp", "accept", "drop"}]

(* Every variable has its type; positions in the chain are distinct, a     *)
(* dead process has neither handler nor tasks, and a pinned map is used.   *)
RespTypeOK ==
  /\ now \in Nat /\ alive \in BOOLEAN /\ stops \in Nat
  /\ closing \in {"no", "detach", "unpin", "exit"}
  /\ xdpActive \in BOOLEAN /\ pinned \in BOOLEAN /\ (pinned => xdpActive)
  /\ xdpMap \subseteq V4 /\ leaked \subseteq xdpMap
  /\ chain \subseteq [pos : 1 .. appended, rule : Rules] /\ appended \in Nat
  /\ \A x, y \in chain : x.pos = y.pos => x = y
  /\ handler \subseteq [cmd : Commands, step : {"xdp", "accept", "drop"}]
  /\ \A h, g \in handler : h = g
  /\ tasks \subseteq TaskType
  /\ \A t, u \in tasks : t.n = u.n => t = u
  /\ received \in Nat /\ failures \in Nat
  /\ blocked \subseteq IPs /\ torn \subseteq IPs
  /\ permanent \in [Rules -> Nat] /\ orphaned \in [Rules -> Nat]
  /\ failedAdds \in [Rules -> Nat] /\ failedDels \in [Rules -> Nat]
  /\ ~alive => handler = {} /\ tasks = {} /\ closing = "no"

(* Equal rules are never confused in number: whatever the order in which   *)
(* blocks and rate limits of one address come and expire, the chain has as *)
(* many copies of a rule as there are holders of it, up to the commands    *)
(* that failed (responder.rs:40-58, 92-112).                               *)
Owed(r) == Holders(r) + permanent[r] + orphaned[r]
RulesAccounted ==
  \A r \in Rules :
    /\ Cardinality(At(r)) >= Owed(r) - failedAdds[r]
    /\ Cardinality(At(r)) <= Owed(r) + failedDels[r]

(* A rate limit never turns into an allowance: every ACCEPT in the chain   *)
(* has a DROP of its address behind it, for the packets above the limit,   *)
(* whatever other blocks and rate limits of the address come and expire,   *)
(* though each takes out the first equal DROP and not its own              *)
(* (responder.rs:53-55, 92-109).  The exceptions are a DROP that could not *)
(* be appended, this ACCEPT when one could not be deleted, a process that  *)
(* died between the two, and the handler between the two.                  *)
LimitsEnforced ==
  \A x \in chain :
    LET ip == x.rule.ip
    IN x.rule.target = "ACCEPT" /\ failedAdds[Drop(ip)] = 0
         /\ failedDels[x.rule] = 0 /\ ip \notin torn
       => \/ \E y \in At(Drop(ip)) : y.pos > x.pos
          \/ \E h \in handler : HalfLimited(h) /\ h.cmd.ip = ip

(* A key of the running agent's XDP map has a block behind it that is      *)
(* permanent, being carried out, or about to delete the key, whatever else *)
(* fails; only a failed deletion or detach leaves one behind               *)
(* (responder.rs:28-29, 49-51; ebpf_loader.rs:20-22, 103-106).             *)
XdpKeysOwned ==
  alive =>
    \A ip \in xdpMap \ leaked :
      \/ \E h \in handler : h.cmd.action = "BLOCK" /\ h.cmd.ip = ip
      \/ \E t \in tasks : t.step = "xdp" /\ t.cmd.ip = ip
      \/ ip \in blocked

(* Every task comes to its end unless the agent dies first.                *)
TasksEnd ==
  \A n \in 1 .. MaxCommands :
    (\E t \in tasks : t.n = n) ~> ~(\E t \in tasks : t.n = n)

(* "Block drops the flow entirely" (decision/engine.go:26): while a block  *)
(* is in force, every packet of its address is dropped, by XDP or by the   *)
(* first rule of the chain that is about the address.                      *)
Dropped(ip) ==
  \/ ip \in xdpMap
  \/ \E x \in At(Drop(ip)) : \A y \in chain : y.rule.ip = ip => x.pos <= y.pos
BlockEffective ==
  \A t \in tasks :
    t.step = "xdp" /\ ~Due(t) /\ t.cmd.ip \in V4 /\ failures = 0
      => Dropped(t.cmd.ip)

(* A temporary rule is deleted once its duration has elapsed               *)
(* (README.md:33-34): the running agent has a task, or the handler, for it.*)
TemporaryRulesHaveTasks ==
  \A r \in Rules :
    alive /\ failures = 0 => Cardinality(At(r)) <= Holders(r) + permanent[r]
=============================================================================
