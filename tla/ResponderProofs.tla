-------------------------- MODULE ResponderProofs --------------------------
(* Theorems about Responder, for any addresses, rates and durations, and   *)
(* every order in which commands come, expire, fail, and the agent dies.   *)
EXTENDS Responder, NaturalLemmas

USE DEF processVars, xdpVars, chainVars, pastVars, failVars

(* A block begins with the XDP map, a rate limit with its ACCEPT.          *)
FirstStep(x) ==
  /\ x.step = "xdp" => x.cmd.action = "BLOCK"
  /\ x.step = "accept" => x.cmd.action = "RATE_LIMIT"

(* What the types leave out: the sets are finite, and a task has the       *)
(* number of its command, which no later one has.                          *)
Numbered ==
  /\ IsFiniteSet(tasks) /\ IsFiniteSet(chain)
  /\ \A h \in handler : FirstStep(h)
  /\ \A t \in tasks : FirstStep(t) /\ t.n <= received
  /\ \A h \in handler : \A t \in tasks : t.n < received

(* A rate limit that is permanent or outlived its agent left its DROP too. *)
LimitsPaired ==
  \A ip \in IPs, p \in Rates :
    /\ permanent[Accept(ip, p)] > 0 => permanent[Drop(ip)] > 0
    /\ orphaned[Accept(ip, p)] > 0 => orphaned[Drop(ip)] > 0 \/ ip \in torn

(* The keys of a map that is out of reach were left there.                 *)
KeysWithoutPin == ~pinned => leaked = xdpMap

RespTyped == RespTypeOK /\ Numbered

-----------------------------------------------------------------------------
(* Equal rules have one that is first.                                     *)
LEMMA FirstIsOne ==
  ASSUME RespTypeOK, NEW r \in Rules, At(r) # {}
  PROVE  \E x \in At(r) : First(At(r)) = {x}
<1>. DEFINE Positions == {x.pos : x \in At(r)}
<1>1. /\ Positions \subseteq Nat /\ Positions # {}
      /\ \A x \in At(r) : x \in chain /\ x.pos \in Nat
  BY DEF At, RespTypeOK
<1>2. PICK p \in Positions : \A q \in Positions : p <= q
  <2>. HIDE DEF Positions
  <2>. QED
    BY <1>1, LeastNatural
<1>3. PICK x \in At(r) : x.pos = p
  OBVIOUS
<1>4. \A y \in At(r) : x.pos <= y.pos
  BY <1>2, <1>3
<1>5. \A y \in First(At(r)) : y = x
  <2>. SUFFICES ASSUME NEW y \in First(At(r)) PROVE y = x
    OBVIOUS
  <2>1. y \in At(r) /\ y.pos <= x.pos /\ x.pos <= y.pos
    BY <1>4 DEF First
  <2>2. x.pos = y.pos
    BY <1>1, <2>1
  <2>. QED
    BY <1>1, <2>1, <2>2 DEF RespTypeOK
<1>. QED
  BY <1>4, <1>5 DEF First

(* The constants.                                                          *)
LEMMA RespConstants ==
  /\ V4 \subseteq IPs /\ Rates \subseteq Nat /\ Durations \subseteq Nat
  /\ MaxTime \in Nat /\ MaxCommands \in Nat /\ MaxFailures \in Nat /\ MaxStops \in Nat
BY ResponderAssumption DEF ResponderAssumption

(* The rules of an address differ from each other.                         *)
LEMMA RuleTypes ==
  /\ \A ip \in IPs : Drop(ip) \in Rules /\ Drop(ip).ip = ip
  /\ \A ip \in IPs, p \in Rates :
       Accept(ip, p) \in Rules /\ Accept(ip, p) # Drop(ip) /\ Accept(ip, p).ip = ip
<1>1. ASSUME NEW ip \in IPs PROVE Drop(ip) \in Rules /\ Drop(ip).ip = ip
  BY DEF Rules, Drop
<1>2. ASSUME NEW ip \in IPs, NEW p \in Rates
      PROVE  Accept(ip, p) \in Rules /\ Accept(ip, p).ip = ip
  BY DEF Rules, Accept
<1>3. ASSUME NEW ip \in IPs, NEW p \in Rates PROVE Accept(ip, p) # Drop(ip)
  <2>1. Accept(ip, p).target = "ACCEPT" /\ Drop(ip).target = "DROP"
    BY DEF Accept, Drop
  <2>. QED
    BY <2>1
<1>. QED
  BY <1>1, <1>2, <1>3

LEMMA CommandType ==
  ASSUME NEW cmd \in Commands
  PROVE  /\ cmd.ip \in IPs /\ cmd.duration \in Durations /\ cmd.duration \in Nat
         /\ cmd.action \in {"BLOCK", "RATE_LIMIT"}
         /\ cmd.action = "RATE_LIMIT" => cmd.pps \in Rates
         /\ Drop(cmd.ip) \in Rules
         /\ cmd.action = "RATE_LIMIT" =>
              /\ Accept(cmd.ip, cmd.pps) \in Rules
              /\ Accept(cmd.ip, cmd.pps) # Drop(cmd.ip)
BY RespConstants, RuleTypes DEF Commands

-----------------------------------------------------------------------------
(* Types *)

LEMMA TypedReceive ==
  ASSUME RespTyped, NEW cmd \in Commands, Receive(cmd)
  PROVE  RespTyped'
<1>. DEFINE h == [cmd |-> cmd, step |-> IF cmd.action = "BLOCK" THEN "xdp" ELSE "accept"]
<1>1. /\ h \in [cmd : Commands, step : {"xdp", "accept", "drop"}] /\ FirstStep(h)
      /\ handler' = {h} /\ received' = received + 1 /\ received \in Nat /\ alive
  BY CommandType DEF Receive, FirstStep, RespTyped, RespTypeOK
<1>2. UNCHANGED <<now, processVars, xdpVars, chainVars, tasks, pastVars, failVars>>
  BY DEF Receive
<1>. HIDE DEF h
<1>3. RespTypeOK'
  BY <1>1, <1>2 DEF RespTyped, RespTypeOK
<1>4. \A t \in tasks : t.n \in Nat /\ t.n <= received
  BY DEF RespTyped, RespTypeOK, Numbered, TaskType
<1>5. \A t \in tasks : t.n <= received + 1 /\ t.n < received + 1
  BY <1>1, <1>4
<1>6. Numbered'
  BY <1>1, <1>2, <1>5 DEF RespTyped, Numbered
<1>. QED
  BY <1>3, <1>6 DEF RespTyped

(* The handler goes on to its DROP.                                        *)
LEMMA GotoType ==
  ASSUME RespTypeOK, NEW h \in handler, Goto(h, "drop")
  PROVE  /\ handler' = {[h EXCEPT !.step = "drop"]} /\ handler = {h}
         /\ [h EXCEPT !.step = "drop"] \in [cmd : Commands, step : {"xdp", "accept", "drop"}]
         /\ [h EXCEPT !.step = "drop"].cmd = h.cmd
         /\ [h EXCEPT !.step = "drop"].step = "drop"
         /\ h \in [cmd : Commands, step : {"xdp", "accept", "drop"}] /\ h.cmd \in Commands
         /\ alive
BY DEF Goto, RespTypeOK

LEMMA XdpType ==
  ASSUME RespTypeOK, NEW ip \in IPs, XdpInsert(ip) \/ XdpDelete(ip)
  PROVE  xdpMap' \subseteq V4 /\ leaked' \subseteq xdpMap' /\ failures' \in Nat
BY DEF XdpInsert, XdpDelete, Reaches, RespTypeOK

(* iptables -A and -D on a chain with distinct positions.                  *)
LEMMA AppendType ==
  ASSUME RespTyped, NEW q \in Rules, Append(q)
  PROVE  /\ chain' \subseteq [pos : 1 .. appended', rule : Rules] /\ appended' \in Nat
         /\ \A x, y \in chain' : x.pos = y.pos => x = y
         /\ IsFiniteSet(chain')
         /\ failures' \in Nat /\ failedAdds' \in [Rules -> Nat]
<1>. DEFINE e == [pos |-> appended + 1, rule |-> q]
<1>1. /\ chain \subseteq [pos : 1 .. appended, rule : Rules] /\ appended \in Nat
      /\ \A x, y \in chain : x.pos = y.pos => x = y
      /\ failures \in Nat /\ failedAdds \in [Rules -> Nat] /\ IsFiniteSet(chain)
  BY DEF RespTyped, RespTypeOK, Numbered
<1>2. CASE UNCHANGED <<chain, appended>>
  BY <1>1, <1>2 DEF Append
<1>3. CASE chain' = chain \cup {e} /\ appended' = appended + 1
           /\ UNCHANGED <<failedAdds, failures>>
  <2>1. /\ \A x \in chain : x \in [pos : 1 .. appended + 1, rule : Rules]
        /\ e \in [pos : 1 .. appended + 1, rule : Rules]
        /\ \A x \in chain : x.pos # e.pos
    BY <1>1
  <2>2. IsFiniteSet(chain \cup {e})
    BY <1>1, FS_AddElement
  <2>. HIDE DEF e
  <2>. QED
    BY <1>1, <1>3, <2>1, <2>2
<1>. QED
  BY <1>2, <1>3 DEF Append

LEMMA DeleteType ==
  ASSUME RespTyped, NEW q \in Rules, Delete(q)
  PROVE  /\ chain' \subseteq chain /\ IsFiniteSet(chain')
         /\ failures' \in Nat /\ failedDels' \in [Rules -> Nat]
<1>1. chain' \subseteq chain /\ IsFiniteSet(chain)
  BY DEF Delete, RespTyped, Numbered
<1>2. IsFiniteSet(chain')
  BY <1>1, FS_Subset
<1>. QED
  BY <1>1, <1>2 DEF Delete, RespTyped, RespTypeOK

LEMMA TypedBlockXdp ==
  ASSUME RespTyped, BlockXdp
  PROVE  RespTyped'
<1>1. PICK h \in handler :
        /\ h.step = "xdp" /\ XdpInsert(h.cmd.ip) /\ Goto(h, "drop")
        /\ UNCHANGED <<now, processVars, xdpActive, pinned, chainVars, tasks,
                       received, pastVars, failedAdds, failedDels>>
  BY DEF BlockXdp
<1>2. /\ handler' = {[h EXCEPT !.step = "drop"]} /\ handler = {h}
      /\ [h EXCEPT !.step = "drop"] \in [cmd : Commands, step : {"xdp", "accept", "drop"}]
      /\ [h EXCEPT !.step = "drop"].step = "drop" /\ h.cmd \in Commands /\ alive
  BY <1>1, GotoType DEF RespTyped
<1>3. xdpMap' \subseteq V4 /\ leaked' \subseteq xdpMap' /\ failures' \in Nat
  BY <1>1, <1>2, XdpType, CommandType DEF RespTyped
<1>4. RespTypeOK'
  BY <1>1, <1>2, <1>3 DEF RespTyped, RespTypeOK
<1>5. Numbered'
  BY <1>1, <1>2 DEF RespTyped, Numbered, FirstStep
<1>. QED
  BY <1>4, <1>5 DEF RespTyped

LEMMA TypedRateLimitAccept ==
  ASSUME RespTyped, RateLimitAccept
  PROVE  RespTyped'
<1>1. PICK h \in handler :
        /\ h.step = "accept" /\ Append(Accept(h.cmd.ip, h.cmd.pps)) /\ Goto(h, "drop")
        /\ UNCHANGED <<now, processVars, xdpVars, tasks, received, pastVars,
                       failedDels>>
  BY DEF RateLimitAccept
<1>2. /\ handler' = {[h EXCEPT !.step = "drop"]} /\ handler = {h}
      /\ [h EXCEPT !.step = "drop"] \in [cmd : Commands, step : {"xdp", "accept", "drop"}]
      /\ [h EXCEPT !.step = "drop"].step = "drop" /\ h.cmd \in Commands /\ alive
  BY <1>1, GotoType DEF RespTyped
<1>3. Accept(h.cmd.ip, h.cmd.pps) \in Rules
  BY <1>1, <1>2, CommandType DEF RespTyped, Numbered, FirstStep
<1>4. /\ chain' \subseteq [pos : 1 .. appended', rule : Rules] /\ appended' \in Nat
      /\ \A x, y \in chain' : x.pos = y.pos => x = y
      /\ IsFiniteSet(chain') /\ failures' \in Nat /\ failedAdds' \in [Rules -> Nat]
  BY <1>1, <1>3, AppendType
<1>5. RespTypeOK'
  BY <1>1, <1>2, <1>4 DEF RespTyped, RespTypeOK
<1>6. Numbered'
  BY <1>1, <1>2, <1>4 DEF RespTyped, Numbered, FirstStep
<1>. QED
  BY <1>5, <1>6 DEF RespTyped

(* The record that HandlerDrop leaves to the task.                         *)
TaskOf(cmd) ==
  [n |-> received, cmd |-> cmd, due |-> SaturatedTime(now + cmd.duration),
   step |-> IF cmd.action = "BLOCK" THEN "xdp" ELSE "accept"]

LEMMA TaskOfType ==
  ASSUME RespTypeOK, NEW cmd \in Commands
  PROVE  /\ TaskOf(cmd) \in TaskType /\ FirstStep(TaskOf(cmd))
         /\ TaskOf(cmd).n = received /\ TaskOf(cmd).cmd = cmd
         /\ TaskOf(cmd).step # "drop"
         /\ cmd.action = "BLOCK" => TaskOf(cmd).step = "xdp"
<1>1. SaturatedTime(now + cmd.duration) \in Nat
  BY RespConstants, CommandType DEF SaturatedTime, RespTypeOK
<1>2. TaskOf(cmd) \in TaskType
  BY <1>1 DEF TaskOf, TaskType, RespTypeOK
<1>. QED
  BY <1>2, CommandType DEF TaskOf, FirstStep

(* HandlerDrop, in the names of the lemmas.                                *)
LEMMA HandlerDropSteps ==
  ASSUME RespTyped, HandlerDrop
  PROVE  \E h \in handler :
           /\ h.step = "drop" /\ h.cmd \in Commands /\ handler = {h} /\ alive
           /\ Append(Drop(h.cmd.ip)) /\ handler' = {}
           /\ tasks' = IF h.cmd.duration > 0 THEN tasks \cup {TaskOf(h.cmd)} ELSE tasks
           /\ permanent' = [r \in Rules |->
                              IF h.cmd.duration = 0 /\ r \in Holds(h.cmd)
                              THEN permanent[r] + 1 ELSE permanent[r]]
           /\ blocked' = IF h.cmd.duration = 0 /\ h.cmd.action = "BLOCK"
                         THEN blocked \cup {h.cmd.ip} ELSE blocked
           /\ UNCHANGED <<now, processVars, xdpVars, received, orphaned, torn, failedDels>>
<1>1. PICK h \in handler :
        /\ h.step = "drop" /\ Append(Drop(h.cmd.ip)) /\ handler' = {}
        /\ tasks' = IF h.cmd.duration > 0 THEN tasks \cup {TaskOf(h.cmd)} ELSE tasks
        /\ permanent' = [r \in Rules |->
                           IF h.cmd.duration = 0 /\ r \in Holds(h.cmd)
                           THEN permanent[r] + 1 ELSE permanent[r]]
        /\ blocked' = IF h.cmd.duration = 0 /\ h.cmd.action = "BLOCK"
                      THEN blocked \cup {h.cmd.ip} ELSE blocked
        /\ UNCHANGED <<now, processVars, xdpVars, received, orphaned, torn, failedDels>>
  BY Zenon DEF HandlerDrop, TaskOf
<1>2. h.cmd \in Commands /\ handler = {h} /\ alive
  BY DEF RespTyped, RespTypeOK
<1>. QED
  BY <1>1, <1>2, Zenon

LEMMA TypedHandlerDrop ==
  ASSUME RespTyped, HandlerDrop
  PROVE  RespTyped'
<1>1. PICK h \in handler :
        /\ h.step = "drop" /\ h.cmd \in Commands /\ handler = {h} /\ alive
        /\ Append(Drop(h.cmd.ip)) /\ handler' = {}
        /\ tasks' = IF h.cmd.duration > 0 THEN tasks \cup {TaskOf(h.cmd)} ELSE tasks
        /\ permanent' = [r \in Rules |->
                           IF h.cmd.duration = 0 /\ r \in Holds(h.cmd)
                           THEN permanent[r] + 1 ELSE permanent[r]]
        /\ blocked' = IF h.cmd.duration = 0 /\ h.cmd.action = "BLOCK"
                      THEN blocked \cup {h.cmd.ip} ELSE blocked
        /\ UNCHANGED <<now, processVars, xdpVars, received, orphaned, torn, failedDels>>
  BY HandlerDropSteps
<1>2. Drop(h.cmd.ip) \in Rules
  BY <1>1, CommandType
<1>3. /\ chain' \subseteq [pos : 1 .. appended', rule : Rules] /\ appended' \in Nat
      /\ \A x, y \in chain' : x.pos = y.pos => x = y
      /\ IsFiniteSet(chain') /\ failures' \in Nat /\ failedAdds' \in [Rules -> Nat]
  BY <1>1, <1>2, AppendType
<1>4. /\ TaskOf(h.cmd) \in TaskType /\ FirstStep(TaskOf(h.cmd))
      /\ TaskOf(h.cmd).n = received
  BY <1>1, TaskOfType DEF RespTyped
<1>5. permanent' \in [Rules -> Nat] /\ blocked' \subseteq IPs
  BY <1>1, CommandType DEF RespTyped, RespTypeOK
<1>6. /\ \A t \in tasks : t.n \in Nat /\ t.n < received /\ FirstStep(t)
      /\ tasks \subseteq TaskType /\ \A t, u \in tasks : t.n = u.n => t = u
      /\ IsFiniteSet(tasks) /\ received \in Nat
  BY <1>1 DEF RespTyped, RespTypeOK, Numbered, TaskType
<1>7. /\ tasks' \subseteq TaskType /\ \A t \in tasks' : FirstStep(t)
      /\ tasks' \subseteq tasks \cup {TaskOf(h.cmd)}
  BY <1>1, <1>4, <1>6
<1>8. \A t \in tasks' : t.n <= received
  BY <1>4, <1>6, <1>7
<1>9. \A t, u \in tasks' : t.n = u.n => t = u
  BY <1>4, <1>6, <1>7
<1>10. IsFiniteSet(tasks')
  BY <1>1, <1>6, FS_AddElement
<1>11. RespTypeOK'
  BY <1>1, <1>3, <1>5, <1>7, <1>9 DEF RespTyped, RespTypeOK
<1>12. Numbered'
  BY <1>1, <1>3, <1>7, <1>8, <1>10 DEF Numbered
<1>. QED
  BY <1>11, <1>12 DEF RespTyped

(* A task goes on to its DROP.                                             *)
LEMMA StepType ==
  ASSUME RespTyped, NEW t \in tasks, Step(t, "drop")
  PROVE  /\ tasks' \subseteq TaskType /\ IsFiniteSet(tasks')
         /\ \A u, v \in tasks' : u.n = v.n => u = v
         /\ \A u \in tasks' : FirstStep(u) /\ u.n <= received
         /\ \A h \in handler : \A u \in tasks' : u.n < received
         /\ [t EXCEPT !.step = "drop"] \in TaskType
         /\ [t EXCEPT !.step = "drop"] \notin tasks \ {t}
         /\ t.cmd \in Commands /\ alive
<1>. DEFINE s == [t EXCEPT !.step = "drop"]
<1>1. s \in TaskType /\ s.n = t.n /\ s.step = "drop" /\ FirstStep(s) /\ t.cmd \in Commands
  BY DEF RespTyped, RespTypeOK, TaskType, FirstStep
<1>2. /\ tasks' = (tasks \ {t}) \cup {s}
      /\ tasks \subseteq TaskType /\ IsFiniteSet(tasks)
      /\ \A u, v \in tasks : u.n = v.n => u = v
      /\ \A u \in tasks : FirstStep(u) /\ u.n <= received
      /\ \A h \in handler : \A u \in tasks : u.n < received
      /\ alive
  BY DEF Step, RespTyped, RespTypeOK, Numbered
<1>. HIDE DEF s
<1>3. IsFiniteSet(tasks')
  BY <1>2, FS_RemoveElement, FS_AddElement
<1>4. /\ tasks' \subseteq TaskType
      /\ \A u, v \in tasks' : u.n = v.n => u = v
      /\ \A u \in tasks' : FirstStep(u) /\ u.n <= received
      /\ \A h \in handler : \A u \in tasks' : u.n < received
      /\ s \notin tasks \ {t}
  BY <1>1, <1>2
<1>. QED
  BY <1>1, <1>2, <1>3, <1>4 DEF s

LEMMA TypedUnblockXdp ==
  ASSUME RespTyped, NEW t \in tasks, UnblockXdp(t)
  PROVE  RespTyped'
<1>1. /\ tasks' \subseteq TaskType /\ IsFiniteSet(tasks') /\ t.cmd \in Commands
      /\ \A u, v \in tasks' : u.n = v.n => u = v
      /\ \A u \in tasks' : FirstStep(u) /\ u.n <= received
      /\ \A h \in handler : \A u \in tasks' : u.n < received
      /\ alive
  BY StepType DEF UnblockXdp
<1>2. xdpMap' \subseteq V4 /\ leaked' \subseteq xdpMap' /\ failures' \in Nat
  BY <1>1, XdpType, CommandType DEF UnblockXdp, RespTyped
<1>3. RespTypeOK'
  BY <1>1, <1>2 DEF UnblockXdp, RespTyped, RespTypeOK
<1>4. Numbered'
  BY <1>1 DEF UnblockXdp, RespTyped, Numbered
<1>. QED
  BY <1>3, <1>4 DEF RespTyped

LEMMA TypedUnlimitAccept ==
  ASSUME RespTyped, NEW t \in tasks, UnlimitAccept(t)
  PROVE  RespTyped'
<1>1. /\ tasks' \subseteq TaskType /\ IsFiniteSet(tasks') /\ t.cmd \in Commands
      /\ \A u, v \in tasks' : u.n = v.n => u = v
      /\ \A u \in tasks' : FirstStep(u) /\ u.n <= received
      /\ \A h \in handler : \A u \in tasks' : u.n < received
      /\ alive
  BY StepType DEF UnlimitAccept
<1>2. Accept(t.cmd.ip, t.cmd.pps) \in Rules
  BY <1>1, CommandType DEF UnlimitAccept, RespTyped, Numbered, FirstStep
<1>3. /\ chain' \subseteq chain /\ IsFiniteSet(chain')
      /\ failures' \in Nat /\ failedDels' \in [Rules -> Nat]
  BY <1>2, DeleteType DEF UnlimitAccept
<1>4. RespTypeOK'
  BY <1>1, <1>3 DEF UnlimitAccept, RespTyped, RespTypeOK
<1>5. Numbered'
  BY <1>1, <1>3 DEF UnlimitAccept, RespTyped, Numbered
<1>. QED
  BY <1>4, <1>5 DEF RespTyped

LEMMA TypedTaskDrop ==
  ASSUME RespTyped, NEW t \in tasks, TaskDrop(t)
  PROVE  RespTyped'
<1>1. t.cmd \in Commands /\ alive /\ Drop(t.cmd.ip) \in Rules
  BY CommandType DEF RespTyped, RespTypeOK, TaskType
<1>2. /\ chain' \subseteq chain /\ IsFiniteSet(chain')
      /\ failures' \in Nat /\ failedDels' \in [Rules -> Nat]
  BY <1>1, DeleteType DEF TaskDrop
<1>3. IsFiniteSet(tasks')
  BY FS_RemoveElement DEF TaskDrop, RespTyped, Numbered
<1>4. RespTypeOK'
  BY <1>1, <1>2 DEF TaskDrop, RespTyped, RespTypeOK
<1>5. Numbered'
  BY <1>2, <1>3 DEF TaskDrop, RespTyped, Numbered
<1>. QED
  BY <1>4, <1>5 DEF RespTyped

-----------------------------------------------------------------------------
(* Who holds a rule *)

(* There is one handler at most, and its sets are finite.                  *)
LEMMA HoldersFinite ==
  ASSUME RespTyped, NEW r
  PROVE  /\ IsFiniteSet(HandlersOf(r)) /\ IsFiniteSet(TasksOf(r)) /\ IsFiniteSet(At(r))
         /\ Cardinality(HandlersOf(r)) \in Nat /\ Cardinality(TasksOf(r)) \in Nat
         /\ Cardinality(At(r)) \in Nat /\ Holders(r) \in Nat
<1>1. IsFiniteSet(handler)
  <2>1. CASE handler = {}
    BY <2>1, FS_EmptySet
  <2>2. CASE handler # {}
    <3>1. PICK h \in handler : TRUE
      BY <2>2
    <3>2. handler = {h}
      BY <3>1 DEF RespTyped, RespTypeOK
    <3>. QED
      BY <3>2, FS_Singleton
  <2>. QED
    BY <2>1, <2>2
<1>2. IsFiniteSet(tasks) /\ IsFiniteSet(chain)
  BY DEF RespTyped, Numbered
<1>3. HandlersOf(r) \subseteq handler /\ TasksOf(r) \subseteq tasks /\ At(r) \subseteq chain
  BY DEF HandlersOf, TasksOf, At
<1>4. IsFiniteSet(HandlersOf(r)) /\ IsFiniteSet(TasksOf(r)) /\ IsFiniteSet(At(r))
  BY <1>1, <1>2, <1>3, FS_Subset
<1>5. /\ Cardinality(HandlersOf(r)) \in Nat /\ Cardinality(TasksOf(r)) \in Nat
      /\ Cardinality(At(r)) \in Nat
  BY <1>4, FS_CardinalityType
<1>. QED
  BY <1>4, <1>5 DEF Holders

(* The counters of a rule.                                                 *)
LEMMA CounterTypes ==
  ASSUME RespTyped, NEW r \in Rules
  PROVE  /\ permanent[r] \in Nat /\ orphaned[r] \in Nat
         /\ failedAdds[r] \in Nat /\ failedDels[r] \in Nat /\ Owed(r) \in Nat
<1>1. /\ permanent[r] \in Nat /\ orphaned[r] \in Nat
      /\ failedAdds[r] \in Nat /\ failedDels[r] \in Nat
  BY DEF RespTyped, RespTypeOK
<1>. QED
  BY <1>1, HoldersFinite DEF Owed

LEMMA TypedGone ==
  ASSUME RespTyped, Gone
  PROVE  RespTyped'
<1>1. /\ alive' = FALSE /\ closing' = "no" /\ stops' = stops + 1
      /\ handler' = {} /\ tasks' = {} /\ blocked' = {}
      /\ orphaned' = [r \in Rules |-> orphaned[r] + Holders(r)]
      /\ torn' = torn \cup {h.cmd.ip : h \in {g \in handler : HalfLimited(g)}}
      /\ UNCHANGED <<now, xdpVars, chainVars, received, permanent, failVars>>
  BY DEF Gone
<1>2. orphaned' \in [Rules -> Nat]
  <2>1. \A r \in Rules : orphaned[r] + Holders(r) \in Nat
    BY HoldersFinite, CounterTypes
  <2>. QED
    BY <1>1, <2>1
<1>3. torn' \subseteq IPs
  <2>1. \A h \in handler : h.cmd.ip \in IPs
    BY CommandType DEF RespTyped, RespTypeOK
  <2>. QED
    BY <1>1, <2>1 DEF RespTyped, RespTypeOK
<1>4. RespTypeOK'
  <2>1. stops' \in Nat
    BY <1>1 DEF RespTyped, RespTypeOK
  <2>2. alive' \in BOOLEAN
    BY <1>1, Zenon
  <2>3. /\ chain' \subseteq [pos : 1 .. appended', rule : Rules] /\ appended' \in Nat
        /\ \A x, y \in chain' : x.pos = y.pos => x = y
    BY <1>1 DEF RespTyped, RespTypeOK
  <2>4. /\ now' \in Nat /\ received' \in Nat /\ failures' \in Nat
        /\ permanent' \in [Rules -> Nat]
        /\ failedAdds' \in [Rules -> Nat] /\ failedDels' \in [Rules -> Nat]
        /\ xdpMap' \subseteq V4 /\ leaked' \subseteq xdpMap'
    BY <1>1 DEF RespTyped, RespTypeOK
  <2>5. xdpActive' \in BOOLEAN /\ pinned' \in BOOLEAN /\ (pinned' => xdpActive')
    BY <1>1 DEF RespTyped, RespTypeOK
  <2>. QED
    BY <1>1, <1>2, <1>3, <2>1, <2>2, <2>3, <2>4, <2>5 DEF RespTypeOK
<1>5. IsFiniteSet(tasks')
  BY <1>1, FS_EmptySet
<1>6. Numbered'
  BY <1>1, <1>5 DEF RespTyped, Numbered
<1>. QED
  BY <1>4, <1>6 DEF RespTyped

(* The steps of the shutdown leave the handler and the tasks to go on.     *)
LEMMA TypedShutdown ==
  ASSUME RespTyped, CtrlC \/ Detach \/ Unpin
  PROVE  RespTyped'
<1>1. /\ UNCHANGED <<now, alive, stops, chainVars, handler, tasks, received,
                     pastVars, failedAdds, failedDels>>
      /\ closing' \in {"no", "detach", "unpin", "exit"} /\ alive
  BY DEF CtrlC, Detach, Unpin, RespTyped, RespTypeOK
<1>2. /\ xdpMap' \subseteq V4 /\ leaked' \subseteq xdpMap' /\ failures' \in Nat
  BY DEF CtrlC, Detach, Unpin, RespTyped, RespTypeOK
<1>3. xdpActive' \in BOOLEAN /\ pinned' \in BOOLEAN /\ (pinned' => xdpActive')
  <2>1. xdpActive \in BOOLEAN /\ pinned \in BOOLEAN /\ (pinned => xdpActive)
    BY DEF RespTyped, RespTypeOK
  <2>2. \/ pinned' = pinned /\ xdpActive' = xdpActive
        \/ pinned' = FALSE /\ xdpActive' = xdpActive
        \/ pinned' = FALSE /\ xdpActive' = FALSE
    BY Zenon DEF CtrlC, Detach, Unpin
  <2>3. CASE pinned' = pinned /\ xdpActive' = xdpActive
    BY <2>1, <2>3, Zenon
  <2>4. CASE pinned' = FALSE /\ xdpActive' = xdpActive
    BY <2>1, <2>4, Zenon
  <2>5. CASE pinned' = FALSE /\ xdpActive' = FALSE
    BY <2>5, Zenon
  <2>. QED
    BY <2>2, <2>3, <2>4, <2>5, Zenon
<1>4. RespTypeOK'
  BY <1>1, <1>2, <1>3 DEF RespTyped, RespTypeOK
<1>5. Numbered'
  BY <1>1 DEF RespTyped, Numbered
<1>. QED
  BY <1>4, <1>5 DEF RespTyped

LEMMA TypedRestart ==
  ASSUME RespTyped, Restart
  PROVE  RespTyped'
<1>1. handler = {} /\ tasks = {} /\ closing = "no"
  BY DEF Restart, RespTyped, RespTypeOK
<1>2. /\ xdpActive' \in BOOLEAN /\ pinned' \in BOOLEAN /\ (pinned' => xdpActive')
      /\ alive' \in BOOLEAN /\ alive'
  <2>1. CASE xdpActive' \in BOOLEAN /\ pinned' = xdpActive' /\ alive' = TRUE
    BY <2>1, Zenon
  <2>2. CASE xdpActive' = FALSE /\ pinned' = FALSE /\ alive' = TRUE
    BY <2>2, Zenon
  <2>. QED
    BY <2>1, <2>2, Zenon DEF Restart
<1>3. /\ xdpMap' \subseteq V4 /\ leaked' \subseteq xdpMap' /\ failures' \in Nat
      /\ UNCHANGED <<now, closing, stops, chainVars, handler, tasks, received,
                     pastVars, failedAdds, failedDels>>
  BY DEF Restart, RespTyped, RespTypeOK
<1>4. RespTypeOK'
  BY <1>1, <1>2, <1>3 DEF RespTyped, RespTypeOK
<1>5. Numbered'
  BY <1>3 DEF RespTyped, Numbered
<1>. QED
  BY <1>4, <1>5 DEF RespTyped

LEMMA TypedTick ==
  ASSUME RespTyped, Tick
  PROVE  RespTyped'
<1>1. now' \in Nat
  BY RespConstants DEF Tick, SaturatedTime, RespTyped, RespTypeOK
<1>2. RespTypeOK'
  BY <1>1 DEF Tick, RespTyped, RespTypeOK
<1>3. Numbered'
  BY DEF Tick, RespTyped, Numbered
<1>. QED
  BY <1>2, <1>3 DEF RespTyped

LEMMA TypedStutter ==
  ASSUME RespTyped, UNCHANGED respVars
  PROVE  RespTyped'
BY DEF respVars, RespTyped, RespTypeOK, Numbered

LEMMA TypedInit ==
  ASSUME RespInit
  PROVE  RespTyped
<1>1. RespTypeOK
  BY DEF RespInit, RespTypeOK
<1>2. IsFiniteSet({})
  BY FS_EmptySet
<1>3. Numbered
  BY <1>2 DEF RespInit, Numbered
<1>. QED
  BY <1>1, <1>3 DEF RespTyped

LEMMA TypedNext ==
  ASSUME RespTyped, [RespNext]_respVars
  PROVE  RespTyped'
BY TypedReceive, TypedBlockXdp, TypedRateLimitAccept, TypedHandlerDrop, TypedUnblockXdp,
   TypedUnlimitAccept, TypedTaskDrop, TypedGone, TypedShutdown, TypedRestart, TypedTick,
   TypedStutter DEF RespNext, Handle, Undo, Shutdown, Crash, Exit

(* Every variable keeps its type, whatever the order of the steps: the     *)
(* positions of the chain are distinct, and so are the commands' tasks.    *)
THEOREM RespTypes == RespSpec => []RespTypeOK
<1>1. RespInit => RespTyped
  BY TypedInit
<1>2. RespTyped /\ [RespNext]_respVars => RespTyped'
  BY TypedNext
<1>3. RespTyped => RespTypeOK
  BY DEF RespTyped
<1>. QED
  BY <1>1, <1>2, <1>3, PTL DEF RespSpec

-----------------------------------------------------------------------------
(* How many copies of a rule there are *)

(* iptables -A adds one copy, or counts a failure.                         *)
LEMMA AppendEffect ==
  ASSUME RespTyped, NEW q \in Rules, Append(q), NEW r \in Rules
  PROVE  \/ /\ Cardinality(At(r))' = Cardinality(At(r)) + (IF r = q THEN 1 ELSE 0)
            /\ failedAdds'[r] = failedAdds[r]
         \/ /\ Cardinality(At(r))' = Cardinality(At(r))
            /\ failedAdds'[r] = failedAdds[r] + (IF r = q THEN 1 ELSE 0)
<1>. DEFINE e == [pos |-> appended + 1, rule |-> q]
<1>1. /\ IsFiniteSet(At(r)) /\ Cardinality(At(r)) \in Nat
      /\ failedAdds \in [Rules -> Nat] /\ failedAdds[r] \in Nat
  BY HoldersFinite DEF RespTyped, RespTypeOK
<1>2. CASE chain' = chain \cup {e} /\ failedAdds' = failedAdds
  <2>1. e \notin At(r) /\ e.rule = q
    BY DEF At, RespTyped, RespTypeOK
  <2>2. CASE r = q
    <3>1. At(r)' = At(r) \cup {e}
      BY <1>2, <2>1, <2>2 DEF At
    <3>2. Cardinality(At(r) \cup {e}) = Cardinality(At(r)) + 1
      BY <1>1, <2>1, FS_AddElement
    <3>. QED
      BY <1>2, <2>2, <3>1, <3>2
  <2>3. CASE r # q
    <3>1. At(r)' = At(r)
      BY <1>2, <2>1, <2>3 DEF At
    <3>. QED
      BY <1>1, <1>2, <2>3, <3>1
  <2>. QED
    BY <2>2, <2>3
<1>3. CASE chain' = chain /\ failedAdds' = [failedAdds EXCEPT ![q] = @ + 1]
  <2>1. At(r)' = At(r)
    BY <1>3 DEF At
  <2>2. failedAdds'[r] = failedAdds[r] + (IF r = q THEN 1 ELSE 0)
    BY <1>1, <1>3
  <2>. QED
    BY <2>1, <2>2
<1>. QED
  BY <1>2, <1>3 DEF Append

(* iptables -D takes one copy, if there is one, or counts a failure.       *)
LEMMA DeleteEffect ==
  ASSUME RespTyped, NEW q \in Rules, Delete(q), NEW r \in Rules
  PROVE  \/ /\ Cardinality(At(r))' = IF r = q /\ Cardinality(At(r)) > 0
                                     THEN Cardinality(At(r)) - 1 ELSE Cardinality(At(r))
            /\ failedDels'[r] = failedDels[r]
         \/ /\ Cardinality(At(r))' = Cardinality(At(r))
            /\ failedDels'[r] = failedDels[r] + (IF r = q THEN 1 ELSE 0)
<1>1. /\ IsFiniteSet(At(r)) /\ Cardinality(At(r)) \in Nat
      /\ failedDels \in [Rules -> Nat] /\ failedDels[r] \in Nat
  BY HoldersFinite DEF RespTyped, RespTypeOK
<1>2. CASE chain' = chain \ First(At(q)) /\ failedDels' = failedDels
  <2>1. CASE r # q
    <3>1. At(r)' = At(r)
      BY <1>2, <2>1 DEF At, First
    <3>. QED
      BY <1>2, <2>1, <3>1
  <2>2. CASE r = q /\ At(r) # {}
    <3>1. PICK x \in At(r) : First(At(r)) = {x}
      BY <2>2, FirstIsOne DEF RespTyped
    <3>2. At(r)' = At(r) \ {x}
      BY <1>2, <2>2, <3>1 DEF At
    <3>3. Cardinality(At(r) \ {x}) = Cardinality(At(r)) - 1
      BY <1>1, <3>1, FS_RemoveElement
    <3>4. Cardinality(At(r)) > 0
      BY <1>1, <2>2, FS_EmptySet
    <3>. QED
      BY <1>2, <2>2, <3>2, <3>3, <3>4
  <2>3. CASE r = q /\ At(r) = {}
    <3>1. At(r)' = At(r)
      BY <1>2, <2>3 DEF At, First
    <3>2. Cardinality(At(r)) = 0
      BY <2>3, FS_EmptySet
    <3>. QED
      BY <1>2, <2>3, <3>1, <3>2
  <2>. QED
    BY <2>1, <2>2, <2>3
<1>3. CASE chain' = chain /\ failedDels' = [failedDels EXCEPT ![q] = @ + 1]
  <2>1. At(r)' = At(r)
    BY <1>3 DEF At
  <2>2. failedDels'[r] = failedDels[r] + (IF r = q THEN 1 ELSE 0)
    BY <1>1, <1>3
  <2>. QED
    BY <2>1, <2>2
<1>. QED
  BY <1>2, <1>3 DEF Delete

(* A task that goes on from its first step gives up what that step undoes. *)
LEMMA StepEffect ==
  ASSUME RespTyped, NEW t \in tasks, Step(t, "drop"), t.step # "drop", NEW r
  PROVE  Cardinality(TasksOf(r))' =
           IF r \in Holds(t.cmd) /\ r # Drop(t.cmd.ip)
           THEN Cardinality(TasksOf(r)) - 1 ELSE Cardinality(TasksOf(r))
<1>. DEFINE s == [t EXCEPT !.step = "drop"]
            S == TasksOf(r)
<1>1. /\ tasks' = (tasks \ {t}) \cup {s} /\ s \notin tasks \ {t}
      /\ TaskHolds(t) = Holds(t.cmd) /\ TaskHolds(s) = {Drop(t.cmd.ip)}
      /\ Drop(t.cmd.ip) \in Holds(t.cmd)
  <2>1. s.step = "drop" /\ s.cmd = t.cmd
    BY DEF RespTyped, RespTypeOK, TaskType
  <2>2. tasks' = (tasks \ {t}) \cup {s} /\ s \notin tasks \ {t}
    BY StepType DEF Step
  <2>. QED
    BY <2>1, <2>2 DEF TaskHolds, Holds
<1>. HIDE DEF s
<1>2. IsFiniteSet(S) /\ Cardinality(S) \in Nat
  BY HoldersFinite
<1>3. CASE r \notin Holds(t.cmd)
  <2>1. TasksOf(r)' = S
    BY <1>1, <1>3 DEF TasksOf
  <2>. QED
    BY <1>3, <2>1
<1>4. CASE r \in Holds(t.cmd)
  <2>1. t \in S
    BY <1>1, <1>4 DEF TasksOf
  <2>2. IsFiniteSet(S \ {t}) /\ Cardinality(S \ {t}) = Cardinality(S) - 1
    BY <1>2, <2>1, FS_RemoveElement
  <2>3. CASE r = Drop(t.cmd.ip)
    <3>1. TasksOf(r)' = (S \ {t}) \cup {s} /\ s \notin S \ {t}
      BY <1>1, <2>3 DEF TasksOf
    <3>2. Cardinality((S \ {t}) \cup {s}) = Cardinality(S \ {t}) + 1
      BY <2>2, <3>1, FS_AddElement
    <3>. QED
      BY <1>2, <2>2, <2>3, <3>1, <3>2
  <2>4. CASE r # Drop(t.cmd.ip)
    <3>1. TasksOf(r)' = S \ {t}
      BY <1>1, <2>4 DEF TasksOf
    <3>. QED
      BY <1>4, <2>2, <2>4, <3>1
  <2>. QED
    BY <2>3, <2>4
<1>. QED
  BY <1>3, <1>4

-----------------------------------------------------------------------------
(* The accounts of a rule *)

(* A task that holds a rule is owed a copy of it.                          *)
LEMMA TaskOwed ==
  ASSUME RespTyped, NEW r \in Rules, NEW t \in TasksOf(r)
  PROVE  Owed(r) > 0
<1>1. /\ IsFiniteSet(TasksOf(r)) /\ Cardinality(TasksOf(r)) \in Nat
      /\ Cardinality(HandlersOf(r)) \in Nat /\ permanent[r] \in Nat /\ orphaned[r] \in Nat
  BY HoldersFinite, CounterTypes
<1>2. Cardinality(TasksOf(r)) # 0
  BY <1>1, FS_EmptySet
<1>. QED
  BY <1>1, <1>2 DEF Owed, Holders

(* One handler holds a rule or does not, before a step and after it.       *)
LEMMA HandlersCount ==
  ASSUME NEW r, NEW h
  PROVE  /\ handler = {} => Cardinality(HandlersOf(r)) = 0
         /\ handler' = {} => Cardinality(HandlersOf(r))' = 0
         /\ handler = {h} => Cardinality(HandlersOf(r)) = IF r \in HandlerHolds(h) THEN 1 ELSE 0
         /\ handler' = {h} => Cardinality(HandlersOf(r))' = IF r \in HandlerHolds(h) THEN 1 ELSE 0
<1>1. Cardinality({}) = 0 /\ Cardinality({h}) = 1
  BY FS_EmptySet, FS_Singleton
<1>2. handler = {} => HandlersOf(r) = {}
  BY DEF HandlersOf
<1>3. handler' = {} => HandlersOf(r)' = {}
  BY DEF HandlersOf
<1>4. handler = {h} => HandlersOf(r) = IF r \in HandlerHolds(h) THEN {h} ELSE {}
  BY DEF HandlersOf
<1>5. handler' = {h} => HandlersOf(r)' = IF r \in HandlerHolds(h) THEN {h} ELSE {}
  BY DEF HandlersOf
<1>. QED
  BY <1>1, <1>2, <1>3, <1>4, <1>5

(* The account of one rule after an action that adds to it ...             *)
LEMMA AddKeeps ==
  ASSUME RespTyped, RulesAccounted, NEW q \in Rules, Append(q), NEW r \in Rules,
         Owed(r)' = Owed(r) + (IF r = q THEN 1 ELSE 0), failedDels' = failedDels
  PROVE  /\ Cardinality(At(r))' >= Owed(r)' - failedAdds'[r]
         /\ Cardinality(At(r))' <= Owed(r)' + failedDels'[r]
<1>1. /\ Owed(r) \in Nat /\ failedAdds[r] \in Nat /\ failedDels[r] \in Nat
      /\ Cardinality(At(r)) \in Nat
  BY CounterTypes, HoldersFinite
<1>2. /\ Cardinality(At(r)) >= Owed(r) - failedAdds[r]
      /\ Cardinality(At(r)) <= Owed(r) + failedDels[r]
  BY DEF RulesAccounted
<1>3. PICK k \in {0, 1} : k = IF r = q THEN 1 ELSE 0
  OBVIOUS
<1>4. \/ Cardinality(At(r))' = Cardinality(At(r)) + k /\ failedAdds'[r] = failedAdds[r]
      \/ Cardinality(At(r))' = Cardinality(At(r)) /\ failedAdds'[r] = failedAdds[r] + k
  BY <1>3, AppendEffect
<1>5. Owed(r)' = Owed(r) + k /\ failedDels'[r] = failedDels[r]
  BY <1>3
<1>. HIDE DEF At, Owed
<1>6. /\ Cardinality(At(r)) + k >= (Owed(r) + k) - failedAdds[r]
      /\ Cardinality(At(r)) + k <= (Owed(r) + k) + failedDels[r]
      /\ Cardinality(At(r)) >= (Owed(r) + k) - (failedAdds[r] + k)
      /\ Cardinality(At(r)) <= (Owed(r) + k) + failedDels[r]
  BY <1>1, <1>2
<1>. QED
  BY <1>4, <1>5, <1>6

(* ... that takes one from it ...                                          *)
LEMMA DeleteKeeps ==
  ASSUME RespTyped, RulesAccounted, NEW q \in Rules, Delete(q), NEW r \in Rules,
         Owed(r)' = Owed(r) - (IF r = q THEN 1 ELSE 0), r = q => Owed(r) > 0,
         failedAdds' = failedAdds
  PROVE  /\ Cardinality(At(r))' >= Owed(r)' - failedAdds'[r]
         /\ Cardinality(At(r))' <= Owed(r)' + failedDels'[r]
<1>1. /\ Owed(r) \in Nat /\ failedAdds[r] \in Nat /\ failedDels[r] \in Nat
      /\ Cardinality(At(r)) \in Nat
  BY CounterTypes, HoldersFinite
<1>2. /\ Cardinality(At(r)) >= Owed(r) - failedAdds[r]
      /\ Cardinality(At(r)) <= Owed(r) + failedDels[r]
  BY DEF RulesAccounted
<1>3. PICK k \in {0, 1} : k = (IF r = q THEN 1 ELSE 0) /\ (k = 1 => Owed(r) > 0)
  OBVIOUS
<1>4. PICK j \in {0, 1} :
        /\ j = IF r = q /\ Cardinality(At(r)) > 0 THEN 1 ELSE 0
        /\ j <= k /\ (j < k => Cardinality(At(r)) = 0)
  BY <1>1, <1>3
<1>5. \/ Cardinality(At(r))' = Cardinality(At(r)) - j /\ failedDels'[r] = failedDels[r]
      \/ Cardinality(At(r))' = Cardinality(At(r)) /\ failedDels'[r] = failedDels[r] + k
  <2>1. IF r = q /\ Cardinality(At(r)) > 0
        THEN Cardinality(At(r)) - 1 = Cardinality(At(r)) - j
        ELSE Cardinality(At(r)) = Cardinality(At(r)) - j
    BY <1>1, <1>4
  <2>. QED
    BY <1>3, <2>1, DeleteEffect
<1>6. Owed(r)' = Owed(r) - k /\ failedAdds'[r] = failedAdds[r]
  BY <1>3
<1>7. /\ Cardinality(At(r)) - j >= (Owed(r) - k) - failedAdds[r]
      /\ Cardinality(At(r)) - j <= (Owed(r) - k) + failedDels[r]
      /\ Cardinality(At(r)) >= (Owed(r) - k) - failedAdds[r]
      /\ Cardinality(At(r)) <= (Owed(r) - k) + (failedDels[r] + k)
  BY <1>1, <1>2, <1>3, <1>4
<1>. QED
  BY <1>5, <1>6, <1>7

(* ... and that leaves it alone.                                           *)
LEMMA SameKeeps ==
  ASSUME RespTyped, RulesAccounted, UNCHANGED <<chain, failedAdds, failedDels>>,
         \A r \in Rules : Owed(r)' = Owed(r)
  PROVE  RulesAccounted'
<1>1. \A r \in Rules : At(r)' = At(r)
  BY DEF At
<1>2. \A r \in Rules :
        /\ Cardinality(At(r))' >= Owed(r)' - failedAdds'[r]
        /\ Cardinality(At(r))' <= Owed(r)' + failedDels'[r]
  BY <1>1 DEF RulesAccounted
<1>3. Rules' = Rules
  BY DEF Rules, Drop, Accept
<1>. QED
  BY <1>2, <1>3 DEF RulesAccounted

-----------------------------------------------------------------------------
(* RulesAccounted, action by action *)

(* The account is kept if it is kept for every rule.                       *)
LEMMA EachAccounted ==
  ASSUME \A r \in Rules : /\ Cardinality(At(r))' >= Owed(r)' - failedAdds'[r]
                          /\ Cardinality(At(r))' <= Owed(r)' + failedDels'[r]
  PROVE  RulesAccounted'
BY DEF RulesAccounted, Rules, Drop, Accept

LEMMA AccountedReceive ==
  ASSUME RespTyped, RulesAccounted, NEW cmd \in Commands, Receive(cmd)
  PROVE  RulesAccounted'
<1>. DEFINE h == [cmd |-> cmd, step |-> IF cmd.action = "BLOCK" THEN "xdp" ELSE "accept"]
<1>1. handler = {} /\ handler' = {h} /\ h.step # "drop"
  BY DEF Receive
<1>. HIDE DEF h
<1>2. \A r \in Rules : Owed(r)' = Owed(r)
  <2>1. SUFFICES ASSUME NEW r \in Rules PROVE Owed(r)' = Owed(r)
    OBVIOUS
  <2>2. Cardinality(HandlersOf(r)) = 0 /\ Cardinality(HandlersOf(r))' = 0
    BY <1>1, HandlersCount DEF HandlerHolds, HalfLimited
  <2>3. TasksOf(r)' = TasksOf(r) /\ permanent' = permanent /\ orphaned' = orphaned
    BY DEF Receive, TasksOf
  <2>. QED
    BY <2>2, <2>3 DEF Owed, Holders
<1>3. UNCHANGED <<chain, failedAdds, failedDels>>
  BY DEF Receive
<1>. QED
  BY <1>2, <1>3, SameKeeps

LEMMA AccountedBlockXdp ==
  ASSUME RespTyped, RulesAccounted, BlockXdp
  PROVE  RulesAccounted'
<1>1. PICK h \in handler : h.step = "xdp" /\ Goto(h, "drop")
  BY DEF BlockXdp
<1>2. PICK g : /\ handler = {h} /\ handler' = {g} /\ h.cmd.action = "BLOCK"
               /\ g.cmd.action = "BLOCK"
  BY <1>1, GotoType DEF RespTyped, Numbered, FirstStep
<1>3. \A r \in Rules : Owed(r)' = Owed(r)
  <2>1. SUFFICES ASSUME NEW r \in Rules PROVE Owed(r)' = Owed(r)
    OBVIOUS
  <2>2. Cardinality(HandlersOf(r)) = 0 /\ Cardinality(HandlersOf(r))' = 0
    BY <1>2, HandlersCount DEF HandlerHolds, HalfLimited
  <2>3. TasksOf(r)' = TasksOf(r) /\ permanent' = permanent /\ orphaned' = orphaned
    BY DEF BlockXdp, TasksOf
  <2>. QED
    BY <2>2, <2>3 DEF Owed, Holders
<1>4. UNCHANGED <<chain, failedAdds, failedDels>>
  BY DEF BlockXdp
<1>. QED
  BY <1>3, <1>4, SameKeeps

LEMMA AccountedRateLimitAccept ==
  ASSUME RespTyped, RulesAccounted, RateLimitAccept
  PROVE  RulesAccounted'
<1>1. PICK h \in handler :
        h.step = "accept" /\ Append(Accept(h.cmd.ip, h.cmd.pps)) /\ Goto(h, "drop")
  BY DEF RateLimitAccept
<1>. DEFINE q == Accept(h.cmd.ip, h.cmd.pps)
<1>2. PICK g : /\ handler = {h} /\ handler' = {g} /\ h.cmd \in Commands
               /\ h.cmd.action = "RATE_LIMIT" /\ g.cmd = h.cmd /\ g.step = "drop"
  BY <1>1, GotoType DEF RespTyped, Numbered, FirstStep
<1>3. HandlerHolds(h) = {} /\ HandlerHolds(g) = {q} /\ q \in Rules
  BY <1>1, <1>2, CommandType DEF HandlerHolds, HalfLimited
<1>. HIDE DEF q
<1>4. ASSUME NEW r \in Rules PROVE Owed(r)' = Owed(r) + (IF r = q THEN 1 ELSE 0)
  <2>1. /\ Cardinality(HandlersOf(r)) = 0
        /\ Cardinality(HandlersOf(r))' = IF r = q THEN 1 ELSE 0
    BY <1>2, <1>3, HandlersCount
  <2>2. TasksOf(r)' = TasksOf(r) /\ permanent' = permanent /\ orphaned' = orphaned
    BY DEF RateLimitAccept, TasksOf
  <2>3. Cardinality(TasksOf(r)) \in Nat /\ permanent[r] \in Nat /\ orphaned[r] \in Nat
    BY HoldersFinite, CounterTypes
  <2>. QED
    BY <2>1, <2>2, <2>3 DEF Owed, Holders
<1>5. failedDels' = failedDels /\ Append(q)
  BY <1>1 DEF RateLimitAccept, q
<1>. QED
  BY <1>3, <1>4, <1>5, AddKeeps, EachAccounted

LEMMA AccountedHandlerDrop ==
  ASSUME RespTyped, RulesAccounted, HandlerDrop
  PROVE  RulesAccounted'
<1>1. PICK h \in handler :
        /\ h.step = "drop" /\ h.cmd \in Commands /\ handler = {h} /\ alive
        /\ Append(Drop(h.cmd.ip)) /\ handler' = {}
        /\ tasks' = IF h.cmd.duration > 0 THEN tasks \cup {TaskOf(h.cmd)} ELSE tasks
        /\ permanent' = [r \in Rules |->
                           IF h.cmd.duration = 0 /\ r \in Holds(h.cmd)
                           THEN permanent[r] + 1 ELSE permanent[r]]
        /\ blocked' = IF h.cmd.duration = 0 /\ h.cmd.action = "BLOCK"
                      THEN blocked \cup {h.cmd.ip} ELSE blocked
        /\ UNCHANGED <<now, processVars, xdpVars, received, orphaned, torn, failedDels>>
  BY HandlerDropSteps
<1>. DEFINE c == h.cmd
            q == Drop(c.ip)
            u == TaskOf(c)
<1>2. q \in Rules /\ c.duration \in Nat
  BY <1>1, CommandType
<1>3. Holds(c) = HandlerHolds(h) \cup {q} /\ q \notin HandlerHolds(h)
  BY <1>1, CommandType DEF Holds, HandlerHolds, HalfLimited
<1>4. u \notin tasks /\ TaskHolds(u) = Holds(c)
  <2>1. u.n = received /\ u.cmd = c /\ u.step # "drop"
    BY <1>1, TaskOfType DEF RespTyped
  <2>2. \A t \in tasks : t.n \in Nat /\ t.n < received
    BY <1>1 DEF RespTyped, RespTypeOK, Numbered, TaskType
  <2>3. received \in Nat
    BY DEF RespTyped, RespTypeOK
  <2>. QED
    BY <2>1, <2>2, <2>3 DEF TaskHolds
<1>. HIDE DEF q, u
<1>5. ASSUME NEW r \in Rules PROVE Owed(r)' = Owed(r) + (IF r = q THEN 1 ELSE 0)
  <2>1. /\ IsFiniteSet(TasksOf(r)) /\ Cardinality(TasksOf(r)) \in Nat
        /\ permanent[r] \in Nat /\ orphaned[r] \in Nat
    BY HoldersFinite, CounterTypes
  <2>2. /\ Cardinality(HandlersOf(r)) = IF r \in HandlerHolds(h) THEN 1 ELSE 0
        /\ Cardinality(HandlersOf(r))' = 0
    BY <1>1, HandlersCount
  <2>3. orphaned' = orphaned
    BY <1>1
  <2>4. Cardinality(TasksOf(r))' + permanent'[r]
          = (Cardinality(TasksOf(r)) + permanent[r]) + (IF r \in Holds(c) THEN 1 ELSE 0)
    <3>1. CASE c.duration = 0
      <4>1. TasksOf(r)' = TasksOf(r)
        BY <1>1, <3>1 DEF TasksOf
      <4>2. permanent'[r] = permanent[r] + (IF r \in Holds(c) THEN 1 ELSE 0)
        BY <1>1, <2>1, <3>1
      <4>. QED
        BY <2>1, <4>1, <4>2
    <3>2. CASE c.duration > 0
      <4>1. permanent'[r] = permanent[r] /\ tasks' = tasks \cup {u}
        BY <1>1, <1>2, <3>2 DEF u
      <4>2. CASE r \in Holds(c)
        <5>1. TasksOf(r)' = TasksOf(r) \cup {u} /\ u \notin TasksOf(r)
          BY <1>4, <4>1, <4>2 DEF TasksOf
        <5>2. Cardinality(TasksOf(r) \cup {u}) = Cardinality(TasksOf(r)) + 1
          BY <2>1, <5>1, FS_AddElement
        <5>. QED
          BY <2>1, <4>1, <4>2, <5>1, <5>2
      <4>3. CASE r \notin Holds(c)
        <5>1. TasksOf(r)' = TasksOf(r)
          BY <1>4, <4>1, <4>3 DEF TasksOf
        <5>. QED
          BY <2>1, <4>1, <4>3, <5>1
      <4>. QED
        BY <4>2, <4>3
    <3>. QED
      BY <1>2, <3>1, <3>2
  <2>5. PICK k \in Nat : k = Cardinality(TasksOf(r)) + permanent[r]
    BY <2>1
  <2>6. Owed(r) = (Cardinality(HandlersOf(r)) + k) + orphaned[r]
    <3>1. Cardinality(HandlersOf(r)) \in Nat
      BY HoldersFinite
    <3>. QED
      BY <2>1, <2>5, <3>1 DEF Owed, Holders
  <2>7. Owed(r)' = (Cardinality(TasksOf(r))' + permanent'[r]) + orphaned[r]
    <3>1. PICK a \in Nat : a = Cardinality(TasksOf(r))'
      <4>1. IsFiniteSet(tasks') /\ TasksOf(r)' \subseteq tasks'
        BY TypedHandlerDrop DEF RespTyped, Numbered, TasksOf
      <4>. QED
        BY <4>1, FS_Subset, FS_CardinalityType
    <3>2. PICK b \in Nat : b = permanent'[r]
      BY TypedHandlerDrop DEF RespTyped, RespTypeOK
    <3>3. ((0 + a) + b) + orphaned[r] = (a + b) + orphaned[r]
      BY <2>1
    <3>4. Owed(r)' = ((0 + a) + b) + orphaned[r]
      BY <2>2, <2>3, <3>1, <3>2 DEF Owed, Holders
    <3>. QED
      BY <3>1, <3>2, <3>3, <3>4
  <2>8. Owed(r)' = (k + (IF r \in Holds(c) THEN 1 ELSE 0)) + orphaned[r]
    BY <2>4, <2>5, <2>7
  <2>9. (k + (IF r \in Holds(c) THEN 1 ELSE 0)) + orphaned[r]
          = ((IF r \in HandlerHolds(h) THEN 1 ELSE 0) + k) + orphaned[r]
               + (IF r = q THEN 1 ELSE 0)
    BY <1>3, <2>1, <2>5
  <2>. QED
    BY <2>2, <2>6, <2>8, <2>9
<1>6. failedDels' = failedDels /\ Append(q)
  BY <1>1 DEF q
<1>. QED
  BY <1>2, <1>5, <1>6, AddKeeps, EachAccounted

LEMMA AccountedUnblockXdp ==
  ASSUME RespTyped, RulesAccounted, NEW t \in tasks, UnblockXdp(t)
  PROVE  RulesAccounted'
<1>1. Holds(t.cmd) = {Drop(t.cmd.ip)} /\ t.step = "xdp" /\ Step(t, "drop")
  BY DEF UnblockXdp, Holds, RespTyped, Numbered, FirstStep
<1>2. \A r \in Rules : Owed(r)' = Owed(r)
  <2>1. SUFFICES ASSUME NEW r \in Rules PROVE Owed(r)' = Owed(r)
    OBVIOUS
  <2>2. Cardinality(TasksOf(r))' = Cardinality(TasksOf(r))
    BY <1>1, StepEffect
  <2>3. HandlersOf(r)' = HandlersOf(r) /\ permanent' = permanent /\ orphaned' = orphaned
    BY DEF UnblockXdp, HandlersOf
  <2>. QED
    BY <2>2, <2>3 DEF Owed, Holders
<1>3. UNCHANGED <<chain, failedAdds, failedDels>>
  BY DEF UnblockXdp
<1>. QED
  BY <1>2, <1>3, SameKeeps

LEMMA AccountedUnlimitAccept ==
  ASSUME RespTyped, RulesAccounted, NEW t \in tasks, UnlimitAccept(t)
  PROVE  RulesAccounted'
<1>. DEFINE q == Accept(t.cmd.ip, t.cmd.pps)
<1>1. /\ t.cmd \in Commands /\ t.cmd.action = "RATE_LIMIT" /\ t.step = "accept"
      /\ Step(t, "drop") /\ Delete(q)
  BY DEF UnlimitAccept, RespTyped, RespTypeOK, Numbered, FirstStep, TaskType
<1>2. /\ q \in Rules /\ q # Drop(t.cmd.ip) /\ Holds(t.cmd) = {q, Drop(t.cmd.ip)}
      /\ TaskHolds(t) = Holds(t.cmd)
  BY <1>1, CommandType DEF Holds, TaskHolds
<1>. HIDE DEF q
<1>3. Owed(q) > 0
  <2>1. t \in TasksOf(q)
    BY <1>2 DEF TasksOf
  <2>. QED
    BY <1>2, <2>1, TaskOwed
<1>4. ASSUME NEW r \in Rules PROVE Owed(r)' = Owed(r) - (IF r = q THEN 1 ELSE 0)
  <2>1. /\ Cardinality(TasksOf(r)) \in Nat /\ Cardinality(HandlersOf(r)) \in Nat
        /\ permanent[r] \in Nat /\ orphaned[r] \in Nat
    BY HoldersFinite, CounterTypes
  <2>2. Cardinality(TasksOf(r))' = Cardinality(TasksOf(r)) - (IF r = q THEN 1 ELSE 0)
    BY <1>1, <1>2, <2>1, StepEffect
  <2>3. HandlersOf(r)' = HandlersOf(r) /\ permanent' = permanent /\ orphaned' = orphaned
    BY DEF UnlimitAccept, HandlersOf
  <2>. QED
    BY <2>1, <2>2, <2>3 DEF Owed, Holders
<1>5. failedAdds' = failedAdds
  BY DEF UnlimitAccept
<1>. QED
  BY <1>1, <1>2, <1>3, <1>4, <1>5, DeleteKeeps, EachAccounted

LEMMA AccountedTaskDrop ==
  ASSUME RespTyped, RulesAccounted, NEW t \in tasks, TaskDrop(t)
  PROVE  RulesAccounted'
<1>. DEFINE q == Drop(t.cmd.ip)
<1>1. q \in Rules /\ Delete(q) /\ TaskHolds(t) = {q} /\ tasks' = tasks \ {t}
  BY CommandType DEF TaskDrop, RespTyped, RespTypeOK, TaskType, TaskHolds
<1>. HIDE DEF q
<1>2. t \in TasksOf(q)
  BY <1>1 DEF TasksOf
<1>3. Owed(q) > 0
  BY <1>1, <1>2, TaskOwed
<1>4. ASSUME NEW r \in Rules PROVE Owed(r)' = Owed(r) - (IF r = q THEN 1 ELSE 0)
  <2>1. /\ Cardinality(TasksOf(r)) \in Nat /\ Cardinality(HandlersOf(r)) \in Nat
        /\ permanent[r] \in Nat /\ orphaned[r] \in Nat /\ IsFiniteSet(TasksOf(r))
    BY HoldersFinite, CounterTypes
  <2>2. Cardinality(TasksOf(r))' = Cardinality(TasksOf(r)) - (IF r = q THEN 1 ELSE 0)
    <3>1. CASE r = q
      <4>1. TasksOf(r)' = TasksOf(r) \ {t}
        BY <1>1 DEF TasksOf
      <4>2. Cardinality(TasksOf(r) \ {t}) = Cardinality(TasksOf(r)) - 1
        BY <1>2, <2>1, <3>1, FS_RemoveElement
      <4>. QED
        BY <3>1, <4>1, <4>2
    <3>2. CASE r # q
      <4>1. TasksOf(r)' = TasksOf(r)
        BY <1>1, <3>2 DEF TasksOf
      <4>. QED
        BY <2>1, <3>2, <4>1
    <3>. QED
      BY <3>1, <3>2
  <2>3. HandlersOf(r)' = HandlersOf(r) /\ permanent' = permanent /\ orphaned' = orphaned
    BY DEF TaskDrop, HandlersOf
  <2>. QED
    BY <2>1, <2>2, <2>3 DEF Owed, Holders
<1>5. failedAdds' = failedAdds
  BY DEF TaskDrop
<1>. QED
  BY <1>1, <1>3, <1>4, <1>5, DeleteKeeps, EachAccounted

LEMMA AccountedGone ==
  ASSUME RespTyped, RulesAccounted, Gone
  PROVE  RulesAccounted'
<1>1. /\ handler' = {} /\ tasks' = {} /\ permanent' = permanent
      /\ orphaned' = [r \in Rules |-> orphaned[r] + Holders(r)]
      /\ UNCHANGED <<chain, failedAdds, failedDels>>
  BY DEF Gone
<1>2. \A r \in Rules : Owed(r)' = Owed(r)
  <2>1. SUFFICES ASSUME NEW r \in Rules PROVE Owed(r)' = Owed(r)
    OBVIOUS
  <2>2. HandlersOf(r)' = {} /\ TasksOf(r)' = {}
    BY <1>1 DEF HandlersOf, TasksOf
  <2>3. Cardinality(HandlersOf(r))' = 0 /\ Cardinality(TasksOf(r))' = 0
    BY <2>2, FS_EmptySet
  <2>4. permanent[r] \in Nat /\ orphaned[r] \in Nat /\ Holders(r) \in Nat
    BY HoldersFinite, CounterTypes
  <2>5. orphaned'[r] = orphaned[r] + Holders(r)
    BY <1>1
  <2>6. ((0 + 0) + permanent[r]) + (orphaned[r] + Holders(r))
          = (Holders(r) + permanent[r]) + orphaned[r]
    BY <2>4
  <2>. QED
    BY <1>1, <2>3, <2>5, <2>6 DEF Owed, Holders
<1>. QED
  BY <1>1, <1>2, SameKeeps

LEMMA AccountedIdle ==
  ASSUME RespTyped, RulesAccounted,
         CtrlC \/ Detach \/ Unpin \/ Restart \/ Tick \/ UNCHANGED respVars
  PROVE  RulesAccounted'
<1>1. UNCHANGED <<chain, handler, tasks, permanent, orphaned, failedAdds, failedDels>>
  BY DEF CtrlC, Detach, Unpin, Restart, Tick, respVars
<1>2. \A r \in Rules : Owed(r)' = Owed(r)
  BY <1>1 DEF Owed, Holders, HandlersOf, TasksOf
<1>. QED
  BY <1>1, <1>2, SameKeeps

LEMMA AccountedInit ==
  ASSUME RespInit
  PROVE  RulesAccounted
<1>1. SUFFICES ASSUME NEW r \in Rules
               PROVE  /\ Cardinality(At(r)) >= Owed(r) - failedAdds[r]
                      /\ Cardinality(At(r)) <= Owed(r) + failedDels[r]
  BY DEF RulesAccounted
<1>2. At(r) = {} /\ HandlersOf(r) = {} /\ TasksOf(r) = {}
  BY DEF RespInit, At, HandlersOf, TasksOf
<1>3. Cardinality({}) = 0
  BY FS_EmptySet
<1>4. permanent[r] = 0 /\ orphaned[r] = 0 /\ failedAdds[r] = 0 /\ failedDels[r] = 0
  BY DEF RespInit
<1>. QED
  BY <1>2, <1>3, <1>4 DEF Owed, Holders

LEMMA AccountedNext ==
  ASSUME RespTyped, RulesAccounted, [RespNext]_respVars
  PROVE  RulesAccounted'
BY AccountedReceive, AccountedBlockXdp, AccountedRateLimitAccept, AccountedHandlerDrop,
   AccountedUnblockXdp, AccountedUnlimitAccept, AccountedTaskDrop, AccountedGone,
   AccountedIdle DEF RespNext, Handle, Undo, Shutdown, Crash, Exit

(* The chain has as many copies of a rule as it has holders, up to the     *)
(* commands that failed, however blocks and rate limits of an address      *)
(* overlap and in whatever order they expire (responder.rs:40-58, 92-112). *)
THEOREM RulesAreAccounted == RespSpec => []RulesAccounted
<1>1. RespInit => RespTyped /\ RulesAccounted
  BY TypedInit, AccountedInit
<1>2. RespTyped /\ RulesAccounted /\ [RespNext]_respVars => RespTyped' /\ RulesAccounted'
  BY TypedNext, AccountedNext
<1>. QED
  BY <1>1, <1>2, PTL DEF RespSpec

-----------------------------------------------------------------------------
-----------------------------------------------------------------------------
(* A rate limit keeps a DROP behind its ACCEPT *)

Limited(x) ==
  /\ x.rule.target = "ACCEPT" /\ failedAdds[Drop(x.rule.ip)] = 0
  /\ failedDels[x.rule] = 0 /\ x.rule.ip \notin torn
Behind(x) == \E y \in At(Drop(x.rule.ip)) : y.pos > x.pos
Between(ip) == \E h \in handler : HalfLimited(h) /\ h.cmd.ip = ip

(* The chain of a limited address has a DROP somewhere.                    *)
DropKept ==
  \A x \in chain : Limited(x) => At(Drop(x.rule.ip)) # {} \/ Between(x.rule.ip)

LEMMA LimitsDef ==
  /\ LimitsEnforced <=>
       \A x \in chain : Limited(x) => Behind(x) \/ Between(x.rule.ip)
  /\ LimitsEnforced' <=>
       \A x \in chain' : Limited(x)' => Behind(x)' \/ Between(x.rule.ip)'
BY DEF LimitsEnforced, Limited, Behind, Between

(* The parts of a rule that is in the chain.                               *)
LEMMA EntryType ==
  ASSUME RespTypeOK, NEW x \in chain
  PROVE  /\ x.rule \in Rules /\ x.rule.ip \in IPs /\ Drop(x.rule.ip) \in Rules
         /\ x.pos \in Nat /\ x.pos <= appended /\ appended \in Nat
         /\ x.rule.target = "ACCEPT" =>
              \E p \in Rates : x.rule = Accept(x.rule.ip, p)
<1>1. /\ x.rule \in Rules /\ x.pos \in 1 .. appended /\ appended \in Nat
  BY DEF RespTypeOK
<1>2. x.rule.ip \in IPs
  BY <1>1 DEF Rules, Drop, Accept
<1>3. x.rule.target = "ACCEPT" => \E p \in Rates : x.rule = Accept(x.rule.ip, p)
  <2>1. CASE \E ip \in IPs : x.rule = Drop(ip)
    <3>1. x.rule.target = "DROP"
      BY <2>1 DEF Drop
    <3>. QED
      BY <3>1
  <2>2. CASE \E ip \in IPs, p \in Rates : x.rule = Accept(ip, p)
    <3>1. PICK ip \in IPs, p \in Rates : x.rule = Accept(ip, p)
      BY <2>2
    <3>2. x.rule.ip = ip
      BY <3>1 DEF Accept
    <3>. QED
      BY <3>1, <3>2
  <2>. QED
    BY <1>1, <2>1, <2>2 DEF Rules
<1>. QED
  BY <1>1, <1>2, <1>3, RuleTypes

(* Whoever holds the ACCEPT of a rate limit holds a DROP of its address,   *)
(* and the account says that one is there.                                 *)
LEMMA LimitHasDrop ==
  ASSUME RespTyped, RulesAccounted, LimitsPaired
  PROVE  DropKept
<1>1. SUFFICES ASSUME NEW x \in chain, Limited(x), ~Between(x.rule.ip)
               PROVE  At(Drop(x.rule.ip)) # {}
  BY DEF DropKept
<1>. DEFINE ip == x.rule.ip
            r == x.rule
            q == Drop(ip)
<1>2. PICK p \in Rates : r = Accept(ip, p)
  BY <1>1, EntryType DEF RespTyped, Limited
<1>3. r \in Rules /\ q \in Rules /\ ip \in IPs
  BY EntryType DEF RespTyped
<1>4. failedAdds[q] = 0 /\ failedDels[r] = 0 /\ ip \notin torn
  BY <1>1 DEF Limited
<1>5. x \in At(r)
  BY DEF At
<1>6. ~\E h \in handler : HalfLimited(h) /\ h.cmd.ip = ip
  BY <1>1 DEF Between
<1>. HIDE DEF ip, r, q
<1>7. Owed(r) > 0
  <2>1. Cardinality(At(r)) # 0 /\ Cardinality(At(r)) \in Nat /\ Owed(r) \in Nat
    BY <1>3, <1>5, HoldersFinite, CounterTypes, FS_EmptySet
  <2>2. Cardinality(At(r)) <= Owed(r) + 0
    BY <1>3, <1>4 DEF RulesAccounted
  <2>. QED
    BY <2>1, <2>2
<1>8. HandlersOf(r) = {}
  <2>1. SUFFICES ASSUME NEW h \in HandlersOf(r) PROVE FALSE
    OBVIOUS
  <2>2. h \in handler /\ HalfLimited(h) /\ r = Accept(h.cmd.ip, h.cmd.pps)
    BY DEF HandlersOf, HandlerHolds
  <2>3. h.cmd.ip = ip
    BY <1>2, <2>2 DEF Accept
  <2>. QED
    BY <1>6, <2>2, <2>3
<1>9. TasksOf(r) # {} \/ permanent[r] > 0 \/ orphaned[r] > 0
  <2>1. Cardinality(HandlersOf(r)) = 0 /\ (TasksOf(r) = {} => Cardinality(TasksOf(r)) = 0)
    BY <1>8, FS_EmptySet
  <2>2. permanent[r] \in Nat /\ orphaned[r] \in Nat
    BY <1>3, CounterTypes
  <2>. QED
    BY <1>7, <2>1, <2>2 DEF Owed, Holders
<1>10. Owed(q) > 0
  <2>1. CASE TasksOf(r) # {}
    <3>1. PICK t \in tasks : r \in TaskHolds(t)
      BY <2>1 DEF TasksOf
    <3>2. r # Drop(t.cmd.ip)
      BY <1>2 DEF Accept, Drop
    <3>3. t.step # "drop" /\ r = Accept(t.cmd.ip, t.cmd.pps) /\ Drop(t.cmd.ip) \in TaskHolds(t)
      BY <3>1, <3>2 DEF TaskHolds, Holds
    <3>4. t.cmd.ip = ip
      BY <1>2, <3>3 DEF Accept
    <3>5. t \in TasksOf(q)
      BY <3>3, <3>4 DEF TasksOf, q
    <3>. QED
      BY <1>3, <3>5, TaskOwed
  <2>2. CASE permanent[r] > 0 \/ orphaned[r] > 0
    <3>1. permanent[q] > 0 \/ orphaned[q] > 0
      BY <1>2, <1>3, <1>4, <2>2 DEF LimitsPaired, q
    <3>2. permanent[q] \in Nat /\ orphaned[q] \in Nat /\ Holders(q) \in Nat
      BY <1>3, CounterTypes, HoldersFinite
    <3>. QED
      BY <3>1, <3>2 DEF Owed
  <2>. QED
    BY <1>9, <2>1, <2>2
<1>11. Cardinality(At(q)) # 0
  <2>1. Cardinality(At(q)) >= Owed(q) - 0
    BY <1>3, <1>4 DEF RulesAccounted
  <2>2. Owed(q) \in Nat /\ Cardinality(At(q)) \in Nat
    BY <1>3, CounterTypes, HoldersFinite
  <2>. QED
    BY <1>10, <2>1, <2>2
<1>. QED
  BY <1>11, FS_EmptySet DEF q, ip

-----------------------------------------------------------------------------
(* LimitsPaired, action by action *)

LEMMA PairedHandlerDrop ==
  ASSUME RespTyped, LimitsPaired, HandlerDrop
  PROVE  LimitsPaired'
<1>1. PICK h \in handler :
        /\ h.cmd \in Commands
        /\ permanent' = [r \in Rules |->
                           IF h.cmd.duration = 0 /\ r \in Holds(h.cmd)
                           THEN permanent[r] + 1 ELSE permanent[r]]
        /\ UNCHANGED <<orphaned, torn>>
  BY HandlerDropSteps
<1>2. SUFFICES ASSUME NEW ip \in IPs, NEW p \in Rates, permanent'[Accept(ip, p)] > 0
               PROVE  permanent'[Drop(ip)] > 0
  BY <1>1 DEF LimitsPaired
<1>3. /\ Drop(ip) \in Rules /\ Accept(ip, p) \in Rules
      /\ permanent[Drop(ip)] \in Nat
  BY RuleTypes, CounterTypes
<1>4. permanent'[Drop(ip)] = permanent[Drop(ip)] \/ permanent'[Drop(ip)] = permanent[Drop(ip)] + 1
  BY <1>1, <1>3
<1>5. CASE permanent[Accept(ip, p)] > 0
  <2>1. permanent[Drop(ip)] > 0
    BY <1>5 DEF LimitsPaired
  <2>. QED
    BY <1>3, <1>4, <2>1
<1>6. CASE h.cmd.duration = 0 /\ Accept(ip, p) \in Holds(h.cmd)
  <2>1. Accept(ip, p) # Drop(h.cmd.ip)
    BY DEF Accept, Drop
  <2>2. Accept(ip, p) = Accept(h.cmd.ip, h.cmd.pps) /\ Drop(h.cmd.ip) \in Holds(h.cmd)
    BY <1>6, <2>1 DEF Holds
  <2>3. h.cmd.ip = ip
    BY <2>2 DEF Accept
  <2>4. permanent'[Drop(ip)] = permanent[Drop(ip)] + 1
    BY <1>1, <1>3, <1>6, <2>2, <2>3
  <2>. QED
    BY <1>3, <2>4
<1>. QED
  BY <1>1, <1>2, <1>3, <1>5, <1>6

(* A holder of an ACCEPT that dies either leaves a DROP or was torn.       *)
LEMMA PairedGone ==
  ASSUME RespTyped, LimitsPaired, Gone
  PROVE  LimitsPaired'
<1>1. /\ permanent' = permanent
      /\ orphaned' = [r \in Rules |-> orphaned[r] + Holders(r)]
      /\ torn' = torn \cup {h.cmd.ip : h \in {g \in handler : HalfLimited(g)}}
  BY DEF Gone
<1>2. SUFFICES ASSUME NEW ip \in IPs, NEW p \in Rates,
                      orphaned'[Accept(ip, p)] > 0, ip \notin torn'
               PROVE  orphaned'[Drop(ip)] > 0
  BY <1>1 DEF LimitsPaired
<1>. DEFINE r == Accept(ip, p)
            q == Drop(ip)
<1>3. r \in Rules /\ q \in Rules
  BY RuleTypes
<1>4. /\ orphaned[r] \in Nat /\ orphaned[q] \in Nat
      /\ Holders(r) \in Nat /\ Holders(q) \in Nat
  BY <1>3, CounterTypes, HoldersFinite
<1>5. orphaned'[r] = orphaned[r] + Holders(r) /\ orphaned'[q] = orphaned[q] + Holders(q)
  BY <1>1, <1>3
<1>6. CASE orphaned[r] > 0
  <2>1. orphaned[q] > 0
    BY <1>1, <1>2, <1>6 DEF LimitsPaired
  <2>. QED
    BY <1>4, <1>5, <2>1
<1>7. CASE Holders(r) > 0
  <2>1. HandlersOf(r) = {}
    <3>1. SUFFICES ASSUME NEW h \in HandlersOf(r) PROVE FALSE
      OBVIOUS
    <3>2. h \in handler /\ HalfLimited(h) /\ Accept(ip, p) = Accept(h.cmd.ip, h.cmd.pps)
      BY DEF HandlersOf, HandlerHolds
    <3>3. h.cmd.ip = ip
      BY <3>2 DEF Accept
    <3>. QED
      BY <1>1, <1>2, <3>2, <3>3
  <2>2. TasksOf(r) # {}
    BY <1>7, <2>1, FS_EmptySet DEF Holders
  <2>3. PICK t \in tasks : r \in TaskHolds(t)
    BY <2>2 DEF TasksOf
  <2>4. r # Drop(t.cmd.ip)
    BY DEF Accept, Drop
  <2>5. r = Accept(t.cmd.ip, t.cmd.pps) /\ Drop(t.cmd.ip) \in TaskHolds(t)
    BY <2>3, <2>4 DEF TaskHolds, Holds
  <2>6. t.cmd.ip = ip
    BY <2>5 DEF Accept
  <2>7. t \in TasksOf(q)
    BY <2>5, <2>6 DEF TasksOf
  <2>8. /\ IsFiniteSet(TasksOf(q)) /\ Cardinality(TasksOf(q)) \in Nat
        /\ Cardinality(HandlersOf(q)) \in Nat
    BY HoldersFinite
  <2>9. Cardinality(TasksOf(q)) # 0
    BY <2>7, <2>8, FS_EmptySet
  <2>10. Holders(q) > 0
    BY <2>8, <2>9 DEF Holders
  <2>. QED
    BY <1>4, <1>5, <2>10
<1>. QED
  BY <1>2, <1>4, <1>5, <1>6, <1>7

LEMMA PairedNext ==
  ASSUME RespTyped, LimitsPaired, [RespNext]_respVars
  PROVE  LimitsPaired'
<1>1. CASE UNCHANGED <<permanent, orphaned, torn>>
  BY <1>1 DEF LimitsPaired
<1>2. CASE ~HandlerDrop /\ ~Gone
  <2>1. UNCHANGED <<permanent, orphaned, torn>>
    BY <1>2, Zenon DEF RespNext, Handle, Undo, Shutdown, Receive, BlockXdp, RateLimitAccept,
       UnblockXdp, UnlimitAccept, TaskDrop, Crash, CtrlC, Detach, Unpin, Exit, Restart,
       Tick, respVars
  <2>. QED
    BY <1>1, <2>1
<1>. QED
  BY <1>2, PairedHandlerDrop, PairedGone

-----------------------------------------------------------------------------
(* LimitsEnforced, action by action *)

(* Steps that leave the chain alone.                                       *)
LEMMA LimitsSame ==
  ASSUME LimitsEnforced, UNCHANGED <<chain, failedAdds, failedDels>>,
         torn \subseteq torn',
         \A ip : Between(ip) => Between(ip)' \/ ip \in torn'
  PROVE  LimitsEnforced'
<1>1. SUFFICES ASSUME NEW x \in chain', Limited(x)'
               PROVE  Behind(x)' \/ Between(x.rule.ip)'
  BY LimitsDef
<1>2. x \in chain /\ Limited(x) /\ x.rule.ip \notin torn'
  BY <1>1 DEF Limited
<1>3. Behind(x) \/ Between(x.rule.ip)
  BY <1>2, LimitsDef
<1>4. Behind(x) => Behind(x)'
  BY DEF Behind, At
<1>. QED
  BY <1>2, <1>3, <1>4

LEMMA LimitsIdle ==
  ASSUME RespTyped, LimitsEnforced,
         \/ \E cmd \in Commands : Receive(cmd)
         \/ BlockXdp \/ (\E t \in tasks : UnblockXdp(t)) \/ Gone
         \/ CtrlC \/ Detach \/ Unpin \/ Restart \/ Tick \/ UNCHANGED respVars
  PROVE  LimitsEnforced'
<1>1. UNCHANGED <<chain, failedAdds, failedDels>> /\ torn \subseteq torn'
  BY DEF Receive, BlockXdp, UnblockXdp, Gone, CtrlC, Detach, Unpin, Restart, Tick, respVars
<1>2. ASSUME NEW ip, Between(ip) PROVE Between(ip)' \/ ip \in torn'
  <2>1. PICK h \in handler : HalfLimited(h) /\ h.cmd.ip = ip
    BY <1>2 DEF Between
  <2>2. CASE handler' = handler
    BY <2>1, <2>2 DEF Between
  <2>3. CASE Gone
    BY <2>1, <2>3 DEF Gone
  <2>4. ~BlockXdp /\ ~\E cmd \in Commands : Receive(cmd)
    <3>1. \A g \in handler : g = h
      BY DEF RespTyped, RespTypeOK
    <3>. QED
      BY <2>1, <3>1 DEF BlockXdp, Receive, HalfLimited
  <2>. QED
    BY <2>2, <2>3, <2>4 DEF UnblockXdp, CtrlC, Detach, Unpin, Restart, Tick, respVars
<1>. QED
  BY <1>1, <1>2, LimitsSame

(* While the handler is between ACCEPT and DROP the address is excused.    *)
LEMMA LimitsRateLimitAccept ==
  ASSUME RespTyped, LimitsEnforced, RateLimitAccept
  PROVE  LimitsEnforced'
<1>1. PICK h \in handler :
        /\ h.step = "accept" /\ Append(Accept(h.cmd.ip, h.cmd.pps)) /\ Goto(h, "drop")
        /\ UNCHANGED <<torn, failedDels>>
  BY DEF RateLimitAccept
<1>. DEFINE q == Accept(h.cmd.ip, h.cmd.pps)
<1>2. PICK g : /\ handler = {h} /\ handler' = {g} /\ h.cmd \in Commands
               /\ h.cmd.action = "RATE_LIMIT" /\ g.cmd = h.cmd /\ g.step = "drop"
  BY <1>1, GotoType DEF RespTyped, Numbered, FirstStep
<1>3. Between(h.cmd.ip)' /\ \A ip : ~Between(ip)
  BY <1>1, <1>2 DEF Between, HalfLimited
<1>4. SUFFICES ASSUME NEW x \in chain', Limited(x)', x.rule.ip # h.cmd.ip
               PROVE  Behind(x)'
  BY <1>3, LimitsDef
<1>5. q \in Rules /\ q.ip = h.cmd.ip /\ q.target = "ACCEPT"
  BY <1>2, CommandType DEF Accept
<1>6. chain \subseteq chain' /\ \A y \in chain' : y \in chain \/ y.rule = q
  BY <1>1 DEF Append
<1>7. x \in chain
  BY <1>4, <1>5, <1>6
<1>8. Drop(x.rule.ip).target = "DROP" /\ Drop(x.rule.ip) # q
  BY <1>5 DEF Drop
<1>9. failedAdds'[Drop(x.rule.ip)] = failedAdds[Drop(x.rule.ip)]
  <2>1. failedAdds' = failedAdds \/ failedAdds' = [failedAdds EXCEPT ![q] = @ + 1]
    BY <1>1 DEF Append
  <2>. QED
    BY <1>8, <2>1, <1>7, EntryType DEF RespTyped, RespTypeOK
<1>10. Limited(x)
  BY <1>1, <1>4, <1>9 DEF Limited
<1>11. Behind(x)
  BY <1>3, <1>7, <1>10, LimitsDef
<1>. QED
  BY <1>6, <1>11 DEF Behind, At

(* The DROP that ends a command is behind everything.                      *)
LEMMA LimitsHandlerDrop ==
  ASSUME RespTyped, LimitsEnforced, HandlerDrop
  PROVE  LimitsEnforced'
<1>1. PICK h \in handler :
        /\ h.cmd \in Commands /\ handler = {h} /\ Append(Drop(h.cmd.ip))
        /\ UNCHANGED <<torn, failedDels>>
  BY HandlerDropSteps
<1>. DEFINE q == Drop(h.cmd.ip)
            e == [pos |-> appended + 1, rule |-> q]
<1>2. SUFFICES ASSUME NEW x \in chain', Limited(x)'
               PROVE  Behind(x)'
  BY LimitsDef
<1>3. q \in Rules /\ q.ip = h.cmd.ip /\ q.target = "DROP"
  BY <1>1, CommandType DEF Drop
<1>4. /\ failedAdds'[Drop(x.rule.ip)] = 0 /\ failedDels'[x.rule] = 0
      /\ x.rule.ip \notin torn' /\ x.rule.target = "ACCEPT"
  BY <1>2 DEF Limited
<1>5. failedAdds \in [Rules -> Nat]
  BY DEF RespTyped, RespTypeOK
<1>6. \/ chain' = chain \cup {e} /\ failedAdds' = failedAdds
      \/ chain' = chain /\ failedAdds' = [failedAdds EXCEPT ![q] = @ + 1]
  BY <1>1 DEF Append
<1>7. x \in chain
  BY <1>3, <1>4, <1>6
<1>8. x.pos < appended + 1 /\ Drop(x.rule.ip) \in Rules
  BY <1>7, EntryType DEF RespTyped
<1>9. CASE x.rule.ip = h.cmd.ip
  <2>1. failedAdds[q] + 1 # 0
    BY <1>3, <1>5
  <2>2. chain' = chain \cup {e}
    BY <1>3, <1>4, <1>5, <1>6, <1>9, <2>1
  <2>3. e \in chain' /\ e.rule = Drop(x.rule.ip) /\ e.pos > x.pos
    BY <1>8, <1>9, <2>2, EntryType DEF RespTyped, RespTypeOK
  <2>. QED
    BY <2>3 DEF Behind, At
<1>10. CASE x.rule.ip # h.cmd.ip
  <2>1. Drop(x.rule.ip) # q
    BY <1>10 DEF Drop
  <2>2. failedAdds[Drop(x.rule.ip)] = 0
    BY <1>4, <1>5, <1>6, <1>8, <2>1
  <2>3. Limited(x)
    BY <1>1, <1>4, <2>2 DEF Limited
  <2>4. Behind(x)
    BY <1>1, <1>7, <1>10, <2>3, LimitsDef DEF Between
  <2>5. chain \subseteq chain'
    BY <1>6
  <2>. QED
    BY <2>4, <2>5 DEF Behind, At
<1>. QED
  BY <1>9, <1>10

(* What a deletion leaves limited was limited.                             *)
LEMMA DeleteLimited ==
  ASSUME RespTyped, NEW q \in Rules, Delete(q), UNCHANGED <<torn, failedAdds>>,
         NEW x \in chain', Limited(x)'
  PROVE  x \in chain /\ Limited(x)
<1>1. x \in chain
  BY DEF Delete
<1>2. x.rule \in Rules /\ failedDels \in [Rules -> Nat]
  BY <1>1, EntryType DEF RespTyped, RespTypeOK
<1>3. failedDels' = failedDels \/ failedDels' = [failedDels EXCEPT ![q] = @ + 1]
  BY DEF Delete
<1>4. failedDels'[x.rule] = failedDels[x.rule] \/ failedDels'[x.rule] = failedDels[x.rule] + 1
  BY <1>2, <1>3
<1>5. failedDels[x.rule] \in Nat /\ failedDels'[x.rule] = 0
  BY <1>2 DEF Limited
<1>6. failedDels[x.rule] = 0
  BY <1>4, <1>5
<1>. QED
  BY <1>1, <1>6 DEF Limited

LEMMA LimitsUnlimitAccept ==
  ASSUME RespTyped, LimitsEnforced, NEW t \in tasks, UnlimitAccept(t)
  PROVE  LimitsEnforced'
<1>. DEFINE q == Accept(t.cmd.ip, t.cmd.pps)
<1>1. Delete(q) /\ UNCHANGED <<torn, failedAdds, handler>>
  BY DEF UnlimitAccept
<1>2. q \in Rules
  BY CommandType DEF UnlimitAccept, RespTyped, RespTypeOK, Numbered, FirstStep, TaskType
<1>3. SUFFICES ASSUME NEW x \in chain', Limited(x)'
               PROVE  Behind(x)' \/ Between(x.rule.ip)'
  BY LimitsDef
<1>4. x \in chain /\ Limited(x)
  BY <1>1, <1>2, <1>3, DeleteLimited
<1>5. Behind(x) \/ Between(x.rule.ip)
  BY <1>4, LimitsDef
<1>6. At(Drop(x.rule.ip))' = At(Drop(x.rule.ip))
  <2>1. q.target = "ACCEPT" /\ Drop(x.rule.ip).target = "DROP"
    BY DEF Accept, Drop
  <2>2. chain' \subseteq chain /\ \A y \in chain \ chain' : y.rule = q
    BY <1>1 DEF Delete, First, At
  <2>. QED
    BY <2>1, <2>2 DEF At
<1>. QED
  BY <1>1, <1>5, <1>6 DEF Behind, Between

(* iptables -D takes the first DROP: if it was the one behind an ACCEPT,   *)
(* any that is left is further behind, and one is left.                    *)
LEMMA LimitsTaskDrop ==
  ASSUME RespTyped, DropKept', LimitsEnforced, NEW t \in tasks, TaskDrop(t)
  PROVE  LimitsEnforced'
<1>. DEFINE q == Drop(t.cmd.ip)
<1>1. Delete(q) /\ UNCHANGED <<torn, failedAdds, handler>>
  BY DEF TaskDrop
<1>2. q \in Rules
  BY CommandType DEF RespTyped, RespTypeOK, TaskType
<1>3. SUFFICES ASSUME NEW x \in chain', Limited(x)', ~Between(x.rule.ip)'
               PROVE  Behind(x)'
  BY LimitsDef
<1>4. x \in chain /\ Limited(x)
  BY <1>1, <1>2, <1>3, DeleteLimited
<1>5. PICK y \in At(Drop(x.rule.ip)) : y.pos > x.pos
  <2>1. ~Between(x.rule.ip)
    BY <1>1, <1>3 DEF Between
  <2>. QED
    BY <1>4, <2>1, LimitsDef DEF Behind
<1>6. CASE y \in chain'
  BY <1>5, <1>6 DEF Behind, At
<1>7. CASE y \notin chain'
  <2>1. y \in First(At(q)) /\ q = Drop(x.rule.ip)
    BY <1>1, <1>5, <1>7 DEF Delete, First, At
  <2>2. PICK z \in chain' : z.rule = Drop(x.rule.ip)
    BY <1>3 DEF DropKept, At
  <2>3. z \in chain /\ z \in At(q)
    BY <1>1, <2>1, <2>2 DEF Delete, At
  <2>4. y.pos <= z.pos
    BY <2>1, <2>3 DEF First
  <2>5. x.pos \in Nat /\ y.pos \in Nat /\ z.pos \in Nat
    BY <1>4, <1>5, <2>3, EntryType DEF RespTyped, At
  <2>6. z.pos > x.pos
    BY <1>5, <2>4, <2>5
  <2>. QED
    BY <2>2, <2>6 DEF Behind, At
<1>. QED
  BY <1>6, <1>7

LEMMA LimitsNext ==
  ASSUME RespTyped, DropKept', LimitsEnforced, [RespNext]_respVars
  PROVE  LimitsEnforced'
BY LimitsIdle, LimitsRateLimitAccept, LimitsHandlerDrop, LimitsUnlimitAccept,
   LimitsTaskDrop DEF RespNext, Handle, Undo, Shutdown, Crash, Exit

(* A rate limit never turns into an allowance: every ACCEPT has a DROP of  *)
(* its address behind it, whatever other blocks and limits of the address  *)
(* come and expire in between, though each task takes out the first equal  *)
(* DROP and not its own (responder.rs:53-55, 92-109).                      *)
THEOREM LimitsAreEnforced == RespSpec => []LimitsEnforced
<1>. DEFINE Inv == RespTyped /\ RulesAccounted /\ LimitsPaired
<1>1. RespInit => Inv /\ LimitsEnforced
  <2>1. RespInit => LimitsPaired
    BY RuleTypes DEF RespInit, LimitsPaired
  <2>2. RespInit => LimitsEnforced
    BY DEF RespInit, LimitsEnforced
  <2>. QED
    BY <2>1, <2>2, TypedInit, AccountedInit
<1>2. Inv /\ [RespNext]_respVars => Inv'
  BY TypedNext, AccountedNext, PairedNext
<1>3. Inv => RespTyped /\ DropKept
  BY LimitHasDrop
<1>4. RespTyped /\ DropKept' /\ LimitsEnforced /\ [RespNext]_respVars => LimitsEnforced'
  BY LimitsNext
<1>. HIDE DEF Inv
<1>. QED
  BY <1>1, <1>2, <1>3, <1>4, PTL DEF RespSpec

-----------------------------------------------------------------------------
(* Who answers for a key of the XDP map *)

KeyOwned(ip) ==
  \/ \E h \in handler : h.cmd.action = "BLOCK" /\ h.cmd.ip = ip
  \/ \E t \in tasks : t.step = "xdp" /\ t.cmd.ip = ip
  \/ ip \in blocked

LEMMA KeyOwnedDef ==
  /\ XdpKeysOwned <=> (alive => \A ip \in xdpMap \ leaked : KeyOwned(ip))
  /\ XdpKeysOwned' <=> (alive' => \A ip \in xdpMap' \ leaked' : KeyOwned(ip)')
BY DEF XdpKeysOwned, KeyOwned

(* The owners that an action leaves alone.                                 *)
LEMMA OwnersStay ==
  ASSUME XdpKeysOwned, alive, xdpMap' \ leaked' \subseteq xdpMap \ leaked,
         blocked' = blocked,
         \A h \in handler : \E g \in handler' : g.cmd = h.cmd,
         \A t \in tasks : t.step = "xdp" => t \in tasks' \/ t.cmd.ip \notin xdpMap' \ leaked'
  PROVE  XdpKeysOwned'
<1>1. SUFFICES ASSUME alive', NEW ip \in xdpMap' \ leaked' PROVE KeyOwned(ip)'
  BY KeyOwnedDef
<1>2. KeyOwned(ip)
  BY <1>1, KeyOwnedDef
<1>. QED
  BY <1>1, <1>2 DEF KeyOwned

LEMMA KeysReceive ==
  ASSUME RespTyped, XdpKeysOwned, NEW cmd \in Commands, Receive(cmd)
  PROVE  XdpKeysOwned'
<1>1. /\ alive /\ handler = {} /\ tasks' = tasks /\ xdpMap' = xdpMap
      /\ leaked' = leaked /\ blocked' = blocked
  BY DEF Receive
<1>. QED
  BY <1>1, OwnersStay

LEMMA KeysBlockXdp ==
  ASSUME RespTyped, XdpKeysOwned, BlockXdp
  PROVE  XdpKeysOwned'
<1>1. PICK h \in handler :
        h.step = "xdp" /\ XdpInsert(h.cmd.ip) /\ Goto(h, "drop")
        /\ tasks' = tasks /\ blocked' = blocked
  BY DEF BlockXdp
<1>2. PICK g : /\ handler = {h} /\ handler' = {g} /\ h.cmd.action = "BLOCK"
               /\ g.cmd = h.cmd /\ alive
  BY <1>1, GotoType DEF RespTyped, Numbered, FirstStep
<1>3. xdpMap' \ leaked' \subseteq (xdpMap \ leaked) \cup {h.cmd.ip}
  BY <1>1 DEF XdpInsert
<1>4. SUFFICES ASSUME NEW ip \in xdpMap' \ leaked' PROVE KeyOwned(ip)'
  BY KeyOwnedDef
<1>5. CASE ip = h.cmd.ip
  BY <1>2, <1>5 DEF KeyOwned
<1>6. CASE ip # h.cmd.ip
  <2>1. KeyOwned(ip)
    BY <1>2, <1>3, <1>4, <1>6, KeyOwnedDef
  <2>. QED
    BY <1>1, <1>2, <2>1 DEF KeyOwned
<1>. QED
  BY <1>5, <1>6

LEMMA KeysRateLimitAccept ==
  ASSUME RespTyped, XdpKeysOwned, RateLimitAccept
  PROVE  XdpKeysOwned'
<1>1. PICK h \in handler :
        Goto(h, "drop") /\ tasks' = tasks /\ blocked' = blocked
        /\ xdpMap' = xdpMap /\ leaked' = leaked
  BY DEF RateLimitAccept
<1>2. alive /\ \E g \in handler' : handler = {h} /\ g.cmd = h.cmd
  BY <1>1, GotoType DEF RespTyped
<1>. QED
  BY <1>1, <1>2, OwnersStay

(* A block hands its key over to its task, or keeps it for good.           *)
LEMMA KeysHandlerDrop ==
  ASSUME RespTyped, XdpKeysOwned, HandlerDrop
  PROVE  XdpKeysOwned'
<1>1. PICK h \in handler :
        /\ h.cmd \in Commands /\ handler = {h} /\ alive
        /\ tasks' = IF h.cmd.duration > 0 THEN tasks \cup {TaskOf(h.cmd)} ELSE tasks
        /\ blocked' = IF h.cmd.duration = 0 /\ h.cmd.action = "BLOCK"
                      THEN blocked \cup {h.cmd.ip} ELSE blocked
        /\ xdpMap' = xdpMap /\ leaked' = leaked
  BY HandlerDropSteps
<1>2. SUFFICES ASSUME NEW ip \in xdpMap' \ leaked' PROVE KeyOwned(ip)'
  BY KeyOwnedDef
<1>3. KeyOwned(ip)
  BY <1>1, <1>2, KeyOwnedDef
<1>4. CASE h.cmd.action = "BLOCK" /\ h.cmd.ip = ip
  <2>1. CASE h.cmd.duration > 0
    <3>1. TaskOf(h.cmd) \in tasks' /\ TaskOf(h.cmd).step = "xdp" /\ TaskOf(h.cmd).cmd = h.cmd
      BY <1>1, <1>4, <2>1, TaskOfType DEF RespTyped
    <3>. QED
      BY <1>4, <3>1 DEF KeyOwned
  <2>2. CASE h.cmd.duration = 0
    BY <1>1, <1>4, <2>2 DEF KeyOwned
  <2>. QED
    BY <1>1, <2>1, <2>2, CommandType
<1>5. CASE \E t \in tasks : t.step = "xdp" /\ t.cmd.ip = ip
  BY <1>1, <1>5 DEF KeyOwned
<1>6. CASE ip \in blocked
  BY <1>1, <1>6 DEF KeyOwned
<1>. QED
  BY <1>1, <1>3, <1>4, <1>5, <1>6 DEF KeyOwned

(* The task of a block gives its key up by deleting it, or leaves it.      *)
LEMMA KeysUnblockXdp ==
  ASSUME RespTyped, KeysWithoutPin, XdpKeysOwned, NEW t \in tasks, UnblockXdp(t)
  PROVE  XdpKeysOwned'
<1>1. /\ XdpDelete(t.cmd.ip) /\ Step(t, "drop") /\ handler' = handler
      /\ blocked' = blocked
  BY DEF UnblockXdp
<1>2. alive
  BY DEF RespTyped, RespTypeOK
<1>3. /\ xdpMap' \ leaked' \subseteq xdpMap \ leaked
      /\ t.cmd.ip \notin xdpMap' \ leaked'
  <2>1. /\ xdpMap \subseteq V4 /\ (pinned => xdpActive)
        /\ (~pinned => leaked = xdpMap)
    BY DEF RespTyped, RespTypeOK, KeysWithoutPin
  <2>2. CASE Reaches(t.cmd.ip)
    BY <1>1, <2>2 DEF XdpDelete
  <2>3. CASE ~Reaches(t.cmd.ip) /\ UNCHANGED <<xdpMap, leaked>>
    BY <2>1, <2>3 DEF Reaches
  <2>. QED
    BY <1>1, <2>2, <2>3 DEF XdpDelete
<1>4. \A u \in tasks : u \in tasks' \/ u = t
  BY <1>1 DEF Step
<1>. QED
  BY <1>1, <1>2, <1>3, <1>4, OwnersStay

LEMMA KeysUndoRules ==
  ASSUME RespTyped, XdpKeysOwned, NEW t \in tasks, UnlimitAccept(t) \/ TaskDrop(t)
  PROVE  XdpKeysOwned'
<1>1. /\ handler' = handler /\ blocked' = blocked /\ xdpMap' = xdpMap
      /\ leaked' = leaked /\ t.step # "xdp"
  BY DEF UnlimitAccept, TaskDrop
<1>2. alive
  BY DEF RespTyped, RespTypeOK
<1>3. \A u \in tasks : u \in tasks' \/ u = t
  BY DEF UnlimitAccept, TaskDrop, Step
<1>. QED
  BY <1>1, <1>2, <1>3, OwnersStay

(* A detached program has no keys, and those of one that stays attached    *)
(* have been left there.                                                   *)
LEMMA KeysIdle ==
  ASSUME RespTyped, XdpKeysOwned,
         Tick \/ Gone \/ CtrlC \/ Detach \/ Unpin \/ Restart \/ UNCHANGED respVars
  PROVE  XdpKeysOwned'
<1>1. CASE Gone
  BY <1>1, Zenon DEF Gone, XdpKeysOwned
<1>2. CASE xdpMap' \ leaked' = {}
  BY <1>2, KeyOwnedDef
<1>3. CASE UNCHANGED <<alive, xdpMap, leaked, handler, tasks, blocked>>
  BY <1>3 DEF XdpKeysOwned
<1>4. \/ Gone \/ xdpMap' \ leaked' = {}
      \/ UNCHANGED <<alive, xdpMap, leaked, handler, tasks, blocked>>
  BY DEF Tick, CtrlC, Detach, Unpin, Restart, respVars
<1>. QED
  BY <1>1, <1>2, <1>3, <1>4

LEMMA WithoutPinNext ==
  ASSUME KeysWithoutPin, [RespNext]_respVars
  PROVE  KeysWithoutPin'
<1>1. CASE leaked' = xdpMap'
  BY <1>1 DEF KeysWithoutPin
<1>2. CASE pinned' = pinned /\ leaked' = leaked /\ xdpMap' = xdpMap
  BY <1>2, Zenon DEF KeysWithoutPin
<1>3. CASE pinned' = pinned /\ pinned
  BY <1>3, Zenon DEF KeysWithoutPin
<1>4. ASSUME NEW ip, XdpInsert(ip) \/ XdpDelete(ip), pinned' = pinned
      PROVE  KeysWithoutPin'
  <2>1. CASE Reaches(ip)
    BY <1>3, <1>4, <2>1, Zenon DEF Reaches
  <2>2. CASE ~Reaches(ip)
    <3>1. leaked' = leaked /\ xdpMap' = xdpMap
      BY <1>4, <2>2 DEF XdpInsert, XdpDelete
    <3>. QED
      BY <1>2, <1>4, <3>1, Zenon
  <2>. QED
    BY <2>1, <2>2
<1>5. CASE BlockXdp \/ \E t \in tasks : UnblockXdp(t)
  BY <1>4, <1>5 DEF BlockXdp, UnblockXdp
<1>6. CASE Detach \/ Unpin \/ Restart
  BY <1>1, <1>2, <1>6 DEF Detach, Unpin, Restart
<1>7. CASE \/ \E cmd \in Commands : Receive(cmd)
           \/ RateLimitAccept \/ HandlerDrop
           \/ \E t \in tasks : UnlimitAccept(t) \/ TaskDrop(t)
           \/ Gone \/ CtrlC \/ Tick \/ UNCHANGED respVars
  BY <1>2, <1>7 DEF Receive, RateLimitAccept, HandlerDrop, UnlimitAccept, TaskDrop, Gone,
     CtrlC, Tick, respVars
<1>. QED
  BY <1>5, <1>6, <1>7 DEF RespNext, Handle, Undo, Shutdown, Crash, Exit

LEMMA KeysNext ==
  ASSUME RespTyped, KeysWithoutPin, XdpKeysOwned, [RespNext]_respVars
  PROVE  XdpKeysOwned'
BY KeysReceive, KeysBlockXdp, KeysRateLimitAccept, KeysHandlerDrop, KeysUnblockXdp,
   KeysUndoRules, KeysIdle DEF RespNext, Handle, Undo, Shutdown, Crash, Exit

(* A key of the running agent's XDP map has a block behind it that is      *)
(* permanent, being carried out, or about to delete the key, unless a      *)
(* failed deletion or detach left it there (responder.rs:28-29, 49-51;     *)
(* ebpf_loader.rs:20-22, 103-106).                                         *)
THEOREM KeysAreOwned == RespSpec => []XdpKeysOwned
<1>1. RespInit => RespTyped /\ KeysWithoutPin /\ XdpKeysOwned
  BY TypedInit DEF RespInit, KeysWithoutPin, XdpKeysOwned
<1>2. RespTyped /\ KeysWithoutPin /\ XdpKeysOwned /\ [RespNext]_respVars
        => RespTyped' /\ KeysWithoutPin' /\ XdpKeysOwned'
  BY TypedNext, WithoutPinNext, KeysNext
<1>. QED
  BY <1>1, <1>2, PTL DEF RespSpec
=============================================================================
