----------------------------- MODULE RuleEngine -----------------------------
(***************************************************************************)
(* manager/internal/rule_engine/engine.go: signature and threshold rules   *)
(* over packet reports, loaded from a file and reloaded by a watcher when  *)
(* the file changes.  Evaluate holds the engine's mutex over its loop and  *)
(* reads the clock once per threshold rule: each turn of the loop is one   *)
(* step.  What a rule matches is in RuleMatch.                             *)
(***************************************************************************)
EXTENDS RuleMatch, FiniteSets

CONSTANTS
  Ids,         \* rule ids
  Packets,     \* packet reports
  Contents,    \* contents of the rules file that load
  RulesIn,     \* the rules of each, as a sequence
  BadFile,     \* a content that is missing or does not load
  MaxTime,     \* bound on the clock
  MaxEdits,    \* bound on the edits of the file
  MaxCount     \* bound on the packets evaluated

(* A rule: `window` and `packets` are its Threshold, `stateless` says it   *)
(* has none.  Nothing makes ids unique or thresholds positive.             *)
RuleType ==
  [id : Ids, criteria : Criteria, stateless : BOOLEAN, packets : Int,
   window : Int, action : {"BLOCK", "RATE_LIMIT", "ALLOW"}]

ASSUME RulesAssumption ==
  /\ Packets \subseteq PacketType
  /\ RulesIn \in [Contents -> Seq(RuleType)] /\ BadFile \notin Contents
  /\ MaxTime \in Nat /\ MaxEdits \in Nat /\ MaxCount \in Nat

VARIABLES
  now,         \* the clock, whole seconds
  file,        \* the rules file: content and modification time
  loaded,      \* the content re.rules come from; BadFile before the first load
  history,     \* re.history: id -> ip -> timestamps; {} for a missing key.
               \* The code's list is only filtered and measured, so it is a
               \* set of timestamps, each with a number of its own
  evaluating,  \* the Evaluate that holds the mutex: packet, rule index
  verdict,     \* the command the last Evaluate returned, if any
  watching,    \* re.watching
  watcher,     \* where the watcher goroutine is
  lastMod,     \* its lastModTime
  statMod,     \* the modification time its last Stat saw
  loads,       \* ghost: successful loads
  log,         \* ghost: as history, but never pruned
  counted,     \* ghost: packets each rule id counted for each ip
  alarms       \* ghost: times each rule id fired for each ip

ruleVars == <<now, file, loaded, history, evaluating, verdict, watching,
              watcher, lastMod, statMod, loads, log, counted, alarms>>
windowVars == <<history, log, counted, alarms>>
watchVars == <<watching, watcher, lastMod, statMod>>

IPs == {p.src : p \in Packets}
Everywhere(x) == [id \in Ids |-> [ip \in IPs |-> x]]

(* The first LoadRules of NewServer: on an error the engine has no rules   *)
(* and nothing watches the file.                                           *)
RuleInit ==
  /\ now = 0
  /\ \E content \in Contents \cup {BadFile} :
       LET ok == content # BadFile
       IN /\ file = [content |-> content, mtime |-> 0]
          /\ loaded = content
          /\ watching = ok
          /\ watcher = IF ok THEN "starting" ELSE "none"
          /\ loads = IF ok THEN 1 ELSE 0
  /\ history = Everywhere({}) /\ log = Everywhere({})
  /\ counted = Everywhere(0) /\ alarms = Everywhere(0)
  /\ evaluating = {} /\ verdict = {}
  /\ lastMod = 0 /\ statMod = 0

rules == IF loaded = BadFile THEN <<>> ELSE RulesIn[loaded] \* re.rules

Unlocked == evaluating = {}

-----------------------------------------------------------------------------
(* Evaluate *)

(* Bound on the packets counted between two loads.                         *)
MayBegin == \A id \in Ids, ip \in IPs : counted[id][ip] < MaxCount

BeginUnlocked(packet) == \* mutant: no mutex
  /\ MayBegin
  /\ evaluating' = evaluating \cup {[packet |-> packet, i |-> 1]}
  /\ verdict' = {}
  /\ UNCHANGED <<now, file, loaded, windowVars, watchVars, loads>>

(* A stream's Evaluate takes the mutex.                                    *)
Begin(packet) ==
  /\ Unlocked /\ MayBegin
  /\ evaluating' = {[packet |-> packet, i |-> 1]}
  /\ verdict' = {}
  /\ UNCHANGED <<now, file, loaded, windowVars, watchVars, loads>>

Skipped(rule) == ~rule.stateless /\ (rule.packets <= 0 \/ rule.window <= 0)

Match(rule, packet) == MatchCriteria(rule.criteria, packet)

AtRule(e) == e.i \in 1 .. Len(rules)

Goto(e) == evaluating' = {[e EXCEPT !.i = @ + 1]}

Fire(e) ==
  /\ verdict' = {[rule |-> e.i, action |-> rules[e.i].action, target |-> e.packet.src]}
  /\ evaluating' = {}

(* A rule that does not match, or whose threshold is not positive.         *)
RulePasses ==
  \E e \in evaluating :
    /\ AtRule(e)
    /\ ~Match(rules[e.i], e.packet) \/ Skipped(rules[e.i])
    /\ Goto(e)
    /\ UNCHANGED <<now, file, loaded, verdict, windowVars, watchVars, loads>>

RuleStateless ==
  \E e \in evaluating :
    /\ AtRule(e) /\ Match(rules[e.i], e.packet) /\ rules[e.i].stateless
    /\ Fire(e)
    /\ UNCHANGED <<now, file, loaded, windowVars, watchVars, loads>>

NotAfterCutoff(t, cutoff) == t >= cutoff \* mutant
After(t, cutoff) == t > cutoff

(* A packet's timestamp: `n` tells equal ones apart, and the ghost `load`  *)
(* says under which load of the rules it was taken.                        *)
StampType == [at : Nat, n : Nat, load : Nat]
Stamp(id, ip) == [at |-> now, n |-> counted[id][ip], load |-> loads]

(* The timestamp is appended and the old ones are cleared ...              *)
Valid(rule, ip) ==
  {t \in history[rule.id][ip] \cup {Stamp(rule.id, ip)} :
     After(t.at, now - rule.window)}

AfterFireKept(valid) == valid \* mutant: consecutive triggers
AfterFire(valid) == {}

(* ... and when enough are left the rule fires and starts over.            *)
RuleCounts ==
  \E e \in evaluating :
    LET rule == rules[e.i]
        id == rule.id
        ip == e.packet.src
        valid == Valid(rule, ip)
        fires == Cardinality(valid) >= rule.packets
    IN /\ AtRule(e) /\ Match(rule, e.packet)
       /\ ~rule.stateless /\ ~Skipped(rule)
       /\ history' = [history EXCEPT ![id][ip] =
                        IF fires THEN AfterFire(valid) ELSE valid]
       /\ log' = [log EXCEPT ![id][ip] =
                    IF fires THEN {} ELSE @ \cup {Stamp(id, ip)}]
       /\ counted' = [counted EXCEPT ![id][ip] = @ + 1]
       /\ alarms' = [alarms EXCEPT ![id][ip] = IF fires THEN @ + 1 ELSE @]
       /\ IF fires THEN Fire(e) ELSE Goto(e) /\ UNCHANGED verdict
       /\ UNCHANGED <<now, file, loaded, watchVars, loads>>

(* No rule is left: nothing matched.                                       *)
NoMatch ==
  \E e \in evaluating :
    /\ ~AtRule(e)
    /\ evaluating' = {}
    /\ UNCHANGED <<now, file, loaded, verdict, windowVars, watchVars, loads>>

Turn == RulePasses \/ RuleStateless \/ RuleCounts \/ NoMatch

-----------------------------------------------------------------------------
(* Loading and watching *)

NoReset == UNCHANGED windowVars \* mutant: the history outlives the rules
ResetGone == \* mutant: only the history of ids the new file lacks is dropped
  /\ history' = [id \in Ids |->
       IF \E i \in DOMAIN RulesIn[file.content] : RulesIn[file.content][i].id = id
       THEN history[id] ELSE [ip \in IPs |-> {}]]
  /\ log' = Everywhere({})
  /\ counted' = Everywhere(0) /\ alarms' = Everywhere(0)
ResetHistory ==
  /\ history' = Everywhere({}) /\ log' = Everywhere({})
  /\ counted' = Everywhere(0) /\ alarms' = Everywhere(0)

(* LoadRules while the watcher runs: the whole file, under the mutex.      *)
LoadRules ==
  /\ Unlocked
  /\ IF file.content # BadFile
     THEN loaded' = file.content /\ ResetHistory /\ loads' = loads + 1
     ELSE UNCHANGED <<loaded, windowVars, loads>>

(* watchRules: the goroutine's first Stat comes after the load.            *)
WatcherStart ==
  /\ watcher = "starting"
  /\ lastMod' = file.mtime /\ watcher' = "ticking"
  /\ UNCHANGED <<now, file, loaded, windowVars, evaluating, verdict, watching,
                 statMod, loads>>

(* A tick whose Stat sees nothing new.                                     *)
WatcherIdle ==
  /\ watcher = "ticking" /\ file.mtime <= lastMod
  /\ UNCHANGED ruleVars

(* A tick whose Stat sees a later modification time than the last loaded.  *)
WatcherStat ==
  /\ watcher = "ticking" /\ file.mtime > lastMod
  /\ statMod' = file.mtime /\ watcher' = "reload"
  /\ UNCHANGED <<now, file, loaded, windowVars, evaluating, verdict, watching,
                 lastMod, loads>>

(* A load that fails is tried again at the next tick.                      *)
AfterReloadReturn == \* mutant: an error ends the goroutine
  IF file.content # BadFile THEN "ticking" ELSE "none"
AfterReload == "ticking"

WatcherReload ==
  /\ watcher = "reload" /\ LoadRules
  /\ lastMod' = IF file.content # BadFile THEN statMod ELSE lastMod
  /\ watcher' = AfterReload
  /\ UNCHANGED <<now, file, evaluating, verdict, watching, statMod>>

(* Somebody edits the file: every edit has a later modification time.      *)
Edit(content) ==
  /\ file.mtime < MaxEdits
  /\ file' = [content |-> content, mtime |-> file.mtime + 1]
  /\ UNCHANGED <<now, loaded, windowVars, evaluating, verdict, watchVars, loads>>

Tick ==
  /\ now < MaxTime
  /\ now' = now + 1
  /\ UNCHANGED <<file, loaded, windowVars, evaluating, verdict, watchVars, loads>>

-----------------------------------------------------------------------------
RuleNext ==
  \/ \E packet \in Packets : Begin(packet)
  \/ Turn \/ Tick
  \/ WatcherStart \/ WatcherIdle \/ WatcherStat \/ WatcherReload
  \/ \E content \in Contents \cup {BadFile} : Edit(content)

RuleSpec == RuleInit /\ [][RuleNext]_ruleVars

(* Evaluations end; the watcher ticks, and its load gets the mutex although*)
(* packets keep coming (Go's mutex hands over to a waiter that starves).   *)
(* No packet has to come and no edit has to be made.                       *)
RuleFairness ==
  /\ WF_ruleVars(Turn) /\ WF_ruleVars(WatcherStart) /\ WF_ruleVars(WatcherStat)
  /\ SF_ruleVars(WatcherReload)

FairRuleSpec == RuleSpec /\ RuleFairness

-----------------------------------------------------------------------------
(* Properties *)

(* Every variable has its type; the mutex has one holder.                  *)
RuleTypeOK ==
  /\ now \in Nat
  /\ file \in [content : Contents \cup {BadFile}, mtime : Nat]
  /\ loaded \in Contents \cup {BadFile}
  /\ history \in [Ids -> [IPs -> SUBSET StampType]]
  /\ log \in [Ids -> [IPs -> SUBSET StampType]]
  /\ counted \in [Ids -> [IPs -> Nat]] /\ alarms \in [Ids -> [IPs -> Nat]]
  /\ evaluating \subseteq [packet : Packets, i : Nat \ {0}]
  /\ \A e, f \in evaluating : e = f
  /\ verdict \subseteq [rule : Nat, action : {"BLOCK", "RATE_LIMIT", "ALLOW"},
                        target : IPs]
  /\ watching \in BOOLEAN
  /\ watcher \in {"none", "starting", "ticking", "reload"}
  /\ lastMod \in Nat /\ statMod \in Nat /\ loads \in Nat

(* A threshold rule in force whose id no other rule has.                   *)
Counting(i) == ~rules[i].stateless /\ ~Skipped(rules[i])
Sole(i) == \A j \in DOMAIN rules : rules[j].id = rules[i].id => j = i

(* Between packets a rule holds fewer timestamps of an address than it     *)
(* takes to fire: no backlog fires later, not even across a reload that    *)
(* lowers the threshold (engine.go:124-125, 280-290).                      *)
HistoryBounded ==
  \A i \in DOMAIN rules, ip \in IPs :
    Counting(i) /\ Sole(i)
      => Cardinality(history[rules[i].id][ip]) < rules[i].packets

(* Clearing old timestamps at every packet loses nothing that the window   *)
(* should hold: the history is what the whole log since the last alarm has *)
(* within the window of the last packet (engine.go:273-285).               *)
Recent(S, window) == {e \in S : \A f \in S : e.at > f.at - window}
WindowExact ==
  \A i \in DOMAIN rules, ip \in IPs :
    Counting(i) /\ Sole(i)
      => history[rules[i].id][ip] = Recent(log[rules[i].id][ip], rules[i].window)

(* Each alarm costs its own `packets` packets: no packet serves two alarms *)
(* of a rule (engine.go:289-290).                                          *)
AlarmsEarned ==
  \A i \in DOMAIN rules, ip \in IPs :
    LET id == rules[i].id
    IN Counting(i) /\ Sole(i)
         => counted[id][ip] >= rules[i].packets * alarms[id][ip]
                               + Cardinality(history[id][ip])

(* No timestamp outlives a reload: every one was taken under the load that *)
(* is in force, even if the rules before it had the same id, and for a     *)
(* threshold rule of that load (engine.go:124-125, 274-275).               *)
HistoryOfRules ==
  \A id \in Ids, ip \in IPs :
    \A t \in history[id][ip] :
      /\ t.load = loads
      /\ \E i \in DOMAIN rules : rules[i].id = id /\ Counting(i)

(* The first rule in the file's order decides: a packet's command comes    *)
(* from a rule that its author can mean to match it, and no signature that *)
(* is meant to match it comes before that rule, or remains without one     *)
(* (engine.go:136-249, 256-331).  Only a range within a list of ports is   *)
(* left out: such a rule matches less than it says.                        *)
Admits(i, packet) == CriteriaAdmit(rules[i].criteria, packet)
Signatures(packet) ==
  {i \in DOMAIN rules :
     rules[i].stateless /\ PlainCriteria(rules[i].criteria) /\ Admits(i, packet)}
FirstRuleDecides ==
  [][\A e \in evaluating :
       evaluating' = {} =>
         IF verdict' = {} THEN Signatures(e.packet) = {}
         ELSE \A v \in verdict' :
                /\ Admits(v.rule, e.packet) /\ v.target = e.packet.src
                /\ \A i \in Signatures(e.packet) : v.rule <= i]_ruleVars

(* An edit the watcher can see is loaded, or edited again, even when loads *)
(* fail in between (engine.go:72-86).  One that comes before the watcher's *)
(* first Stat (65) it cannot see: that Stat takes it for the loaded one.   *)
Good == file.content # BadFile
EditsLoaded ==
  \A v \in 1 .. MaxEdits :
    (watching /\ watcher # "starting" /\ file.mtime = v /\ lastMod < v /\ Good)
      ~> (loaded = file.content \/ file.mtime # v)
=============================================================================
