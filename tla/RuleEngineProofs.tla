-------------------------- MODULE RuleEngineProofs --------------------------
(* Theorems about RuleEngine, for any rules files, packets, edits of the   *)
(* file and interleaving of evaluations with the watcher.                  *)
EXTENDS RuleEngine, FiniteSetTheorems, SequenceTheorems, TLAPS

-----------------------------------------------------------------------------
(* What a rule matches and what its author can mean *)

(* A power of two is positive: it counts the subsets of a set.             *)
LEMMA PowerPositive ==
  ASSUME NEW k \in Nat
  PROVE  2 ^ k \in Nat \ {0}
<1>1. IsFiniteSet(1 .. k) /\ Cardinality(1 .. k) = k
  BY FS_Interval
<1>2. IsFiniteSet(SUBSET (1 .. k)) /\ Cardinality(SUBSET (1 .. k)) = 2 ^ k
  BY <1>1, FS_SUBSET
<1>3. Cardinality(SUBSET (1 .. k)) \in Nat /\ Cardinality(SUBSET (1 .. k)) # 0
  BY <1>2, FS_CardinalityType, FS_EmptySet
<1>. QED
  BY <1>2, <1>3

(* Two addresses are in one network of s addresses when one is in the      *)
(* block of s numbers around the other.                                    *)
LEMMA SameNetwork ==
  ASSUME NEW x \in Nat, NEW a \in Nat, NEW s \in Nat \ {0}
  PROVE  x \div s = a \div s
           <=> x \in (a - (a % s)) .. ((a - (a % s)) + s - 1)
<1>1. /\ x \div s \in Nat /\ x % s \in 0 .. s - 1 /\ x = s * (x \div s) + (x % s)
      /\ a \div s \in Nat /\ a % s \in 0 .. s - 1 /\ a = s * (a \div s) + (a % s)
  OBVIOUS
<1>. QED
  BY <1>1

(* matchIP matches the addresses that a criterion names, and no others.    *)
LEMMA AddressMatch ==
  ASSUME NEW c \in AddressCriterion, NEW ip \in Address
  PROVE  matchIP(c, ip) <=> ip \in AddressesNamed(c)
<1>1. /\ c.address \in Address /\ c.prefix \in -1 .. Bits /\ Bits \in Nat
      /\ c.address.family = "text" => c.prefix = -1
      /\ c.address.n \in Nat /\ ip.n \in Nat
      /\ ip = [family |-> ip.family, n |-> ip.n]
  BY MatchAssumption DEF AddressCriterion, Address, MatchAssumption
<1>2. CASE c.address = NoText
  BY <1>2 DEF matchIP, AddressesNamed
<1>3. CASE c.address # NoText /\ c.prefix < 0
  <2>1. ~ (c.prefix >= 0)
    BY <1>1, <1>3
  <2>. QED
    BY <1>3, <2>1 DEF matchIP, AddressesNamed
<1>4. CASE c.address # NoText /\ c.prefix >= 0
  <2>. DEFINE s == 2 ^ (Bits - c.prefix)
              a == c.address.n
              first == a - (a % s)
  <2>1. s \in Nat \ {0} /\ ~ (c.prefix < 0)
    <3>1. Bits - c.prefix \in Nat /\ ~ (c.prefix < 0)
      BY <1>1, <1>4
    <3>. QED
      BY <3>1, PowerPositive
  <2>2. AddressesNamed(c) = {[family |-> c.address.family, n |-> n] : n \in first .. first + s - 1}
    BY <1>4, <2>1 DEF AddressesNamed
  <2>. HIDE DEF s
  <2>3. ip.n \div s = a \div s <=> ip.n \in first .. first + s - 1
    BY <1>1, <2>1, SameNetwork
  <2>4. c.address.family # "text" /\ NoText.family = "text"
    BY <1>1, <1>4 DEF NoText
  <2>5. ip \in AddressesNamed(c)
          <=> ip.family = c.address.family /\ ip.n \in first .. first + s - 1
    <3>. HIDE DEF first
    <3>. QED
      BY <1>1, <2>2
  <2>6. matchIP(c, ip) <=> ip.family = c.address.family /\ ip.n \div s = a \div s
    <3>1. ip.family = c.address.family => ip # NoText
      BY <2>4
    <3>2. c.prefix >= 0 /\ ~ (c.prefix < 0)
      BY <1>4, <2>1
    <3>. QED
      BY <1>4, <3>1, <3>2 DEF matchIP, Net, s
  <2>. HIDE DEF first
  <2>. HIDE DEF a
  <2>. QED
    BY <2>3, <2>5, <2>6
<1>. QED
  BY <1>1, <1>2, <1>3, <1>4

(* matchPort only matches ports that the criterion names ...               *)
LEMMA PortMatchSound ==
  ASSUME NEW rulePort \in Int, NEW text \in PortText, NEW port \in Nat,
         matchPort(rulePort, text, port)
  PROVE  port \in PortsNamed(rulePort, text)
<1>1. \A i \in DOMAIN text : text[i] \in Seq(Nat \cup {NaN}) /\ i \in 1 .. Len(text)
  BY DEF PortText
<1>2. CASE rulePort # 0 \/ text = <<>>
  <2>1. rulePort = 0 => \A i \in DOMAIN text : FALSE
    BY <1>2
  <2>. QED
    BY <1>2, <2>1 DEF matchPort, PortsNamed
<1>3. CASE rulePort = 0 /\ text # <<>>
  <2>1. SUFFICES \E i \in DOMAIN text : port \in NumbersNamed(text[i])
    BY <1>3 DEF PortsNamed
  <2>2. CASE \E i \in DOMAIN text : text[i] = <<port>>
    <3>1. PICK i \in DOMAIN text : text[i] = <<port>>
      BY <2>2
    <3>2. Len(<<port>>) = 1 /\ <<port>>[1] = port /\ DOMAIN <<port>> = {1} /\ NaN # port
      BY DEF NaN
    <3>3. port \in NumbersNamed(<<port>>)
      BY <3>2 DEF NumbersNamed
    <3>. QED
      BY <3>1, <3>3
  <2>3. CASE Len(text) = 1 /\ InRange(text[1], port)
    <3>1. 1 \in DOMAIN text /\ text[1] \in Seq(Nat \cup {NaN})
      BY <1>1, <2>3 DEF PortText
    <3>2. /\ Len(text[1]) = 2 /\ NaN \notin {text[1][1], text[1][2]}
          /\ text[1][1] <= port /\ port <= text[1][2]
      BY <2>3 DEF InRange
    <3>3. DOMAIN text[1] = {1, 2}
      BY <3>1, <3>2
    <3>4. text[1][1] \in Nat /\ text[1][2] \in Nat
      BY <3>1, <3>2, <3>3
    <3>5. NaN \notin {text[1][i] : i \in DOMAIN text[1]}
      BY <3>2, <3>3
    <3>6. NumbersNamed(text[1]) = text[1][1] .. text[1][2]
      BY <3>2, <3>5 DEF NumbersNamed
    <3>. QED
      BY <3>1, <3>2, <3>4, <3>6
  <2>. QED
    BY <1>3, <2>2, <2>3 DEF matchPort
<1>. QED
  BY <1>2, <1>3

(* ... and all of them, unless a range is part of a list.                  *)
LEMMA PortMatchComplete ==
  ASSUME NEW rulePort \in Int, NEW text \in PortText, NEW port \in Nat, Plain(text),
         port \in PortsNamed(rulePort, text)
  PROVE  matchPort(rulePort, text, port)
<1>1. CASE rulePort # 0 \/ text = <<>>
  BY <1>1 DEF matchPort, PortsNamed
<1>2. CASE rulePort = 0 /\ text # <<>>
  <2>1. PICK i \in DOMAIN text : port \in NumbersNamed(text[i])
    BY <1>2 DEF PortsNamed
  <2>2. text[i] \in Seq(Nat \cup {NaN}) /\ i \in 1 .. Len(text) /\ Len(text) \in Nat
    BY DEF PortText
  <2>3. NaN \notin {text[i][j] : j \in DOMAIN text[i]} /\ Len(text[i]) \in {1, 2}
    BY <2>1, Zenon DEF NumbersNamed
  <2>4. CASE Len(text[i]) = 1
    <3>1. NumbersNamed(text[i]) = text[i][1] .. text[i][1]
      BY <2>3, <2>4 DEF NumbersNamed
    <3>2. text[i] = <<port>>
      <4>1. text[i][1] = port
        <5>1. 1 \in 1 .. Len(text[i])
          BY <2>4
        <5>2. text[i][1] \in Nat \cup {NaN}
          BY <2>2, <5>1, ElementOfSeq
        <5>3. text[i][1] \in Int
          BY <5>2 DEF NaN
        <5>. QED
          BY <2>1, <3>1, <5>3
      <4>2. <<port>> \in Seq(Nat \cup {NaN}) /\ Len(<<port>>) = 1 /\ <<port>>[1] = port
        OBVIOUS
      <4>. QED
        BY <2>2, <2>4, <4>1, <4>2, SeqEqual
    <3>. QED
      BY <1>2, <3>2 DEF matchPort
  <2>5. CASE Len(text[i]) = 2
    <3>1. NumbersNamed(text[i]) = text[i][1] .. text[i][2]
      BY <2>3, <2>5 DEF NumbersNamed
    <3>2. DOMAIN text[i] = {1, 2}
      BY <2>2, <2>5
    <3>3. text[i][1] # NaN /\ text[i][2] # NaN
      BY <2>3, <3>2
    <3>4. text[i][1] \in Nat /\ text[i][2] \in Nat
      <4>1. 1 \in 1 .. Len(text[i]) /\ 2 \in 1 .. Len(text[i])
        BY <2>5
      <4>2. text[i][1] \in Nat \cup {NaN} /\ text[i][2] \in Nat \cup {NaN}
        BY <2>2, <4>1, ElementOfSeq
      <4>. QED
        BY <3>3, <4>2
    <3>5. Len(text) = 1 /\ i = 1
      <4>1. ~ (Len(text) > 1)
        <5>1. Len(text[i]) # 1
          BY <2>5
        <5>. QED
          BY <5>1, Zenon DEF Plain
      <4>2. \A n \in Nat : i \in 1 .. n /\ ~ (n > 1) => n = 1 /\ i = 1
        OBVIOUS
      <4>. QED
        BY <2>2, <4>1, <4>2
    <3>6. InRange(text[1], port)
      BY <2>1, <2>5, <3>1, <3>3, <3>4, <3>5 DEF InRange
    <3>. QED
      BY <1>2, <3>5, <3>6 DEF matchPort
  <2>. QED
    BY <2>3, <2>4, <2>5
<1>. QED
  BY <1>1, <1>2

(* A rule matches only what its author can mean, and all of it if it has   *)
(* no range within a list of ports (engine.go:136-249).                    *)
LEMMA MatchMeansAdmit ==
  ASSUME NEW c \in Criteria, NEW p \in PacketType
  PROVE  /\ MatchCriteria(c, p) => CriteriaAdmit(c, p)
         /\ PlainCriteria(c) /\ CriteriaAdmit(c, p) => MatchCriteria(c, p)
<1>1. /\ c.src \in AddressCriterion /\ c.dst \in AddressCriterion
      /\ c.srcPort \in Int /\ c.dstPort \in Int
      /\ c.srcPortRange \in PortText /\ c.dstPortRange \in PortText
  BY DEF Criteria
<1>2. /\ p.src \in Address /\ p.dst \in Address /\ p.srcPort \in Nat /\ p.dstPort \in Nat
  BY DEF PacketType
<1>3. /\ matchIP(c.src, p.src) <=> p.src \in AddressesNamed(c.src)
      /\ matchIP(c.dst, p.dst) <=> p.dst \in AddressesNamed(c.dst)
  BY <1>1, <1>2, AddressMatch
<1>4. /\ matchPort(c.srcPort, c.srcPortRange, p.srcPort)
           => p.srcPort \in PortsNamed(c.srcPort, c.srcPortRange)
      /\ matchPort(c.dstPort, c.dstPortRange, p.dstPort)
           => p.dstPort \in PortsNamed(c.dstPort, c.dstPortRange)
  BY <1>1, <1>2, PortMatchSound
<1>5. ASSUME PlainCriteria(c)
      PROVE  /\ p.srcPort \in PortsNamed(c.srcPort, c.srcPortRange)
                  => matchPort(c.srcPort, c.srcPortRange, p.srcPort)
             /\ p.dstPort \in PortsNamed(c.dstPort, c.dstPortRange)
                  => matchPort(c.dstPort, c.dstPortRange, p.dstPort)
  BY <1>1, <1>2, <1>5, PortMatchComplete DEF PlainCriteria
<1>6. (\A pattern \in {c.hex, c.string, c.regex} : matchPattern(pattern, p.payload))
        <=> {c.hex, c.string, c.regex} \ {Unset} \subseteq p.payload
  BY DEF matchPattern
<1>7. c.protocol \in {Unset, p.protocol} <=> (c.protocol # Unset => c.protocol = p.protocol)
  OBVIOUS
<1>. QED
  BY <1>3, <1>4, <1>5, <1>6, <1>7 DEF MatchCriteria, CriteriaAdmit

-----------------------------------------------------------------------------
(* Types *)

(* A table of tables with one entry changed.                               *)
LEMMA EntryChanged ==
  ASSUME NEW S, NEW T, NEW V, NEW f \in [S -> [T -> V]], NEW a \in S, NEW b \in T, NEW v \in V
  PROVE  /\ [f EXCEPT ![a][b] = v] \in [S -> [T -> V]]
         /\ [f EXCEPT ![a][b] = v][a][b] = v
         /\ \A j \in S, k \in T : (j # a \/ k # b) => [f EXCEPT ![a][b] = v][j][k] = f[j][k]
<1>1. f[a] \in [T -> V] /\ [f[a] EXCEPT ![b] = v] \in [T -> V]
  OBVIOUS
<1>2. [f EXCEPT ![a][b] = v] = [f EXCEPT ![a] = [f[a] EXCEPT ![b] = v]]
  OBVIOUS
<1>. QED
  BY <1>1, <1>2

(* The constants, and the rules in force.                                  *)
LEMMA RulesTyped ==
  ASSUME RuleTypeOK
  PROVE  /\ rules \in Seq(RuleType) /\ DOMAIN rules = 1 .. Len(rules) /\ Len(rules) \in Nat
         /\ \A i \in DOMAIN rules :
              /\ rules[i] \in RuleType /\ rules[i].id \in Ids /\ rules[i].packets \in Int
              /\ rules[i].window \in Int /\ rules[i].stateless \in BOOLEAN
              /\ rules[i].criteria \in Criteria
              /\ rules[i].action \in {"BLOCK", "RATE_LIMIT", "ALLOW"}
<1>1. rules \in Seq(RuleType)
  BY RulesAssumption DEF RulesAssumption, RuleTypeOK, rules
<1>. HIDE DEF rules
<1>2. DOMAIN rules = 1 .. Len(rules) /\ Len(rules) \in Nat
  BY <1>1
<1>3. \A i \in DOMAIN rules : rules[i] \in RuleType
  BY <1>1, <1>2, ElementOfSeq
<1>. QED
  BY <1>1, <1>2, <1>3 DEF RuleType

LEMMA EvaluatedTyped ==
  ASSUME RuleTypeOK, NEW e \in evaluating
  PROVE  /\ evaluating = {e} /\ e.i \in Nat \ {0} /\ e.packet \in PacketType
         /\ e.packet \in Packets /\ e.packet.src \in IPs
         /\ AtRule(e) => e.i \in DOMAIN rules
<1>1. evaluating = {e} /\ e.i \in Nat \ {0} /\ e.packet \in Packets
  BY DEF RuleTypeOK
<1>2. e.packet \in PacketType /\ e.packet.src \in IPs
  BY <1>1, RulesAssumption DEF RulesAssumption, IPs
<1>. QED
  BY <1>1, <1>2, RulesTyped DEF AtRule

(* One packet of ip counted by the i-th rule, entry by entry.              *)
Counted(i, ip) ==
  LET id == rules[i].id
      valid == Valid(rules[i], ip)
      stamp == Stamp(id, ip)
  IN /\ Counting(i) /\ UNCHANGED <<loaded, now, loads>>
     /\ history' \in [Ids -> [IPs -> SUBSET StampType]]
     /\ log' \in [Ids -> [IPs -> SUBSET StampType]]
     /\ counted' \in [Ids -> [IPs -> Nat]] /\ alarms' \in [Ids -> [IPs -> Nat]]
     /\ \A j \in Ids, k \in IPs : (j # id \/ k # ip) =>
          /\ history'[j][k] = history[j][k] /\ log'[j][k] = log[j][k]
          /\ counted'[j][k] = counted[j][k] /\ alarms'[j][k] = alarms[j][k]
     /\ counted'[id][ip] = counted[id][ip] + 1
     /\ \/ /\ Cardinality(valid) >= rules[i].packets
           /\ history'[id][ip] = {} /\ log'[id][ip] = {}
           /\ alarms'[id][ip] = alarms[id][ip] + 1
        \/ /\ ~ (Cardinality(valid) >= rules[i].packets)
           /\ history'[id][ip] = valid
           /\ log'[id][ip] = log[id][ip] \cup {stamp}
           /\ alarms'[id][ip] = alarms[id][ip]

LEMMA CountEffect ==
  ASSUME RuleTypeOK, RuleCounts
  PROVE  \E i \in DOMAIN rules, ip \in IPs : Counted(i, ip)
<1>1. PICK e \in evaluating :
        LET rule == rules[e.i]
            id == rule.id
            ip == e.packet.src
            valid == Valid(rule, ip)
            fires == Cardinality(valid) >= rule.packets
            stamp == Stamp(id, ip)
        IN /\ AtRule(e) /\ ~rule.stateless /\ ~Skipped(rule)
           /\ history' = [history EXCEPT ![id][ip] =
                            IF fires THEN AfterFire(valid) ELSE valid]
           /\ log' = [log EXCEPT ![id][ip] =
                        IF fires THEN {} ELSE log[id][ip] \cup {stamp}]
           /\ counted' = [counted EXCEPT ![id][ip] = counted[id][ip] + 1]
           /\ alarms' = [alarms EXCEPT ![id][ip] =
                           IF fires THEN alarms[id][ip] + 1 ELSE alarms[id][ip]]
           /\ UNCHANGED <<loaded, now, loads>>
  BY DEF RuleCounts
<1>. DEFINE i == e.i
            ip == e.packet.src
            id == rules[i].id
            valid == Valid(rules[i], ip)
            fires == Cardinality(valid) >= rules[i].packets
            stamp == Stamp(id, ip)
<1>2. i \in DOMAIN rules /\ id \in Ids /\ ip \in IPs /\ Counting(i)
  BY <1>1, EvaluatedTyped, RulesTyped DEF Counting
<1>3. /\ stamp \in StampType /\ history[id][ip] \in SUBSET StampType
      /\ log[id][ip] \in SUBSET StampType
      /\ counted[id][ip] \in Nat /\ alarms[id][ip] \in Nat
  BY <1>2 DEF RuleTypeOK, StampType, Stamp
<1>4. valid \in SUBSET StampType /\ AfterFire(valid) = {}
  BY <1>3 DEF Valid, AfterFire
<1>. DEFINE h == IF fires THEN AfterFire(valid) ELSE valid
            l == IF fires THEN {} ELSE log[id][ip] \cup {stamp}
            a == IF fires THEN alarms[id][ip] + 1 ELSE alarms[id][ip]
<1>5. h \in SUBSET StampType /\ l \in SUBSET StampType /\ a \in Nat
      /\ counted[id][ip] + 1 \in Nat
  BY <1>3, <1>4
<1>6. /\ history' = [history EXCEPT ![id][ip] = h] /\ log' = [log EXCEPT ![id][ip] = l]
      /\ counted' = [counted EXCEPT ![id][ip] = counted[id][ip] + 1]
      /\ alarms' = [alarms EXCEPT ![id][ip] = a] /\ UNCHANGED <<loaded, now, loads>>
  BY <1>1, Zenon
<1>7. (fires /\ h = {} /\ l = {} /\ a = alarms[id][ip] + 1)
      \/ (~fires /\ h = valid /\ l = log[id][ip] \cup {stamp} /\ a = alarms[id][ip])
  BY <1>4
<1>8. /\ history \in [Ids -> [IPs -> SUBSET StampType]]
      /\ log \in [Ids -> [IPs -> SUBSET StampType]]
      /\ counted \in [Ids -> [IPs -> Nat]] /\ alarms \in [Ids -> [IPs -> Nat]]
  BY DEF RuleTypeOK
<1>. HIDE DEF i, ip, id, valid, fires, stamp, h, l, a
<1>9. /\ history' \in [Ids -> [IPs -> SUBSET StampType]] /\ history'[id][ip] = h
      /\ \A j \in Ids, k \in IPs : (j # id \/ k # ip) => history'[j][k] = history[j][k]
  BY <1>2, <1>5, <1>6, <1>8, EntryChanged
<1>10. /\ log' \in [Ids -> [IPs -> SUBSET StampType]] /\ log'[id][ip] = l
       /\ \A j \in Ids, k \in IPs : (j # id \/ k # ip) => log'[j][k] = log[j][k]
  BY <1>2, <1>5, <1>6, <1>8, EntryChanged
<1>11. /\ counted' \in [Ids -> [IPs -> Nat]] /\ counted'[id][ip] = counted[id][ip] + 1
       /\ \A j \in Ids, k \in IPs : (j # id \/ k # ip) => counted'[j][k] = counted[j][k]
  BY <1>2, <1>5, <1>6, <1>8, EntryChanged
<1>12. /\ alarms' \in [Ids -> [IPs -> Nat]] /\ alarms'[id][ip] = a
       /\ \A j \in Ids, k \in IPs : (j # id \/ k # ip) => alarms'[j][k] = alarms[j][k]
  BY <1>2, <1>5, <1>6, <1>8, EntryChanged
<1>13. \/ /\ Cardinality(valid) >= rules[i].packets
          /\ history'[id][ip] = {} /\ log'[id][ip] = {}
          /\ alarms'[id][ip] = alarms[id][ip] + 1
       \/ /\ ~ (Cardinality(valid) >= rules[i].packets)
          /\ history'[id][ip] = valid
          /\ log'[id][ip] = log[id][ip] \cup {stamp}
          /\ alarms'[id][ip] = alarms[id][ip]
  BY <1>7, <1>9, <1>10, <1>12, Zenon DEF fires
<1>14. \A j \in Ids, k \in IPs : (j # id \/ k # ip) =>
         /\ history'[j][k] = history[j][k] /\ log'[j][k] = log[j][k]
         /\ counted'[j][k] = counted[j][k] /\ alarms'[j][k] = alarms[j][k]
  BY <1>9, <1>10, <1>11, <1>12, Zenon
<1>15. Counted(i, ip)
  BY <1>2, <1>6, <1>9, <1>10, <1>11, <1>12, <1>13, <1>14, Zenon
     DEF Counted, id, valid, stamp
<1>. QED
  BY <1>2, <1>15, Zenon

(* What Fire and Goto leave in the evaluation and its verdict.             *)
LEMMA FireType ==
  ASSUME RuleTypeOK, NEW e \in evaluating, AtRule(e), Fire(e)
  PROVE  /\ evaluating' \subseteq [packet : Packets, i : Nat \ {0}]
         /\ \A f, g \in evaluating' : f = g
         /\ verdict' \subseteq [rule : Nat, action : {"BLOCK", "RATE_LIMIT", "ALLOW"},
                                target : IPs]
<1>1. e.i \in Nat /\ e.packet.src \in IPs
      /\ rules[e.i].action \in {"BLOCK", "RATE_LIMIT", "ALLOW"}
  BY EvaluatedTyped, RulesTyped
<1>. QED
  BY <1>1 DEF Fire

LEMMA GotoType ==
  ASSUME RuleTypeOK, NEW e \in evaluating, Goto(e)
  PROVE  /\ evaluating' = {[packet |-> e.packet, i |-> e.i + 1]}
         /\ evaluating' \subseteq [packet : Packets, i : Nat \ {0}]
         /\ \A f, g \in evaluating' : f = g
<1>1. e = [packet |-> e.packet, i |-> e.i] /\ e.i \in Nat \ {0} /\ e.packet \in Packets
  BY DEF RuleTypeOK
<1>. QED
  BY <1>1 DEF Goto

LEMMA TypeEvaluation ==
  ASSUME RuleTypeOK,
         \/ \E packet \in Packets : Begin(packet)
         \/ RulePasses \/ RuleStateless \/ NoMatch
  PROVE  RuleTypeOK'
<1>1. UNCHANGED <<now, file, loaded, windowVars, watchVars, loads>>
  BY DEF Begin, RulePasses, RuleStateless, NoMatch
<1>2. CASE \E packet \in Packets : Begin(packet)
  BY <1>1, <1>2 DEF Begin, windowVars, watchVars, RuleTypeOK
<1>3. CASE RulePasses
  <2>1. /\ evaluating' \subseteq [packet : Packets, i : Nat \ {0}]
        /\ \A f, g \in evaluating' : f = g
        /\ verdict' = verdict
    BY <1>3, GotoType DEF RulePasses
  <2>. QED
    BY <1>1, <2>1 DEF windowVars, watchVars, RuleTypeOK
<1>4. CASE RuleStateless
  <2>1. /\ evaluating' \subseteq [packet : Packets, i : Nat \ {0}]
        /\ \A f, g \in evaluating' : f = g
        /\ verdict' \subseteq [rule : Nat, action : {"BLOCK", "RATE_LIMIT", "ALLOW"},
                               target : IPs]
    BY <1>4, FireType DEF RuleStateless
  <2>. QED
    BY <1>1, <2>1 DEF windowVars, watchVars, RuleTypeOK
<1>5. CASE NoMatch
  BY <1>1, <1>5 DEF NoMatch, windowVars, watchVars, RuleTypeOK
<1>. QED
  BY <1>2, <1>3, <1>4, <1>5

LEMMA TypeRuleCounts ==
  ASSUME RuleTypeOK, RuleCounts
  PROVE  RuleTypeOK'
<1>1. PICK e \in evaluating : /\ AtRule(e) /\ (Fire(e) \/ (Goto(e) /\ UNCHANGED verdict))
                              /\ UNCHANGED <<now, file, loaded, watchVars, loads>>
  BY DEF RuleCounts
<1>2. /\ history' \in [Ids -> [IPs -> SUBSET StampType]]
      /\ log' \in [Ids -> [IPs -> SUBSET StampType]]
      /\ counted' \in [Ids -> [IPs -> Nat]] /\ alarms' \in [Ids -> [IPs -> Nat]]
  BY CountEffect DEF Counted
<1>3. /\ evaluating' \subseteq [packet : Packets, i : Nat \ {0}]
      /\ \A f, g \in evaluating' : f = g
      /\ verdict' \subseteq [rule : Nat, action : {"BLOCK", "RATE_LIMIT", "ALLOW"},
                             target : IPs]
  BY <1>1, FireType, GotoType DEF RuleTypeOK
<1>. QED
  BY <1>1, <1>2, <1>3 DEF watchVars, RuleTypeOK

(* The watcher, the file and the clock.                                    *)
LEMMA TypeOutside ==
  ASSUME RuleTypeOK,
         \/ Tick \/ WatcherStart \/ WatcherIdle \/ WatcherStat \/ WatcherReload
         \/ \E content \in Contents \cup {BadFile} : Edit(content)
         \/ UNCHANGED ruleVars
  PROVE  RuleTypeOK'
<1>1. CASE WatcherIdle \/ UNCHANGED ruleVars
  BY <1>1 DEF WatcherIdle, ruleVars, windowVars, watchVars, RuleTypeOK
<1>2. CASE Tick
  BY <1>2 DEF Tick, windowVars, watchVars, RuleTypeOK
<1>3. CASE WatcherStart
  BY <1>3 DEF WatcherStart, windowVars, watchVars, RuleTypeOK
<1>4. CASE WatcherStat
  BY <1>4 DEF WatcherStat, windowVars, watchVars, RuleTypeOK
<1>5. CASE \E content \in Contents \cup {BadFile} : Edit(content)
  <2>1. /\ file' \in [content : Contents \cup {BadFile}, mtime : Nat]
        /\ UNCHANGED <<now, loaded, windowVars, evaluating, verdict, watchVars, loads>>
    BY <1>5 DEF Edit, RuleTypeOK
  <2>. QED
    BY <2>1 DEF windowVars, watchVars, RuleTypeOK
<1>6. CASE WatcherReload
  <2>1. /\ history' \in [Ids -> [IPs -> SUBSET StampType]]
        /\ log' \in [Ids -> [IPs -> SUBSET StampType]]
        /\ counted' \in [Ids -> [IPs -> Nat]] /\ alarms' \in [Ids -> [IPs -> Nat]]
    BY <1>6 DEF WatcherReload, LoadRules, ResetHistory, Everywhere, windowVars, RuleTypeOK
  <2>2. loaded' \in Contents \cup {BadFile} /\ loads' \in Nat
    BY <1>6 DEF WatcherReload, LoadRules, RuleTypeOK
  <2>3. watcher' \in {"none", "starting", "ticking", "reload"} /\ lastMod' \in Nat
    BY <1>6 DEF WatcherReload, AfterReload, RuleTypeOK
  <2>4. UNCHANGED <<now, file, evaluating, verdict, watching, statMod>>
    BY <1>6 DEF WatcherReload
  <2>. QED
    BY <2>1, <2>2, <2>3, <2>4 DEF RuleTypeOK
<1>. QED
  BY <1>1, <1>2, <1>3, <1>4, <1>5, <1>6

LEMMA TypeInit ==
  ASSUME RuleInit
  PROVE  RuleTypeOK
<1>1. PICK content \in Contents \cup {BadFile} :
        /\ file = [content |-> content, mtime |-> 0] /\ loaded = content
        /\ watching = (content # BadFile)
        /\ watcher = IF content # BadFile THEN "starting" ELSE "none"
        /\ loads = IF content # BadFile THEN 1 ELSE 0
  BY Zenon DEF RuleInit
<1>2. watching \in BOOLEAN
  BY <1>1, Zenon
<1>3. /\ watcher \in {"none", "starting", "ticking", "reload"} /\ loads \in Nat
      /\ file \in [content : Contents \cup {BadFile}, mtime : Nat]
      /\ loaded \in Contents \cup {BadFile}
  BY <1>1
<1>4. /\ history \in [Ids -> [IPs -> SUBSET StampType]]
      /\ log \in [Ids -> [IPs -> SUBSET StampType]]
      /\ counted \in [Ids -> [IPs -> Nat]] /\ alarms \in [Ids -> [IPs -> Nat]]
  BY DEF RuleInit, Everywhere
<1>5. now = 0 /\ evaluating = {} /\ verdict = {} /\ lastMod = 0 /\ statMod = 0
  BY DEF RuleInit
<1>. QED
  BY <1>2, <1>3, <1>4, <1>5 DEF RuleTypeOK

LEMMA TypeNext ==
  ASSUME RuleTypeOK, [RuleNext]_ruleVars
  PROVE  RuleTypeOK'
BY TypeEvaluation, TypeRuleCounts, TypeOutside DEF RuleNext, Turn

(* Every variable keeps its type, and the mutex has one holder at a time   *)
(* (engine.go:109-134, 256-331).                                           *)
THEOREM RuleTypes == RuleSpec => []RuleTypeOK
BY TypeInit, TypeNext, PTL DEF RuleSpec

-----------------------------------------------------------------------------
(* The timestamps *)

(* What the proofs need besides: timestamps are finitely many and none is  *)
(* of the future.                                                          *)
Stamped ==
  \A id \in Ids, ip \in IPs :
    IsFiniteSet(history[id][ip]) /\ \A t \in log[id][ip] : t.at <= now

(* A step leaves the windows and the rules alone, counts one packet, or    *)
(* loads rules and forgets.                                                *)
LEMMA WindowSteps ==
  ASSUME RuleTypeOK, [RuleNext]_ruleVars
  PROVE  \/ UNCHANGED <<windowVars, loaded, loads>> /\ now' \in {now, now + 1}
         \/ \E i \in DOMAIN rules, ip \in IPs : Counted(i, ip)
         \/ ResetHistory
<1>1. CASE RuleCounts
  BY <1>1, CountEffect
<1>2. CASE WatcherReload
  BY <1>2 DEF WatcherReload, LoadRules
<1>3. CASE ~RuleCounts /\ ~WatcherReload
  BY <1>3 DEF RuleNext, Turn, Begin, RulePasses, RuleStateless, NoMatch, Tick, WatcherStart,
     WatcherIdle, WatcherStat, Edit, ruleVars, windowVars
<1>. QED
  BY <1>1, <1>2, <1>3

LEMMA SameRules ==
  ASSUME UNCHANGED loaded
  PROVE  /\ rules' = rules
         /\ \A i : (Counting(i)' <=> Counting(i)) /\ (Sole(i)' <=> Sole(i))
BY DEF rules, Counting, Sole, Skipped

(* A rule with an id of its own is counted for, or sees nothing.           *)
LEMMA CountedRule ==
  ASSUME RuleTypeOK, NEW j \in DOMAIN rules, NEW k \in IPs, Counted(j, k),
         NEW i \in DOMAIN rules, NEW ip \in IPs, Sole(i)
  PROVE  \/ i = j /\ ip = k
         \/ /\ history'[rules[i].id][ip] = history[rules[i].id][ip]
            /\ log'[rules[i].id][ip] = log[rules[i].id][ip]
            /\ counted'[rules[i].id][ip] = counted[rules[i].id][ip]
            /\ alarms'[rules[i].id][ip] = alarms[rules[i].id][ip]
<1>1. rules[i].id \in Ids /\ (rules[j].id = rules[i].id => i = j)
  BY RulesTyped DEF Sole
<1>2. \A a \in Ids, b \in IPs : (a # rules[j].id \/ b # k) =>
        /\ history'[a][b] = history[a][b] /\ log'[a][b] = log[a][b]
        /\ counted'[a][b] = counted[a][b] /\ alarms'[a][b] = alarms[a][b]
  BY Zenon DEF Counted
<1>. QED
  BY <1>1, <1>2

LEMMA EverywhereAt ==
  ASSUME NEW x, NEW id \in Ids, NEW ip \in IPs
  PROVE  Everywhere(x)[id][ip] = x
BY DEF Everywhere

(* What is left of the window is finite, and at most one more than before. *)
LEMMA ValidSize ==
  ASSUME RuleTypeOK, Stamped, NEW i \in DOMAIN rules, NEW ip \in IPs
  PROVE  LET h == history[rules[i].id][ip]
             valid == Valid(rules[i], ip)
         IN /\ IsFiniteSet(h) /\ IsFiniteSet(valid)
            /\ Cardinality(h) \in Nat /\ Cardinality(valid) \in Nat
            /\ Cardinality(valid) <= Cardinality(h) + 1
<1>. DEFINE h == history[rules[i].id][ip]
            valid == Valid(rules[i], ip)
            x == Stamp(rules[i].id, ip)
<1>1. rules[i].id \in Ids
  BY RulesTyped
<1>2. IsFiniteSet(h) /\ valid \subseteq h \cup {x}
  BY <1>1 DEF Stamped, Valid
<1>. HIDE DEF h, valid, x
<1>3. IsFiniteSet(h \cup {x}) /\ Cardinality(h) \in Nat
      /\ Cardinality(h \cup {x}) \in {Cardinality(h), Cardinality(h) + 1}
  BY <1>2, FS_AddElement, FS_CardinalityType
<1>4. IsFiniteSet(valid) /\ Cardinality(valid) \in Nat
      /\ Cardinality(valid) <= Cardinality(h \cup {x})
  BY <1>2, <1>3, FS_Subset, FS_CardinalityType
<1>5. Cardinality(valid) <= Cardinality(h) + 1
  BY <1>3, <1>4
<1>. QED
  BY <1>2, <1>3, <1>4, <1>5 DEF h, valid

LEMMA StampedNext ==
  ASSUME RuleTypeOK, Stamped, [RuleNext]_ruleVars
  PROVE  Stamped'
<1>1. CASE UNCHANGED <<windowVars, loaded>> /\ now' \in {now, now + 1}
  <2>1. /\ \A id \in Ids, ip \in IPs : \A t \in log[id][ip] : t.at \in Nat /\ t.at <= now
        /\ now \in Nat
    BY DEF Stamped, RuleTypeOK, StampType
  <2>2. \A id \in Ids, ip \in IPs : \A t \in log[id][ip] : t.at <= now + 1
    BY <2>1
  <2>. QED
    BY <1>1, <2>1, <2>2 DEF Stamped, windowVars
<1>2. CASE \E i \in DOMAIN rules, ip \in IPs : Counted(i, ip)
  <2>1. PICK i \in DOMAIN rules, ip \in IPs : Counted(i, ip)
    BY <1>2
  <2>2. now' = now /\ now \in Nat
    BY <2>1 DEF Counted, RuleTypeOK
  <2>3. SUFFICES ASSUME NEW a \in Ids, NEW b \in IPs
                 PROVE  IsFiniteSet(history'[a][b]) /\ \A t \in log'[a][b] : t.at <= now
    BY <2>2 DEF Stamped
  <2>4. IsFiniteSet(history[a][b]) /\ \A t \in log[a][b] : t.at <= now
    BY DEF Stamped
  <2>5. CASE a # rules[i].id \/ b # ip
    <3>1. history'[a][b] = history[a][b] /\ log'[a][b] = log[a][b]
      BY <2>1, <2>5, Zenon DEF Counted
    <3>. QED
      BY <2>4, <3>1
  <2>6. CASE a = rules[i].id /\ b = ip
    <3>1. IsFiniteSet({}) /\ IsFiniteSet(Valid(rules[i], ip))
      BY ValidSize, FS_EmptySet
    <3>2. /\ history'[a][b] \in {{}, Valid(rules[i], ip)}
          /\ \/ log'[a][b] = {}
             \/ log'[a][b] = log[a][b] \cup {Stamp(a, b)}
      BY <2>1, <2>6 DEF Counted
    <3>3. IsFiniteSet(history'[a][b])
      BY <3>1, <3>2
    <3>4. \A t \in log[a][b] \cup {Stamp(a, b)} : t.at <= now
      BY <2>2, <2>4 DEF Stamp
    <3>5. \A t \in log'[a][b] : t.at <= now
      BY <3>2, <3>4
    <3>. QED
      BY <3>3, <3>5
  <2>. QED
    BY <2>5, <2>6
<1>3. CASE ResetHistory
  BY <1>3, EverywhereAt, FS_EmptySet DEF ResetHistory, Stamped
<1>. QED
  BY <1>1, <1>2, <1>3, WindowSteps

LEMMA StampedInit ==
  ASSUME RuleInit
  PROVE  Stamped
BY EverywhereAt, FS_EmptySet DEF RuleInit, Stamped

LEMMA BoundedNext ==
  ASSUME RuleTypeOK, Stamped, HistoryBounded, [RuleNext]_ruleVars
  PROVE  HistoryBounded'
<1>1. CASE UNCHANGED <<windowVars, loaded>>
  BY <1>1, SameRules DEF HistoryBounded, windowVars
<1>2. CASE \E i \in DOMAIN rules, ip \in IPs : Counted(i, ip)
  <2>1. PICK j \in DOMAIN rules, k \in IPs : Counted(j, k)
    BY <1>2
  <2>2. loaded' = loaded
    BY <2>1 DEF Counted
  <2>3. SUFFICES ASSUME NEW i \in DOMAIN rules, NEW ip \in IPs, Counting(i), Sole(i)
                 PROVE  Cardinality(history'[rules[i].id][ip]) < rules[i].packets
    BY <2>2, SameRules DEF HistoryBounded
  <2>4. CASE i = j /\ ip = k
    <3>1. rules[i].packets \in Int /\ rules[i].packets > 0
      BY <2>3, RulesTyped DEF Counting, Skipped
    <3>2. Cardinality(Valid(rules[i], ip)) \in Nat /\ Cardinality({}) = 0
      BY ValidSize, FS_EmptySet
    <3>3. \/ history'[rules[i].id][ip] = {}
          \/ /\ history'[rules[i].id][ip] = Valid(rules[i], ip)
             /\ ~ (Cardinality(Valid(rules[i], ip)) >= rules[i].packets)
      BY <2>1, <2>4 DEF Counted
    <3>4. ~ (Cardinality(Valid(rules[i], ip)) >= rules[i].packets)
            => Cardinality(Valid(rules[i], ip)) < rules[i].packets
      BY <3>1, <3>2
    <3>. QED
      BY <3>1, <3>2, <3>3, <3>4
  <2>5. CASE ~ (i = j /\ ip = k)
    <3>1. history'[rules[i].id][ip] = history[rules[i].id][ip]
      BY <2>1, <2>3, <2>5, CountedRule
    <3>. QED
      BY <2>3, <3>1 DEF HistoryBounded
  <2>. QED
    BY <2>4, <2>5
<1>3. CASE ResetHistory
  <2>1. RuleTypeOK'
    BY TypeNext
  <2>2. SUFFICES ASSUME NEW i \in DOMAIN rules', NEW ip \in IPs, Counting(i)'
                 PROVE  Cardinality(history'[rules'[i].id][ip]) < rules'[i].packets
    BY DEF HistoryBounded
  <2>3. rules' \in Seq(RuleType)
    BY <2>1, RulesAssumption DEF RulesAssumption, RuleTypeOK, rules
  <2>4. rules'[i].id \in Ids /\ rules'[i].packets \in Int /\ rules'[i].packets > 0
    <3>1. rules'[i] \in RuleType
      BY <2>2, <2>3
    <3>. QED
      BY <2>2, <3>1 DEF RuleType, Counting, Skipped
  <2>5. history'[rules'[i].id][ip] = {} /\ Cardinality({}) = 0
    BY <1>3, <2>4, EverywhereAt, FS_EmptySet DEF ResetHistory
  <2>. QED
    BY <2>4, <2>5
<1>. QED
  BY <1>1, <1>2, <1>3, WindowSteps

LEMMA OfRulesNext ==
  ASSUME RuleTypeOK, HistoryOfRules, [RuleNext]_ruleVars
  PROVE  HistoryOfRules'
<1>1. CASE UNCHANGED <<windowVars, loaded, loads>>
  BY <1>1, SameRules DEF HistoryOfRules, windowVars
<1>2. CASE \E i \in DOMAIN rules, ip \in IPs : Counted(i, ip)
  <2>1. PICK j \in DOMAIN rules, k \in IPs : Counted(j, k)
    BY <1>2
  <2>2. loaded' = loaded /\ loads' = loads /\ Counting(j)
    BY <2>1 DEF Counted
  <2>3. SUFFICES ASSUME NEW id \in Ids, NEW ip \in IPs, NEW t \in history'[id][ip]
                 PROVE  /\ t.load = loads
                        /\ \E i \in DOMAIN rules : rules[i].id = id /\ Counting(i)
    BY <2>2, SameRules DEF HistoryOfRules
  <2>4. CASE id = rules[j].id
    <3>1. t \in history[id][ip] \cup {Stamp(id, ip)}
      <4>1. CASE ip = k
        <5>1. history'[id][ip] \in {{}, Valid(rules[j], k)}
          BY <2>1, <2>4, <4>1 DEF Counted
        <5>. QED
          BY <2>3, <2>4, <4>1, <5>1 DEF Valid
      <4>2. CASE ip # k
        <5>1. history'[id][ip] = history[id][ip]
          BY <2>1, <4>2, Zenon DEF Counted
        <5>. QED
          BY <2>3, <5>1
      <4>. QED
        BY <4>1, <4>2
    <3>2. t.load = loads
      BY <3>1 DEF HistoryOfRules, Stamp
    <3>. QED
      BY <2>2, <2>4, <3>2
  <2>5. CASE id # rules[j].id
    <3>1. history'[id][ip] = history[id][ip]
      BY <2>1, <2>5, Zenon DEF Counted
    <3>. QED
      BY <2>3, <3>1 DEF HistoryOfRules
  <2>. QED
    BY <2>4, <2>5
<1>3. CASE ResetHistory
  BY <1>3, EverywhereAt DEF ResetHistory, HistoryOfRules
<1>. QED
  BY <1>1, <1>2, <1>3, WindowSteps

(* One more alarm costs one more time the packets of the rule.             *)
LEMMA OneMore ==
  ASSUME NEW p \in Nat, NEW a \in Nat
  PROVE  p * (a + 1) = p * a + p /\ p * a \in Nat /\ p * 0 = 0
OBVIOUS

LEMMA EarnedNext ==
  ASSUME RuleTypeOK, Stamped, AlarmsEarned, [RuleNext]_ruleVars
  PROVE  AlarmsEarned'
<1>1. CASE UNCHANGED <<windowVars, loaded>>
  BY <1>1, SameRules DEF AlarmsEarned, windowVars
<1>2. CASE \E i \in DOMAIN rules, ip \in IPs : Counted(i, ip)
  <2>1. PICK j \in DOMAIN rules, k \in IPs : Counted(j, k)
    BY <1>2
  <2>2. loaded' = loaded
    BY <2>1 DEF Counted
  <2>3. SUFFICES ASSUME NEW i \in DOMAIN rules, NEW ip \in IPs, Counting(i), Sole(i)
                 PROVE  counted'[rules[i].id][ip]
                          >= rules[i].packets * alarms'[rules[i].id][ip]
                             + Cardinality(history'[rules[i].id][ip])
    BY <2>2, SameRules DEF AlarmsEarned
  <2>4. CASE i = j /\ ip = k
    <3>. DEFINE id == rules[i].id
    <3>1. PICK p \in Nat : p = rules[i].packets
      BY <2>3, RulesTyped DEF Counting, Skipped
    <3>2. PICK c \in Nat, a \in Nat : c = counted[id][ip] /\ a = alarms[id][ip]
      BY RulesTyped DEF RuleTypeOK
    <3>3. PICK h \in Nat, v \in Nat : /\ h = Cardinality(history[id][ip])
                                      /\ v = Cardinality(Valid(rules[i], ip)) /\ v <= h + 1
      BY ValidSize
    <3>4. c >= p * a + h
      BY <2>3, <3>1, <3>2, <3>3 DEF AlarmsEarned
    <3>5. counted'[id][ip] = c + 1
      BY <2>1, <2>4, <3>2 DEF Counted
    <3>6. CASE alarms'[id][ip] = a + 1 /\ history'[id][ip] = {} /\ v >= p
      <4>1. Cardinality({}) = 0
        BY FS_EmptySet
      <4>2. c + 1 >= p * (a + 1) + 0
        <5>1. PICK m \in Nat : m = p * a /\ p * (a + 1) = m + p
          BY OneMore
        <5>2. c >= m + h
          BY <3>4, <5>1
        <5>3. c + 1 >= (m + p) + 0
          BY <3>3, <3>6, <5>2
        <5>. QED
          BY <5>1, <5>3
      <4>. QED
        BY <3>1, <3>5, <3>6, <4>1, <4>2
    <3>7. CASE alarms'[id][ip] = a /\ history'[id][ip] = Valid(rules[i], ip)
      <4>1. c + 1 >= p * a + v
        <5>1. PICK m \in Nat : m = p * a
          BY OneMore
        <5>2. c >= m + h
          BY <3>4, <5>1
        <5>3. c + 1 >= m + v
          BY <3>3, <5>2
        <5>. QED
          BY <5>1, <5>3
      <4>. QED
        BY <3>1, <3>3, <3>5, <3>7, <4>1
    <3>. QED
      BY <2>1, <2>4, <3>1, <3>2, <3>3, <3>6, <3>7 DEF Counted
  <2>5. CASE ~ (i = j /\ ip = k)
    <3>1. /\ history'[rules[i].id][ip] = history[rules[i].id][ip]
          /\ counted'[rules[i].id][ip] = counted[rules[i].id][ip]
          /\ alarms'[rules[i].id][ip] = alarms[rules[i].id][ip]
      BY <2>1, <2>3, <2>5, CountedRule
    <3>. QED
      BY <2>3, <3>1 DEF AlarmsEarned
  <2>. QED
    BY <2>4, <2>5
<1>3. CASE ResetHistory
  <2>1. RuleTypeOK'
    BY TypeNext
  <2>2. SUFFICES ASSUME NEW i \in DOMAIN rules', NEW ip \in IPs, Counting(i)'
                 PROVE  counted'[rules'[i].id][ip]
                          >= rules'[i].packets * alarms'[rules'[i].id][ip]
                             + Cardinality(history'[rules'[i].id][ip])
    BY DEF AlarmsEarned
  <2>3. rules' \in Seq(RuleType)
    BY <2>1, RulesAssumption DEF RulesAssumption, RuleTypeOK, rules
  <2>4. rules'[i].id \in Ids /\ rules'[i].packets \in Int
    <3>1. rules'[i] \in RuleType
      BY <2>2, <2>3
    <3>. QED
      BY <3>1 DEF RuleType
  <2>5. /\ history'[rules'[i].id][ip] = {} /\ counted'[rules'[i].id][ip] = 0
        /\ alarms'[rules'[i].id][ip] = 0 /\ Cardinality({}) = 0
    BY <1>3, <2>4, EverywhereAt, FS_EmptySet DEF ResetHistory
  <2>6. PICK p \in Int : p = rules'[i].packets
    BY <2>4
  <2>7. 0 >= p * 0 + 0
    OBVIOUS
  <2>. QED
    BY <2>5, <2>6, <2>7
<1>. QED
  BY <1>1, <1>2, <1>3, WindowSteps

(* Clearing old timestamps at each packet loses none that count later.     *)
LEMMA RecentGrows ==
  ASSUME NEW L \in SUBSET StampType, NEW x \in StampType, NEW w \in Nat \ {0},
         \A f \in L : f.at <= x.at
  PROVE  {f \in Recent(L, w) \cup {x} : f.at > x.at - w} = Recent(L \cup {x}, w)
<1>. DEFINE t == x.at
<1>1. x.at = t /\ t \in Nat /\ \A f \in L \cup {x} : f.at \in Nat /\ f.at <= t
  BY DEF StampType
<1>. HIDE DEF t
<1>2. \A f \in L \cup {x} : f.at > t - w => \A g \in L \cup {x} : f.at > g.at - w
  BY <1>1
<1>3. \A f \in L \cup {x} : (\A g \in L \cup {x} : f.at > g.at - w) => f.at > t - w
  BY <1>1
<1>4. \A f \in L : f.at > t - w => f \in Recent(L, w)
  BY <1>2 DEF Recent
<1>5. Recent(L, w) \subseteq L
  BY DEF Recent
<1>6. {f \in Recent(L, w) \cup {x} : f.at > t - w} = {f \in L \cup {x} : f.at > t - w}
  BY <1>4, <1>5
<1>7. Recent(L \cup {x}, w) = {f \in L \cup {x} : f.at > t - w}
  BY <1>2, <1>3 DEF Recent
<1>. QED
  BY <1>1, <1>6, <1>7

LEMMA ExactNext ==
  ASSUME RuleTypeOK, Stamped, WindowExact, [RuleNext]_ruleVars
  PROVE  WindowExact'
<1>1. CASE UNCHANGED <<windowVars, loaded>>
  BY <1>1, SameRules DEF WindowExact, windowVars
<1>2. CASE \E i \in DOMAIN rules, ip \in IPs : Counted(i, ip)
  <2>1. PICK j \in DOMAIN rules, k \in IPs : Counted(j, k)
    BY <1>2
  <2>2. loaded' = loaded
    BY <2>1 DEF Counted
  <2>3. SUFFICES ASSUME NEW i \in DOMAIN rules, NEW ip \in IPs, Counting(i), Sole(i)
                 PROVE  history'[rules[i].id][ip] = Recent(log'[rules[i].id][ip], rules[i].window)
    BY <2>2, SameRules DEF WindowExact
  <2>4. CASE i = j /\ ip = k
    <3>. DEFINE id == rules[i].id
                x == Stamp(id, ip)
    <3>1. rules[i].window \in Nat \ {0} /\ id \in Ids
      BY <2>3, RulesTyped DEF Counting, Skipped
    <3>2. /\ log[id][ip] \in SUBSET StampType /\ now \in Nat /\ counted[id][ip] \in Nat
          /\ \A f \in log[id][ip] : f.at <= now
      BY <3>1 DEF RuleTypeOK, Stamped
    <3>3. history[id][ip] = Recent(log[id][ip], rules[i].window)
      BY <2>3 DEF WindowExact
    <3>4. Valid(rules[i], ip) = Recent(log[id][ip] \cup {x}, rules[i].window)
      <4>1. Valid(rules[i], ip)
              = {f \in Recent(log[id][ip], rules[i].window) \cup {x} : f.at > now - rules[i].window}
        BY <3>3 DEF Valid, After
      <4>2. x \in StampType /\ x.at = now
        BY <3>1, <3>2 DEF Stamp, StampType, RuleTypeOK
      <4>. HIDE DEF x
      <4>3. PICK L \in SUBSET StampType, y \in StampType, w \in Nat \ {0} :
              /\ L = log[id][ip] /\ y = x /\ w = rules[i].window
              /\ \A f \in L : f.at <= y.at
        BY <3>1, <3>2, <4>2
      <4>4. {f \in Recent(L, w) \cup {y} : f.at > y.at - w} = Recent(L \cup {y}, w)
        <5>1. \A f \in L : f.at <= y.at
          BY <4>3
        <5>. HIDE <4>3
        <5>. QED
          BY <5>1, RecentGrows
      <4>. QED
        BY <4>1, <4>2, <4>3, <4>4, Zenon
    <3>5. \/ history'[id][ip] = {} /\ log'[id][ip] = {}
          \/ history'[id][ip] = Valid(rules[i], ip) /\ log'[id][ip] = log[id][ip] \cup {x}
      BY <2>1, <2>4 DEF Counted
    <3>6. Recent({}, rules[i].window) = {}
      BY DEF Recent
    <3>. QED
      BY <3>4, <3>5, <3>6
  <2>5. CASE ~ (i = j /\ ip = k)
    <3>1. /\ history'[rules[i].id][ip] = history[rules[i].id][ip]
          /\ log'[rules[i].id][ip] = log[rules[i].id][ip]
      BY <2>1, <2>3, <2>5, CountedRule
    <3>. QED
      BY <2>3, <3>1 DEF WindowExact
  <2>. QED
    BY <2>4, <2>5
<1>3. CASE ResetHistory
  <2>1. RuleTypeOK'
    BY TypeNext
  <2>2. SUFFICES ASSUME NEW i \in DOMAIN rules', NEW ip \in IPs
                 PROVE  history'[rules'[i].id][ip]
                          = Recent(log'[rules'[i].id][ip], rules'[i].window)
    BY DEF WindowExact
  <2>3. rules' \in Seq(RuleType)
    BY <2>1, RulesAssumption DEF RulesAssumption, RuleTypeOK, rules
  <2>4. rules'[i].id \in Ids
    <3>1. rules'[i] \in RuleType
      BY <2>2, <2>3
    <3>. QED
      BY <3>1 DEF RuleType
  <2>5. history'[rules'[i].id][ip] = {} /\ log'[rules'[i].id][ip] = {}
    BY <1>3, <2>4, EverywhereAt DEF ResetHistory
  <2>. QED
    BY <2>5 DEF Recent
<1>. QED
  BY <1>1, <1>2, <1>3, WindowSteps

LEMMA WindowsInit ==
  ASSUME RuleInit
  PROVE  HistoryBounded /\ HistoryOfRules /\ AlarmsEarned /\ WindowExact
<1>1. \A i \in DOMAIN rules, ip \in IPs :
        /\ history[rules[i].id][ip] = {} /\ log[rules[i].id][ip] = {}
        /\ counted[rules[i].id][ip] = 0 /\ alarms[rules[i].id][ip] = 0
  <2>1. /\ history = Everywhere({}) /\ log = Everywhere({})
        /\ counted = Everywhere(0) /\ alarms = Everywhere(0)
    BY DEF RuleInit
  <2>2. \A i \in DOMAIN rules : rules[i].id \in Ids
    BY RulesTyped, TypeInit
  <2>. QED
    BY <2>1, <2>2, EverywhereAt
<1>2. Cardinality({}) = 0
  BY FS_EmptySet
<1>3. \A i \in DOMAIN rules : Counting(i) => 0 < rules[i].packets
  BY <1>1, RulesTyped, TypeInit DEF Counting, Skipped
<1>4. HistoryBounded
  BY <1>1, <1>2, <1>3 DEF HistoryBounded
<1>5. HistoryOfRules
  BY EverywhereAt DEF RuleInit, HistoryOfRules
<1>6. AlarmsEarned
  <2>1. SUFFICES ASSUME NEW i \in DOMAIN rules, NEW ip \in IPs
                 PROVE  counted[rules[i].id][ip]
                          >= rules[i].packets * alarms[rules[i].id][ip]
                             + Cardinality(history[rules[i].id][ip])
    BY DEF AlarmsEarned
  <2>2. PICK p \in Int : p = rules[i].packets
    BY RulesTyped, TypeInit
  <2>3. 0 >= p * 0 + 0
    OBVIOUS
  <2>. QED
    BY <1>1, <1>2, <2>2, <2>3
<1>7. WindowExact
  <2>1. SUFFICES ASSUME NEW i \in DOMAIN rules, NEW ip \in IPs
                 PROVE  history[rules[i].id][ip]
                          = Recent(log[rules[i].id][ip], rules[i].window)
    BY DEF WindowExact
  <2>. QED
    BY <1>1 DEF Recent
<1>. QED
  BY <1>4, <1>5, <1>6, <1>7

(* Between packets a rule holds fewer timestamps than it takes to fire:    *)
(* nothing fires late, not even after a reload (engine.go:124-125,         *)
(* 280-290).                                                               *)
THEOREM HistoriesAreBounded == RuleSpec => []HistoryBounded
<1>1. RuleInit => RuleTypeOK /\ Stamped /\ HistoryBounded
  BY TypeInit, StampedInit, WindowsInit
<1>2. RuleTypeOK /\ Stamped /\ HistoryBounded /\ [RuleNext]_ruleVars
        => RuleTypeOK' /\ Stamped' /\ HistoryBounded'
  BY TypeNext, StampedNext, BoundedNext
<1>. QED
  BY <1>1, <1>2, PTL DEF RuleSpec

(* No timestamp outlives a reload: each was taken under the load in force, *)
(* for a threshold rule of that load (engine.go:124-125, 274-275).         *)
THEOREM HistoriesAreOfRules == RuleSpec => []HistoryOfRules
<1>1. RuleInit => RuleTypeOK /\ HistoryOfRules
  BY TypeInit, WindowsInit
<1>2. RuleTypeOK /\ HistoryOfRules /\ [RuleNext]_ruleVars => RuleTypeOK' /\ HistoryOfRules'
  BY TypeNext, OfRulesNext
<1>. QED
  BY <1>1, <1>2, PTL DEF RuleSpec

(* Each alarm costs its own packets: no packet serves two alarms of a rule *)
(* (engine.go:289-290).                                                    *)
THEOREM AlarmsAreEarned == RuleSpec => []AlarmsEarned
<1>1. RuleInit => RuleTypeOK /\ Stamped /\ AlarmsEarned
  BY TypeInit, StampedInit, WindowsInit
<1>2. RuleTypeOK /\ Stamped /\ AlarmsEarned /\ [RuleNext]_ruleVars
        => RuleTypeOK' /\ Stamped' /\ AlarmsEarned'
  BY TypeNext, StampedNext, EarnedNext
<1>. QED
  BY <1>1, <1>2, PTL DEF RuleSpec

(* The pruned history is what the whole log has within the window of the   *)
(* last packet (engine.go:273-285).                                        *)
THEOREM WindowsAreExact == RuleSpec => []WindowExact
<1>1. RuleInit => RuleTypeOK /\ Stamped /\ WindowExact
  BY TypeInit, StampedInit, WindowsInit
<1>2. RuleTypeOK /\ Stamped /\ WindowExact /\ [RuleNext]_ruleVars
        => RuleTypeOK' /\ Stamped' /\ WindowExact'
  BY TypeNext, StampedNext, ExactNext
<1>. QED
  BY <1>1, <1>2, PTL DEF RuleSpec

-----------------------------------------------------------------------------
(* The order of the rules *)

(* The evaluation has passed no signature meant for its packet, and has no *)
(* verdict yet.                                                            *)
PassedNone ==
  \A e \in evaluating :
    /\ verdict = {}
    /\ \A i \in Signatures(e.packet) : e.i <= i

LEMMA SignatureMatches ==
  ASSUME RuleTypeOK, NEW e \in evaluating
  PROVE  /\ \A i \in Signatures(e.packet) :
              i \in DOMAIN rules /\ i \in Nat /\ Match(rules[i], e.packet) /\ rules[i].stateless
         /\ \A i \in DOMAIN rules : Match(rules[i], e.packet) => Admits(i, e.packet)
<1>1. e.packet \in PacketType
  BY EvaluatedTyped
<1>2. DOMAIN rules = 1 .. Len(rules) /\ Len(rules) \in Nat
      /\ \A i \in DOMAIN rules : rules[i].criteria \in Criteria
  BY RulesTyped
<1>3. \A i \in DOMAIN rules :
        /\ Match(rules[i], e.packet) => Admits(i, e.packet)
        /\ PlainCriteria(rules[i].criteria) /\ Admits(i, e.packet) => Match(rules[i], e.packet)
  BY <1>1, <1>2, MatchMeansAdmit DEF Match, Admits
<1>. QED
  BY <1>2, <1>3 DEF Signatures

(* No signature is passed by going on to the next rule.                    *)
LEMMA GotoPasses ==
  ASSUME RuleTypeOK, PassedNone, NEW e \in evaluating, Goto(e), verdict' = verdict,
         loaded' = loaded, e.i \notin Signatures(e.packet)
  PROVE  PassedNone'
<1>1. /\ evaluating' = {[packet |-> e.packet, i |-> e.i + 1]} /\ e.i \in Nat
  BY GotoType, EvaluatedTyped
<1>2. Signatures(e.packet)' = Signatures(e.packet)
  BY SameRules DEF Signatures, Admits
<1>3. \A i \in Signatures(e.packet) : i \in Nat /\ e.i <= i /\ e.i # i
  BY SignatureMatches DEF PassedNone
<1>4. \A i \in Signatures(e.packet) : e.i + 1 <= i
  BY <1>1, <1>3
<1>5. verdict' = {}
  BY DEF PassedNone
<1>. QED
  BY <1>1, <1>2, <1>4, <1>5 DEF PassedNone

LEMMA PassedNoneNext ==
  ASSUME RuleTypeOK, PassedNone, [RuleNext]_ruleVars
  PROVE  PassedNone'
<1>1. CASE evaluating' = {}
  BY <1>1 DEF PassedNone
<1>2. CASE UNCHANGED <<evaluating, verdict, loaded>>
  BY <1>2, SameRules DEF PassedNone, Signatures, Admits
<1>3. CASE \E packet \in Packets : Begin(packet)
  <2>1. PICK packet \in Packets : Begin(packet)
    BY <1>3
  <2>2. RuleTypeOK'
    BY TypeNext
  <2>3. \A i \in Signatures(packet)' : 1 <= i
    <3>1. rules' \in Seq(RuleType)
      BY <2>2, RulesAssumption DEF RulesAssumption, RuleTypeOK, rules
    <3>. QED
      BY <3>1 DEF Signatures
  <2>. QED
    BY <2>1, <2>3 DEF Begin, PassedNone
<1>4. CASE RulePasses
  <2>1. PICK e \in evaluating :
          /\ ~Match(rules[e.i], e.packet) \/ Skipped(rules[e.i])
          /\ Goto(e) /\ verdict' = verdict /\ loaded' = loaded
    BY <1>4 DEF RulePasses
  <2>2. e.i \notin Signatures(e.packet)
    BY <2>1, SignatureMatches DEF Skipped
  <2>. QED
    BY <2>1, <2>2, GotoPasses
<1>5. CASE RuleCounts
  <2>1. PICK e \in evaluating :
          /\ ~rules[e.i].stateless
          /\ Fire(e) \/ (Goto(e) /\ verdict' = verdict)
          /\ loaded' = loaded
    BY <1>5 DEF RuleCounts
  <2>2. e.i \notin Signatures(e.packet)
    BY <2>1, SignatureMatches
  <2>3. Fire(e) => evaluating' = {}
    BY DEF Fire
  <2>. QED
    BY <1>1, <2>1, <2>2, <2>3, GotoPasses
<1>6. CASE RuleStateless \/ NoMatch
  BY <1>1, <1>6 DEF RuleStateless, NoMatch, Fire
<1>7. CASE WatcherReload
  BY <1>1, <1>7 DEF WatcherReload, LoadRules, Unlocked
<1>8. CASE \/ Tick \/ WatcherStart \/ WatcherIdle \/ WatcherStat
           \/ \E content \in Contents \cup {BadFile} : Edit(content)
           \/ UNCHANGED ruleVars
  BY <1>2, <1>8 DEF Tick, WatcherStart, WatcherIdle, WatcherStat, Edit, ruleVars
<1>. QED
  BY <1>3, <1>4, <1>5, <1>6, <1>7, <1>8 DEF RuleNext, Turn

LEMMA DecidesStep ==
  ASSUME RuleTypeOK, PassedNone, [RuleNext]_ruleVars
  PROVE  [\A e \in evaluating :
            evaluating' = {} =>
              IF verdict' = {} THEN Signatures(e.packet) = {}
              ELSE \A v \in verdict' :
                     /\ Admits(v.rule, e.packet) /\ v.target = e.packet.src
                     /\ \A i \in Signatures(e.packet) : v.rule <= i]_ruleVars
<1>1. SUFFICES ASSUME NEW e \in evaluating, evaluating' = {}
               PROVE  IF verdict' = {} THEN Signatures(e.packet) = {}
                      ELSE \A v \in verdict' :
                             /\ Admits(v.rule, e.packet) /\ v.target = e.packet.src
                             /\ \A i \in Signatures(e.packet) : v.rule <= i
  OBVIOUS
<1>2. evaluating = {e} /\ verdict = {} /\ \A i \in Signatures(e.packet) : e.i <= i
  BY EvaluatedTyped DEF PassedNone
<1>3. ASSUME AtRule(e), Match(rules[e.i], e.packet), Fire(e)
      PROVE  IF verdict' = {} THEN Signatures(e.packet) = {}
             ELSE \A v \in verdict' :
                    /\ Admits(v.rule, e.packet) /\ v.target = e.packet.src
                    /\ \A i \in Signatures(e.packet) : v.rule <= i
  <2>1. Admits(e.i, e.packet)
    BY <1>3, SignatureMatches, EvaluatedTyped
  <2>2. verdict' = {[rule |-> e.i, action |-> rules[e.i].action, target |-> e.packet.src]}
    BY <1>3 DEF Fire
  <2>3. /\ verdict' # {}
        /\ \A v \in verdict' : v.rule = e.i /\ v.target = e.packet.src
    BY <2>2
  <2>. QED
    BY <1>2, <2>1, <2>3, Zenon
<1>4. CASE RuleStateless
  BY <1>2, <1>3, <1>4 DEF RuleStateless
<1>5. CASE RuleCounts
  <2>1. /\ AtRule(e) /\ Match(rules[e.i], e.packet)
        /\ Fire(e) \/ Goto(e)
    BY <1>2, <1>5 DEF RuleCounts
  <2>. QED
    BY <1>1, <1>3, <2>1, GotoType
<1>6. CASE NoMatch
  <2>1. ~AtRule(e) /\ verdict' = {}
    BY <1>2, <1>6 DEF NoMatch
  <2>2. \A i \in Signatures(e.packet) : i \in 1 .. Len(rules)
    BY RulesTyped, SignatureMatches
  <2>3. \A i \in Signatures(e.packet) : FALSE
    BY <1>2, <2>1, <2>2, RulesTyped, EvaluatedTyped DEF AtRule
  <2>. QED
    BY <2>1, <2>3
<1>7. CASE ~RuleStateless /\ ~RuleCounts /\ ~NoMatch
  <2>1. evaluating' # {}
    BY <1>2, <1>7, GotoType DEF RuleNext, Turn, Begin, Unlocked, RulePasses, Tick, WatcherStart,
       WatcherIdle, WatcherStat, WatcherReload, LoadRules, Edit, ruleVars
  <2>. QED
    BY <1>1, <2>1
<1>. QED
  BY <1>4, <1>5, <1>6, <1>7

(* The first rule in the file's order that is meant to match decides: no   *)
(* command comes from a rule that could not mean the packet, and none      *)
(* passes over a signature that does (engine.go:136-249, 256-331).         *)
THEOREM FirstRulesDecide == RuleSpec => FirstRuleDecides
<1>1. RuleInit => RuleTypeOK /\ PassedNone
  BY TypeInit DEF RuleInit, PassedNone
<1>2. RuleTypeOK /\ PassedNone /\ [RuleNext]_ruleVars => RuleTypeOK' /\ PassedNone'
  BY TypeNext, PassedNoneNext
<1>. QED
  BY <1>1, <1>2, DecidesStep, PTL DEF RuleSpec, FirstRuleDecides
=============================================================================
