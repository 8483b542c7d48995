------------------------------ MODULE RuleMatch ------------------------------
(***************************************************************************)
(* What a rule of the rules file matches (matchIP, matchPort and Match in  *)
(* manager/internal/rule_engine/engine.go).  Texts are modelled parsed:    *)
(*   an address is a number of Bits bits in its family, "text" for one     *)
(*   that does not parse; a rule's may have a prefix length (CIDR), or -1; *)
(*   a port range is the sequence of its parts between commas, each the    *)
(*   sequence of its numbers between dashes, NaN for what is no number;    *)
(*   a payload is the set of the byte patterns found in it.                *)
(* Protocols are compared after folding their case.                        *)
(***************************************************************************)
EXTENDS Integers, Sequences

CONSTANTS Bits, Protocols, Patterns

ASSUME MatchAssumption == Bits \in Nat

NaN == -1
NoText == [family |-> "text", n |-> 0]
Unset == ""
Malformed == "malformed"

Address == [family : {"4", "6", "text"}, n : Nat]
PacketType ==
  [protocol : Protocols, src : Address, dst : Address, srcPort : Nat,
   dstPort : Nat, payload : SUBSET Patterns]

AddressCriterion ==
  {c \in [address : Address, prefix : -1 .. Bits] :
     c.address.family = "text" => c.prefix = -1}
PortText == Seq(Seq(Nat \cup {NaN}))
PatternCriterion == Patterns \cup {Unset}
Criteria ==
  [protocol : Protocols \cup {Unset},
   src : AddressCriterion, dst : AddressCriterion,
   srcPort : Int, srcPortRange : PortText, dstPort : Int, dstPortRange : PortText,
   hex : PatternCriterion \cup {Malformed}, string : PatternCriterion,
   regex : PatternCriterion]

-----------------------------------------------------------------------------
Net(n, prefix) == n \div 2 ^ (Bits - prefix)

matchIP(rule, ip) ==
  \/ rule.address = NoText
  \/ /\ ip # NoText /\ rule.prefix >= 0
     /\ ip.family = rule.address.family
     /\ Net(ip.n, rule.prefix) = Net(rule.address.n, rule.prefix)
  \/ ip # NoText /\ rule.prefix < 0 /\ ip = rule.address

InRangeOpen(part, port) == \* mutant: the end of a range is left out
  /\ Len(part) = 2 /\ NaN \notin {part[1], part[2]}
  /\ part[1] <= port /\ port < part[2]
InRange(part, port) ==
  /\ Len(part) = 2 /\ NaN \notin {part[1], part[2]}
  /\ part[1] <= port /\ port <= part[2]

(* A port takes precedence over a range; a range in a list is no number.   *)
matchPort(rulePort, text, port) ==
  \/ rulePort = 0 /\ text = <<>>
  \/ rulePort # 0 /\ port = rulePort
  \/ rulePort = 0 /\ \E i \in DOMAIN text : text[i] = <<port>>
  \/ rulePort = 0 /\ Len(text) = 1 /\ InRange(text[1], port)

matchPattern(pattern, payload) == pattern = Unset \/ pattern \in payload

(* Malformed hex is no pattern of any payload.                             *)
MatchCriteria(c, p) ==
  /\ c.protocol \in {Unset, p.protocol}
  /\ matchIP(c.src, p.src) /\ matchIP(c.dst, p.dst)
  /\ matchPort(c.srcPort, c.srcPortRange, p.srcPort)
  /\ matchPort(c.dstPort, c.dstPortRange, p.dstPort)
  /\ \A pattern \in {c.hex, c.string, c.regex} : matchPattern(pattern, p.payload)

-----------------------------------------------------------------------------
(* What a rule's author can mean: the sets its criteria name.              *)

AddressesNamed(c) ==
  IF c.address = NoText THEN Address
  ELSE IF c.prefix < 0 THEN {c.address}
  ELSE LET size == 2 ^ (Bits - c.prefix)
           first == c.address.n - (c.address.n % size)
       IN {[family |-> c.address.family, n |-> n] : n \in first .. first + size - 1}

NumbersNamed(part) ==
  IF Len(part) \notin {1, 2} \/ NaN \in {part[i] : i \in DOMAIN part} THEN {}
  ELSE part[1] .. part[Len(part)]

PortsNamed(port, text) ==
  IF port # 0 THEN {port}
  ELSE IF text = <<>> THEN Nat
  ELSE UNION {NumbersNamed(text[i]) : i \in DOMAIN text}

(* matchPort ignores a range that is part of a list.                       *)
Plain(text) == Len(text) > 1 => \A i \in DOMAIN text : Len(text[i]) = 1
PlainCriteria(c) == Plain(c.srcPortRange) /\ Plain(c.dstPortRange)

CriteriaAdmit(c, p) ==
  /\ c.protocol # Unset => c.protocol = p.protocol
  /\ p.src \in AddressesNamed(c.src) /\ p.dst \in AddressesNamed(c.dst)
  /\ p.srcPort \in PortsNamed(c.srcPort, c.srcPortRange)
  /\ p.dstPort \in PortsNamed(c.dstPort, c.dstPortRange)
  /\ {c.hex, c.string, c.regex} \ {Unset} \subseteq p.payload
=============================================================================
