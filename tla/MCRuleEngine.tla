---------------------------- MODULE MCRuleEngine ----------------------------
(* Three rules files for TLC.  In the first, ssh and scan count the same   *)
(* packets, so an alarm of ssh hides them from scan; the second lowers the *)
(* threshold of ssh, turns scan off with a threshold of zero, and has a    *)
(* signature and two thresholds under one id.  The third has signatures    *)
(* whose ports, addresses and patterns are written in every way there is,  *)
(* some of them malformed.                                                 *)
EXTENDS RuleEngine

Attacker == [family |-> "4", n |-> 1]
Host(n) == [family |-> "4", n |-> n]

Packet(protocol, dst, dstPort, payload) ==
  [protocol |-> protocol, src |-> Attacker, dst |-> dst, srcPort |-> 5,
   dstPort |-> dstPort, payload |-> payload]

MCPackets ==
  { Packet("tcp", Host(2), 2, {}), Packet("tcp", Host(3), 4, {"attack"}),
    Packet("udp", Host(2), 3, {}), Packet("udp", [family |-> "6", n |-> 2], 0, {}) }

Anywhere == [address |-> NoText, prefix |-> -1]
Within(n, prefix) == [address |-> Host(n), prefix |-> prefix]
Anything ==
  [protocol |-> Unset, src |-> Anywhere, dst |-> Anywhere, srcPort |-> 0,
   srcPortRange |-> <<>>, dstPort |-> 0, dstPortRange |-> <<>>,
   hex |-> Unset, string |-> Unset, regex |-> Unset]

Ssh == [Anything EXCEPT !.protocol = "tcp", !.dstPort = 2]
Udp == [Anything EXCEPT !.protocol = "udp"]
Net2 == [Anything EXCEPT !.dst = Within(3, 1), !.srcPortRange = <<<<5, 9>>>>]

Threshold(id, criteria, packets, window) ==
  [id |-> id, criteria |-> criteria, stateless |-> FALSE, packets |-> packets,
   window |-> window, action |-> "BLOCK"]
Signature(criteria, action) ==
  [id |-> "sig", criteria |-> criteria, stateless |-> TRUE, packets |-> 0,
   window |-> 0, action |-> action]

FileA == << Threshold("ssh", Ssh, 3, 2), Threshold("scan", Net2, 2, 1) >>
FileB == << Signature(Udp, "ALLOW"), Threshold("ssh", Ssh, 2, 1),
            Threshold("scan", Ssh, 0, 1), Threshold("sig", Ssh, 2, 1),
            Threshold("sig", Ssh, 3, 2) >>
FileC == << Signature([Anything EXCEPT !.dstPortRange = <<<<NaN, 2>>>>], "BLOCK"),
            Signature([Anything EXCEPT !.hex = Malformed], "BLOCK"),
            Signature([Anything EXCEPT !.dst.address = [family |-> "text", n |-> 1]], "BLOCK"),
            Signature([Anything EXCEPT !.dstPortRange = <<<<1>>, <<3, 4>>>>], "BLOCK"),
            Signature([Anything EXCEPT !.dstPort = 4, !.dstPortRange = <<<<0, 3>>>>,
                                       !.string = "attack"], "BLOCK"),
            Signature([Udp EXCEPT !.dst = Within(2, 2), !.dstPortRange = <<<<2, 3>>>>], "RATE_LIMIT"),
            Signature([Udp EXCEPT !.dst = Within(0, 0)], "BLOCK"),
            Signature([Anything EXCEPT !.dstPortRange = <<<<1>>, <<2>>, <<NaN>>>>], "ALLOW") >>

MCRulesIn == [A |-> FileA, B |-> FileB, C |-> FileC]
=============================================================================
