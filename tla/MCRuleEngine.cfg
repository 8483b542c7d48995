SPECIFICATION FairRuleSpec
CONSTANTS
  Ids = {"ssh", "scan", "sig"}
  Packets <- MCPackets
  Protocols = {"tcp", "udp"}
  Patterns = {"attack"}
  Bits = 2
  Contents = {"A", "B", "C"}
  RulesIn <- MCRulesIn
  BadFile = "bad"
  MaxTime = 2
  MaxEdits = 2
  MaxCount = 4
INVARIANTS RuleTypeOK HistoryBounded WindowExact AlarmsEarned HistoryOfRules
PROPERTIES FirstRuleDecides EditsLoaded
