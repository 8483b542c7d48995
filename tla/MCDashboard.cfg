SPECIFICATION FairDashSpec
CONSTANTS
  s1 = s1
  s2 = s2
  Streams <- MCStreams
  AgentIds <- MCAgentIds
  busCap = 2
  maxAlerts = 1
  maxLogs = 1
  MaxReports = 1
CHECK_DEADLOCK FALSE
INVARIANTS DashTypeOK OneReader TableExact NoGhostAgents
PROPERTIES PublishersNeverBlock EventsShown
