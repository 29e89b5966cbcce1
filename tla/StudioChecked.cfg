SPECIFICATION FairSpec
CONSTANTS
  Casters = {"w1", "w2"}
  CastSites <- CheckedCasts
  Staff = {"o1", "o2"}
  Hands = {"h1", "h2"}
  DeskSites <- CheckedDesks
  Probers = {"r1", "r2"}
  ProbeSites <- CheckedProbes
  Threads = {"t1", "t2", "t3", "t4"}
  TelemetrySites <- CheckedTelemetry
INVARIANT CastIsKept
INVARIANT ScriptsHaveTheirSources
INVARIANT PanelIsHonest
INVARIANT ReportsTellTheTruth
INVARIANT TelemetryBelongs
PROPERTY SpeechComesBack
PROPERTY SavesAreExact
PROPERTY ScriptComesInTheEnd
\* The surroundings come to rest: a script spoken, every request answered.
CHECK_DEADLOCK FALSE
