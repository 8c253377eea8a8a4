SPECIFICATION FairSpec
CONSTANTS
  Agents = {a1}
  AskedTypes = {"general-purpose", "unknown"}
  ParentTier = "main"
  RiskLevel <- MCRisk
  Sources = {"userSettings", "session"}
  Texts = {"x"}
  RuleNames = {"TaskStop"}
  MaxRules = 2
INVARIANTS TypeOK LiveIffRunning ErrorsTold AbortsHeard
PROPERTIES WidenedOnlyBy AbortReaches
