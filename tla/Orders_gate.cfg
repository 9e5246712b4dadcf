SPECIFICATION Spec
CONSTANTS
  ru = ru
  nl = nl
  prosto = prosto
  hustle = hustle
  debian = debian
  alias = alias
  Regions = {ru, nl}
  Tiers = {prosto, hustle}
  Plans = {prosto, hustle}
  Templates = {debian, alias}
  PlanRegion <- MCPlanRegion
  PlanTier <- MCPlanTier
  WaitlistTiers = {hustle}
  Canonical <- MCCanonical
  Envs <- MCEnvs
  DefaultKey = DefaultKey
  None = None
  MaxAdmin = 2
  MaxRestarts = 1
  MaxFaults = 1
INVARIANTS IInv FailsOnlyByDrift MissedOnlyUnconfigured ShutIsRefused ShownIsAccepted
