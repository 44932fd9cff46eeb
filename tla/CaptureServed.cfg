SPECIFICATION FairSpec
CONSTANTS
  jalon = jalon
  compass = compass
  rate = rate
  drop = drop
  Repo = {jalon}
  Protected = {jalon}
  Slug = {rate, drop}
  NoSlug = NoSlug
  NoRepo = NoRepo
  Extends <- RateExtendsDrop
  Lines <- TitledFirst
  Seeds <- NoSeeds
  MaxPerTick = 1
  MaxDays = 2
INVARIANTS
  AcknowledgedIsKept
PROPERTIES
  LinesAreServed
