SPECIFICATION Spec
CONSTANTS
  jalon = jalon
  compass = compass
  rate = rate
  drop = drop
  Repo = {jalon, compass}
  Protected = {compass}
  Slug = {rate, drop}
  NoSlug = NoSlug
  NoRepo = NoRepo
  Extends = {}
  Lines <- DecideThenBuild
  Seeds <- DropInCompass
  MaxPerTick = 2
  MaxDays = 2
INVARIANTS
  AcknowledgedIsKept
