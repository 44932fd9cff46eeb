SPECIFICATION Spec
CONSTANTS
  jalon = jalon
  compass = compass
  rate = rate
  drop = drop
  Repo = {jalon, compass}
  Protected = {}
  Slug = {rate, drop}
  NoSlug = NoSlug
  NoRepo = NoRepo
  Extends = {}
  Lines <- SameTitles
  Seeds <- DropInCompass
  MaxPerTick = 2
  MaxDays = 1
INVARIANTS
  TypeOK
  PassedIsSettled
  StubsDoNotCollide
