\* New posts, demo posts, a choice about to lapse and posts about to end, each
\* with one failed call or restart.
SPECIFICATION FairSpec
CONSTANTS
  demoer = demoer
  whole = whole
  shop = shop
  other = other
  s1 = s1
  s2 = s2
  b1 = b1
  d1 = d1
  d2 = d2
  e1 = e1
  giza = giza
  aswan = aswan
  food = food
  cloth = cloth
  None = None
  Member = {demoer, whole, shop, other}
  SellPost = {s1, s2, d1, d2}
  BuyPost = {b1, e1}
  Owner <- Owners
  Region <- Regions
  Interest <- Interests
  Profile <- Profiles
  RegionFilter = TRUE
  Search <- Searches
  PageSize = 2
  SeedUser = demoer
  Start <- Situations
  Duration = 3
  SelectionWindow = 2
  EndingWindow = 3
  EndingGap = 1
  SeedGaps = {1}
  DayLength = 4
  FromHour = 1
  UntilHour = 4
  DailyMax = 2
  MinGap = 1
  MaxGap = 2
  Picks <- Tastes
  Moving = {other}
  Still = {d1, d2, e1}
  MaxTime = 5
  MaxRuns = 2
  MaxFaults = 1
INVARIANTS
  FeedsAgree
  NoticesAreBounded
PROPERTY
  PostsAreAnnounced
