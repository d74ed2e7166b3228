SPECIFICATION PagesSpec
CONSTANTS
  Team = Team
  TwoDays = TwoDays
  OneDay = OneDay
  Undated = Undated
  Itc = Itc
  Hobby = Hobby
  None = None
  Events <- MCEvents
  About <- MCAbout
  Leagues <- MCLeagues
  Flagship <- MCFlagship
  Views <- MCViews
  Places = {1, 2}
  MaxRows = 3
  MaxRegistered = 2
INVARIANTS
  FiguresAreOfCountedRows
  SummaryAgrees
  ListedByFeeds
CHECK_DEADLOCK FALSE
