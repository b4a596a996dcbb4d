SPECIFICATION ScriptsSpec
CONSTANTS
  Groups = {1, 2, 3}
  Items <- MCItems
  MaxQueued = 2
  MaxTimeouts = 2
  MaxBackdrops = 3
  MaxHideTimeouts = 2
  e1 = e1
  e2 = e2
  Elements <- MCElements
  MaxDetaches = 1
  t1 = t1
  t2 = t2
  t3 = t3
  Tabs <- MCTabs
  InMenu <- MCInMenu
  MaxPaneEnds = 2
  Source <- MCSource
  Values <- MCValues
  MinLength = 1
  MaxListed = 2
  Lowered <- MCLowered
  HasText <- MCHasText
  MaxLookups = 2
  Boxes = {e1, e2}
  Buttons = {e1, e2}
  MaxPending = 2
  Menus = {e1, e2}
  MenuLength = 2
  Layouts <- MCLayouts
  SpyOffset = 1
  SpiedMenu = {3}
  TableSettings <- MCTableSettings
  HasClass <- MCHasClass
  SortCalls <- MCSortCalls
  MaxRows = 2
  MaxSorted = 2
  MaxVersion = 1
  CellTables <- MCCellTables
  NewRows <- MCNewRows
  NewData <- MCNewData
  Sortings <- MCSortings
  Joined <- MCJoined
  MaxCellRows = 3
  MaxUpdates = 1
  CookiePages <- MCCookiePages
  CookieTables = {t1, t2}
  Sizes = {1, 3}
  Foreign <- MCForeign
  CookieLimit = 7
  Padding = 1
  MaxSaves = 3
INVARIANTS
  OneShown
  Settled
  ShownAsAsked
  ColumnsAligned
  SortingShown
  
  SortedByType
  StatesKept
