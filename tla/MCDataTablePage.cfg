SPECIFICATION Spec
CONSTANTS
  Accepts <- MCAccepts
  Less <- MCLess
  Features <- MCFeatures
  SourceRows <- MCSourceRows
  Keys = {1, 2, 3, 4}
  Texts <- MCTexts
  Inputs <- MCInputs
  ColumnInputs <- MCColumnInputs
  MaxEdits = 1
  MaxDraws = 3
  MaxOpen = 1
  ShowPages = 5
INVARIANTS
  IndicesValid
  DisplayIsTheSearch
  NoBlankPage
  DetailsStayWithRows
  NewestAnswerShown
PROPERTIES
  ReloadShowsTheSame
