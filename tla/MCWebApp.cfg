SPECIFICATION Spec
CONSTANTS
  Chars <- MCChars
  NameOrder <- MCNameOrder
  ScalarTexts <- MCScalarTexts
  MaxNesting = 3
  Types = {"yara", "clamav"}
  UnknownType = "other"
  NoType = NoType
  Files = {"f1", "f2"}
  Fields <- MCFields
  Docs <- MCDocs
  SampleDocs <- MCSampleDocs
  Terms <- MCTerms
  MaxDocs = 2
  MaxPieces = 3
  MaxRes <- MCMaxRes
  DefaultMax = 5
  LinkMax = 1
  NotANumber = NotANumber
  MaxRows = 2
  FacetSize = 1
INVARIANTS
  DocsRender
  TermsAsDocumented
  LinksKeepTheResult
