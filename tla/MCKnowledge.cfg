CONSTANTS
  d1 = d1
  d2 = d2
  r1 = r1
  r2 = r2
  None = None
  Docs <- MCDocs
  Contents <- MCContents
  Texts <- MCTexts
  Size = 8
  Overlap = 4
  MinRepeat = 2
  MaxRepeat = 5
  MaxChunks = 3
  MaxText = 13
  Requests <- MCRequests
SPECIFICATION Spec
INVARIANTS TypeOK ReadyIsSearchable FailedIsClean GuidesReadAsText
PROPERTIES IndexingEnds
