SPECIFICATION Spec
CONSTANTS
  Docs <- MCDocs
  ByArtist <- MCDocs
  Orders <- MCOneOrder
  Limit = 2
CHECK_DEADLOCK FALSE
INVARIANTS TypeOK ShownAreTotal NoneSkipped NoneTwice OneSearch AnswerIsCoherent
