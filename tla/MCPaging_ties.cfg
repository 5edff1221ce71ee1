SPECIFICATION Spec
CONSTANTS
  Docs <- MCFewDocs
  ByArtist = {}
  Orders <- MCAnyOrder
  Limit = 2
CHECK_DEADLOCK FALSE
INVARIANT ShownAreTotal
