SPECIFICATION Spec
CONSTANTS
  Types = {journal, payment}
  Texts = {blank, first, second}
  Blank = blank
  Other = other
  MaxDrafts = 2
  MaxClock = 3
  Nil = Nil
INVARIANTS
  TypeOK
  PostedDraftIsGone
  InputIsSaved
  NothingLeavesUnasked
PROPERTIES
  DraftsGoForward
