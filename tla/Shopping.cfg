SPECIFICATION Spec
CONSTANTS
  r1 = r1
  r2 = r2
  i1 = i1
  i2 = i2
  Request = {r1, r2}
  Item = {i1, i2}
  Content <- MCContent
  NoContent = NoContent
  Unused = Unused
  Deleted = Deleted
  Within <- MCWithin
SYMMETRY Symmetry
PROPERTY ClearedIsClear
PROPERTY ClearSparesOpenItems
PROPERTY VoiceNeverGuesses
PROPERTY DuplicatesNeedOverlap
PROPERTY EditsStayOnTheList
