SPECIFICATION DesignSpec
CONSTANTS
  Designs = {d1}
  Tags = {t1}
  OldTags = {}
  Fans = {f1}
  AdminCalls = {a1, a2}
  WishCalls = {w1, w2}
  NoDesign = NoDesign
  NoTag = NoTag
INVARIANT MissingForAdminsIsTrue
CHECK_DEADLOCK FALSE
