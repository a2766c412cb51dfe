SPECIFICATION MCSpec
CONSTANTS
  c1 = c1
  c2 = c2
  Shops = {s1}
  Customers = {u1, u2}
  Ratings = {4, 5}
  MaxReviews = 3
  ReviewCalls = {c1, c2}
  NoCall = NoCall
  Designs = {d1}
  Tags = {t1}
  OldTags = {}
  Fans = {u1}
  AdminCalls = {c1, c2}
  WishCalls = {c1, c2}
  NoDesign = NoDesign
  NoTag = NoTag
  Taps = {c1, c2, c3}
  MaxTaps = 5
  Stores = {y1, y2}
  Foreign = {y2}
  OwnShops = {y3}
  PageSizes = {1, 2}
  PageLimits = {2}
  Syncs = {c1, c2}
  MaxRow = 3
  RowTimes = {1, 2}
  Sizes = {1, 2}
  Images = {e1, e2}
  Uploads = {c3}
  Cleanups = {c3}
  Hours = {17, 23}
  MaxDay = 1
  Candidates = {1, 2, 3}
  Distance <- MCDistance
  Policy <- MCPolicy
  Quotes = {1, 2}
  NoPrice = NoPrice
  MaxQuotes = 3
  Browsers = {b1, b2}
  Logins = {l1, l2}
  Callbacks = {c1, c2}
  NoState = NoState
  Environments <- MCEnvironments
SYMMETRY MCSymmetry
INVARIANTS
  SystemTypeOK
  RatingIsExact
  ReviewsAreEarned
  WishAnswersTrue
  OffOncePerHeart
  ScrollShowsAll
  OffersTheBest
  LoginsEndAtHome
  RequestsAreRouted
PROPERTIES
  SyncIsFaithful
  BucketIsRight
CHECK_DEADLOCK FALSE
