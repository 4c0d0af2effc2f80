SPECIFICATION FairSpec
CONSTANTS
  t1 = t1
  t2 = t2
  refresher = refresher
  operator = operator
  place = place
  accounts = accounts
  Refresher = {refresher}
  MaxStores = 2
  MaxFailures = 1
  Op = {place, accounts}
  Thread = {t1, t2}
  Operator = {operator}
  Cast <- Casts
INVARIANTS OrdersFollowSettings TabsAreTrue
PROPERTIES AccountSettles
