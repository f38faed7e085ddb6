\* Two new tills and a FumasV5 one, two baskets, a fault; or one till's screens, two
\* users, one of them a cashier, two databases, and one statement or save that fails.
SPECIFICATION TillSpec
CONSTANTS
  Till = {t1, t2}
  Nobody = Nobody
  Goods <- Stocked
  Over = {150}
  VatRate = 16
  MaxLine = 2
  MaxDeal = 2
  MaxLegacy = 1
  MaxFault = 1
  User = {u1, u2}
  NoUser = NoUser
  u1 = u1
  u2 = u2
  Right <- Rights
  Base = {b1, b2}
  Home = b1
  Key = {today, other}
  Today = today
  Nothing = Nothing
  MaxTap = 2
  MaxSale = 2
  MaxAsk = 5
  MaxSave = 1
  MaxMishap = 1
SYMMETRY Symmetry
INVARIANTS JournalBalances NumbersDiffer BookedAsPressed PicksReachTheReceipt
CHECK_DEADLOCK FALSE
