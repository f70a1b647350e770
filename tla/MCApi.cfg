SPECIFICATION FairSpec
CONSTANTS
  Requests <- MCRequests
  Accounts <- MCAccounts
  Admins <- MCAdmins
  EmailOf <- MCEmailOf
  OpeningBalance = 2
  Browsers <- MCBrowsers
  SessionOf <- MCSessionOf
  Emails <- MCEmails
  Passwords = {"old", "new"}
  InitialPassword = "old"
  Prices = {0, 1}
  BasePrice = 1
  Documents <- MCDocuments
  Batches = {"batch", "late"}
  Finished = {"check", "late"}
  OwnerOf <- MCOwnerOf
  PoolSize = 2
  MaxFaults = 1
  Calls <- MCCalls
  Scenarios <- MCScenarios
  None = None
INVARIANTS
  TypeOK
  PaidIsStored
  AnswersTellPurchases
  PriceWasInForce
  EverythingIsGivenBack
  InsideIsKnown
  OneAccountPerEmail
  NothingIsLeftBehind
PROPERTIES
  SessionsFollowLogins
  DownloadsInPeaceAreWhole
  KeepsPromise
  EveryRequestAnswered
