SPECIFICATION FairSpec
CONSTANTS
  Accounts = {a, b}
  PhotoAccounts = {a}
  Nobody = Nobody
INVARIANTS FetchAfterSetup ResetExcludesSetup OutcomeTruth CurrentPage
           PhotoBelongs ResetSticks
PROPERTIES ServiceContract SetupEnds ScreenLeaves FetchEnds ResetEnds
