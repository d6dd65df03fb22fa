SPECIFICATION Spec
CONSTANTS
  Accounts = {a}
  PhotoAccounts = {a}
  Nobody = Nobody
INVARIANTS LifecycleVisible
