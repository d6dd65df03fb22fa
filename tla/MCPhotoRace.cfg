SPECIFICATION Spec
CONSTANTS
  Accounts = {a}
  PhotoAccounts = {a}
  Nobody = Nobody
PROPERTIES ReplacesOnlyPhoto
