CONSTANTS
  seat = seat
  lang = lang
  path = path
  a = a
  b = b
  Unset = Unset
  Keys <- MCKeys
  LoginKeys <- MCLogin
  LocaleKeys <- MCLocale
  Values <- MCValues
  MaxCalls = 4
SPECIFICATION Spec
CHECK_DEADLOCK FALSE
INVARIANTS TypeOK UploadRepairs NothingReturns
PROPERTY LoginKeysStay
