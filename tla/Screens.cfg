SPECIFICATION ScreensSpec
CONSTANTS
  Requests <- MCRequests
  Chains <- MCChains
  NameOrder <- MCNameOrder
  WIPE_HOLD_FRAMES = 3
  DIGITS = 3
  PIN_MIN_LEN = 1
  PIN_MAX_LEN = 2
  LETTERS = 3
  MAX_PREFIX = 3
  CANDS_CAP = 2
  BIP39_WORDS_COUNT = 4
  BIP39_WORDS <- MCWords
  ChecksumOk <- MCChecksumOk
  KeysAtOnce = 2
INVARIANTS
  TypeOK
  DecodedIsSent
  DecodedCallIsTheData
  DrainerWarned
  ContentSeen
  NoByteSkipped
  HonestHostMatches
  ParsedIsAsked
  SecretIsReviewed
  CandidatesAreCurrent
PROPERTIES
  ConsentKept
  ChordTogglesOnce
  WipeIsHeld
  AcceptedWasShown
