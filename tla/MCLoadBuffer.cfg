CONSTANTS
  MaxFile = 4
  MaxUsize = 3
  MaxResizes = 2
  Uint <- MCUint
  Names <- MCNames
  Uris <- MCUris
  Files <- MCFiles
  Encoded <- MCEncoded
SPECIFICATION LoadSpec
INVARIANTS TypeOK NothingLeftBehind OnlyCompleteReads DecodersAreRight
PROPERTY CallsComeBack
CHECK_DEADLOCK FALSE
