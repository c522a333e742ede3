CONSTANTS
  MaxLexemes = 11
  Texts <- MCTexts
  Given = {0, 4}
SPECIFICATION ParseSpec
INVARIANTS TypeOK PassesAgree WalkStaysInside JsonIsWalkedInStep
PROPERTY ParseReturns
CHECK_DEADLOCK FALSE
