\* every program on its inputs, and the shift register with four cells
SPECIFICATION ProgramsSpec
CONSTANTS
  BufSize = 4096
  BlockSize = 8
  WordBytes = 1
  WordValues = 256
  Start <- NoBlocks
  Transform <- BlocksAnd
  DigitBits = 2
  Radix = 3
  RemovalPoints <- MCRemovalPoints
  BuffSize = 4
  Value = {0, 1, 2}
  Default = 0
  Size = 4
  Filling <- MCFilling
  Texts <- MCTexts
  Flags <- MCFlags
  Data <- MCData
  Messages <- MCMessages
  Names <- MCNames
  Crackmes <- MCCrackmes
  Divisions <- MCDivisions
  Agreements <- MCAgreements
  Exchanges <- MCExchanges
INVARIANTS LettersAreWhole FlagIsRecovered Base64IsExact DigestIsOfTheMessage OnlyFlagWins
INVARIANTS KeysAgree TextsSurvive
PROPERTY ShiftSpec
CHECK_DEADLOCK FALSE
