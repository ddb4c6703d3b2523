SPECIFICATION Spec
CONSTANTS
  Texts <- MCTexts
  Length <- MCLength
  Values <- MCValues
  Units = 4
  UShortSpan = 16
  a = a
  b = b
INVARIANTS
  TypeOK
  ReadsBackWhatFits
  NeverMixes
  StaysInside
  SendsWhatFits
