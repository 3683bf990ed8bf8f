SPECIFICATION MCSpec
CONSTANTS
  Null = Null
  Absent = Absent
  Nothing = Nothing
  Keys <- MCKeys
  Values <- MCValues
  DefaultExpandRate = 2
  Urls <- MCUrls
  Length <- MCLength
  Replies <- MCReplies
  Garbage <- MCGarbage
  MaxPlaces = 4
INVARIANTS
  TypeOK
  FillsExactly
  ServerSeesUrl
  CompleteUrlWorks
  OutsideOnlyWhenShort
PROPERTIES
  ReplyIsUnderstood
  ImplementsMap
CHECK_DEADLOCK FALSE
