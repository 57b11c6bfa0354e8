SPECIFICATION FairSpec
INVARIANTS TypeOK  AsksForTheRightThing RelaysAnswer RedirectionsFollowed ResultsAsPromised
PROPERTIES CallsEnd
CHECK_DEADLOCK FALSE
CONSTANTS
  Characters <- MCCharacters
  Chars <- Letters
  Slash = "/"
  IntMax = 9
  Driver = TRUE
  DefaultPrefix <- MCDefaultPrefix
  Handlers <- MCHandlers
  Requests <- MCRequests
  Replies <- MCReplies
  Texts <- MCTexts
  MAX_REDIRECTS = 3
