\* Searches in a catalogue of seven; titles of up to two descriptors; strings
\* of up to four runes.
SPECIFICATION MatchSpec
CONSTANTS
  Names <- MCNames
  Similarity <- MCSimilarity
  Wanted <- MCWanted
  Catalogue <- MCCatalogue
  NoCode = NoCode
  I1 = I1
  I2 = I2
  MaxResults = 2
  TopN = 1
  AutoAt = 850
  ReviewAt = 600
  Vocabulary = {"silva", "radio", "remix", "vip", "club", "mix"}
  MaxWords = 3
  MaxDescs = 2
  Runes = {"x", "y"}
  MaxLen = 4
INVARIANTS
  SearchTypeOK
  AutoIsEvident
  UnmatchedWasAsked
  QueueKeepsTheBest
  
  
  RowsAreDistances
  RatioIsASimilarity
CHECK_DEADLOCK FALSE
