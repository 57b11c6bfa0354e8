SPECIFICATION Spec
INVARIANTS TypeOK ObjectsAccounted QueryAsTyped AnswersInJSON ResultsAsPromised
SYMMETRY Symmetry
CHECK_DEADLOCK FALSE
CONSTANTS
  Characters <- MCCharacters
  Threads = {t1, t2}
  Connections = {c1, c2, c3}
  NoConnection = NoConnection
  Uris <- MCUris
  Tables <- MCTables
  Counts = {0, 1}
  Symbol <- Ascii
  Queries <- MCQueries
