CONSTANTS
  Length = 2
  Entries <- MCEntries
  Empty = none
  Last = 1
  Span <- MCSpan
  EraseCount = 0
  Images <- MCImages
  Data = {"d1", "d2"}
  Singles <- MCSingles
  Backlog = 1
  MaxSessions = 2
  MaxFaults = 1
SPECIFICATION FairSpec
INVARIANTS
  TypeOK
  InStep
  PagesAsSent
  NeverClashes
  ProgrammedIsWritten
  MatchMeansWritten
PROPERTY MuxReturned
\* A run of the tool is finite; so are the faults.
CHECK_DEADLOCK FALSE
