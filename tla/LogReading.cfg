\* Up to two archives of files of at most two bytes, writes that fit and writes
\* that do not, three writes in all, and pages that ask for two lines.
SPECIFICATION ReadingSpec
CONSTANTS
  Top = 2
  Sizes = {2}
  Lengths = {1, 2}
  MaxWrites = 3
  Lines = 2
  Missing = Missing
INVARIANTS InOrder RunsApart TailWithoutHoles DownloadInOrder StreamCurrent
PROPERTIES WriteBounded OldestGoFirst
