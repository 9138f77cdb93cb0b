\* Two descriptors; names of up to 5 symbols; tables of up to 17 characters, so
\* of two lines, of an entry with a comment, or of one with a fourth word.  The
\* task may be killed, hence no check for deadlock.
SPECIFICATION FstabSpec
CHECK_DEADLOCK FALSE
CONSTANTS
  File = {"/", "/a", "/a/a", "fs"}
  Root = "/"
  NoFile = NoFile
  Tree = {"plain", "mounted"}
  Lookup <- MCLookup
  Symbol = {"/", "a", ".."}
  Path <- MCPath
  Arg <- MCArg
  FstabPath <- MCFstabPath
  Text <- MCText
  Fd = {0, 1}
  Capacity = 2
  Size = {0, 2, 9}
INVARIANTS
  FstabTypeOK
  NameIsCwd
  StringsAccounted
  MountsAreEntries
PROPERTIES
  DescriptorReturned
  MainReached
