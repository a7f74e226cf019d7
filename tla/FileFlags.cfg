CONSTANTS
  Word <- MCWord
  Default <- MCDefault
  Flag = {"verbose"}
  Named = {"log_level", "config_file"}
  FileNames = {"f1", "f2"}
  Numeral = {"0.5", "1", "2", "3"}
  Kws <- MCKws
  Args <- MCArgs
  Files <- MCFiles
  Pattern = {"a", "b", "c", "d"}
  Rname <- MCRname
  Searches <- MCSearches
  Found <- MCFound
  Text = {"l1", "l2", "l3", "v", "10", "20", "junk"}
  None = "none"
  ParseTime = "t"
  TimeOf <- MCTimeOf
  NotADate = 99
  Inputs <- MCInputs
  MaxLines = 3
  Path = "/p"
SPECIFICATION Spec
INVARIANT FileFlagsHeard
CHECK_DEADLOCK FALSE
