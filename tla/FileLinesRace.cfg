CONSTANTS
  SBytes = 2
  same = same
  half = half
  bad = bad
  Text <- MCText
  Half <- MCHalf
  Undated <- MCUndated
  Racing = TRUE
  MaxLines = 4
  MaxReplaced = 2
  MaxTime = 3
  MaxKills = 2
SPECIFICATION Spec
INVARIANT NoSkip
