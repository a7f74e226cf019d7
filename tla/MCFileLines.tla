----------------------------- MODULE MCFileLines -----------------------------
EXTENDS FileLines

CONSTANTS same, half, bad

\* The first two pieces have the same text: a file that begins with the second
\* can be taken for one that began with the first.
MCText == <<same, same, half, bad>>
MCHalf == {half}
MCUndated == {bad}
==============================================================================
