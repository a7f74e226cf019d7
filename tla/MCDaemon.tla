------------------------------- MODULE MCDaemon ------------------------------
EXTENDS Daemon

CONSTANTS p1, p2, p3, q1, q2

\* p1 and p3 share a queue with a disk behind it, which may hold events of an
\* earlier process; p2, between them in the dict, has its own queue in memory.
MCPaths == <<p1, p2, p3>>
MCQueue == {q1, q2}
MCDiskBacked == {q1}
MCQueueOf == [p \in {p1, p2, p3} |-> IF p = p2 THEN q2 ELSE q1]
\* Two lines of p1 abort a read if the queue is full from the start.
MCMaxInput == [p \in {p1, p2, p3} |-> IF p = p1 THEN 2 ELSE 1]
==============================================================================
