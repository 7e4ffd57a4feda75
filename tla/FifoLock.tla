------------------------------- MODULE FifoLock -------------------------------
(***************************************************************************)
(* What lib/mutex.js promises to its callers: a fair exclusive lock.  The  *)
(* callers of run() stand in one line, in the order in which they called;  *)
(* only the caller at the head of the line is ever inside the function it  *)
(* passed, and only it leaves the line.                                    *)
(***************************************************************************)
EXTENDS Sequences

CONSTANT Caller

VARIABLES line,      \* the callers, head first, that have called run() and not left
          inside     \* the callers whose function has started and not ended

lockVars == <<line, inside>>

Init == /\ line = <<>>
        /\ inside = {}

Join(c) == /\ \A i \in DOMAIN line : line[i] # c
           /\ line' = Append(line, c)
           /\ UNCHANGED inside

Start(c) == /\ line # <<>>
            /\ Head(line) = c
            /\ inside = {}
            /\ inside' = {c}
            /\ UNCHANGED line

Leave(c) == /\ line # <<>>
            /\ Head(line) = c
            /\ inside = {c}
            /\ line' = Tail(line)
            /\ inside' = {}

Next == \E c \in Caller : Join(c) \/ Start(c) \/ Leave(c)

Spec == Init /\ [][Next]_lockVars
===============================================================================
