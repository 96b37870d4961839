----------------------------- MODULE MCLogger -----------------------------
(* Instances of Logger for TLC. *)
EXTENDS Logger, TLC

\* a line that only just fits, argument by argument, and a short one
SomeMessages == {[formatted |-> FALSE, args |-> <<6, 1>>],
                 [formatted |-> TRUE, args |-> <<2>>]}

ThreadSymmetry == Permutations(Threads)
=============================================================================
