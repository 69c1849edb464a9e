------------------------------ MODULE ByteRuns ------------------------------
(***************************************************************************)
(* The bytes of a file.  A byte is represented by its offset, so two bytes *)
(* are equal exactly when they are the same byte of the file.              *)
(***************************************************************************)
EXTENDS Integers, Sequences

\* The bytes from, from + 1, ..., from + n - 1 of a file.
Run(from, n) == [i \in 1..n |-> from + i - 1]

Least(a, b) == IF a <= b THEN a ELSE b
=============================================================================
