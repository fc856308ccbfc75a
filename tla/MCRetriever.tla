---------------------------- MODULE MCRetriever ----------------------------
(* Constants of the TLC instance of Retriever.                             *)
EXTENDS Retriever

CONSTANTS k1, k2, c1, c2, w1, w2, r1

\* c2 is the longer one.
MCTokenCount == [c \in Content |-> IF c = c1 THEN 1 ELSE 2]

\* Everything that matches, up to two; and only c1, with room for one.
MCQueryInput == {
    [match |-> {c1, c2}, filter |-> {c1, c2}, top_k |-> 2, token_budget |-> 0],
    [match |-> {c2}, filter |-> {c1}, top_k |-> 0, token_budget |-> 1]}

\* Nothing tells ids or writers apart.
Symmetry == Permutations(Id) \cup Permutations(Writer)
=============================================================================
