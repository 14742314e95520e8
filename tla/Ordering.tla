----------------------------- MODULE Ordering ------------------------------
(***************************************************************************)
(* Order of sequences of numbers, for queues whose items are numbered in   *)
(* the order they were given.                                              *)
(***************************************************************************)
EXTENDS Naturals, Sequences, Functions

\* a later element is larger: first in, first out, and nothing twice
StrictlyIncreasing(s) == \A j, k \in DOMAIN s : j < k => s[j] < s[k]

\* everything in s comes before everything in t
Before(s, t) == \A j \in DOMAIN s, k \in DOMAIN t : s[j] < t[k]

\* everything in s is older than n
Below(s, n) == \A j \in DOMAIN s : s[j] < n
=============================================================================
