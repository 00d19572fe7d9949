---------------------------- MODULE HopSequence -----------------------------
(***************************************************************************)
(* The order in which the channels are visited (fhss_hop_sequence.c): a    *)
(* shuffle of the indices 0..n-1 that leaves index 0, the rendezvous       *)
(* channel, in its place.  A seed stands for the numbers xorshift32 draws  *)
(* from it: the number drawn for step i is seed[i].                        *)
(***************************************************************************)
EXTENDS Integers

Steps(n) == 3..n

\* Faulty: the rendezvous channel may be exchanged as well.
AnyIndex(i, drawn) == drawn % i

\* Step i exchanges index i - 1 with one of 1..i-1.
Selected(i, drawn) == 1 + (drawn % (i - 1))

Exchange(order, a, b) == [order EXCEPT ![a] = order[b], ![b] = order[a]]

\* The permutation after the steps n down to 3.
Permutation(n, seed) ==
  LET after[i \in 2..n] ==
        IF i = n THEN [position \in 0..n - 1 |-> position]
        ELSE Exchange(after[i + 1], i, Selected(i + 1, seed[i + 1]))
  IN  after[2]

\* fhss_hop_sequence_get_index.
IndexAt(n, seed, slot) == Permutation(n, seed)[slot % n]
=============================================================================
