--------------------------- MODULE MCSessionSeed ----------------------------
(* With four channels, seeds that make both steps of the shuffle exchange *)
(* different entries.                                                     *)
EXTENDS SessionSeed

Draws(third, fourth) == [i \in Steps(Channels) |-> IF i = 3 THEN third ELSE fourth]
MCSeeds == { Draws(0, 1), Draws(1, 0), Draws(0, 2) }
MCBootSeed == Draws(0, 1)
=============================================================================
