---------------------------- MODULE MCRootSearch ----------------------------
(* The instances of RootSearch that TLC checks. *)
EXTENDS RootSearch

\* BOUND: a mated score and two ordinary ones; a mate for the side to move comes from
\* RootMates.  With the deltas below a value may fall inside a window, fail low or high
\* once, or fail until the window is full.
MCScores == {-8, 0, 3}
=============================================================================
