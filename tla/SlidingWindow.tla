---------------------------- MODULE SlidingWindow ----------------------------
(* The window of createRateLimiter: the hits of one key and what consume()    *)
(* makes of them.  A hit is its time, "at", and which hit of the key it is,   *)
(* "n": the array's times may be equal, the hits of a set are not.            *)
EXTENDS Integers, FiniteSets

\* Mutant: the window is closed at both ends.
RecentClosed(stamps, at, window) == {h \in stamps : h.at >= at - window}

\* Mutant: a hit leaves the window one unit early.
RecentShort(stamps, at, window) == {h \in stamps : h.at > at - window + 1}

\* The hits still in the window that ends at "at".
Recent(stamps, at, window) == {h \in stamps : h.at > at - window}

Full(stamps, at, max, window) == Cardinality(Recent(stamps, at, window)) >= max

\* What is kept of the hits after consume() was called at "at": those of the
\* window, and the hit it records, if it does.
Consumed(stamps, at, hit, max, window) ==
  Recent(stamps, at, window) \cup (IF Full(stamps, at, max, window) THEN {} ELSE {hit})
=============================================================================
