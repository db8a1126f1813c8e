------------------------------- MODULE Lists --------------------------------
(* What several parts of the program do with a slice: pick out what stands *)
(* at some of its places, and add up what is in front of a place.          *)
EXTENDS Integers, FiniteSets, SequencesExt

\* What stands at these places, in the order in which it stands there.
AtPlaces(s, places) ==
  LET place == CHOOSE t \in [1 .. Cardinality(places) -> places] :
                 Range(t) = places /\ \A m, n \in DOMAIN t : m < n => t[m] < t[n]
  IN  [n \in 1 .. Cardinality(places) |-> s[place[n]]]

\* The sum of the first n numbers of a list, for every n.
Sums(s) ==
  LET upTo[n \in 0 .. Len(s)] == IF n = 0 THEN 0 ELSE upTo[n - 1] + s[n]
  IN  upTo
=============================================================================
