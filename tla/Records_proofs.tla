--------------------------- MODULE Records_proofs ---------------------------
(***************************************************************************)
(* Six of the services, for any number of goroutines, guilds and pages and for *)
(* files of any layout: the saved queues, the caches of the Tidal client, the *)
(* playlists that come into a queue, the records of users, the dashboards, and *)
(* how the samples of a song are found and read.  First what is true of the *)
(* operators on lists; then for each service an inductive invariant and what *)
(* follows from it.  MCServices_proofs puts them together.                 *)
(***************************************************************************)
EXTENDS SavedQueues, TidalCache, PlaylistIntake, UserRecords, Dashboard, MediaFile,
        FiniteSetTheorems, SequenceTheorems, WellFoundedInduction, TLAPS

-----------------------------------------------------------------------------
(* Lists of numbers, and what stands at places *)

\* In ascending order.
Ascends(s) == \A i, j \in DOMAIN s : i < j => s[i] < s[j]

\* A set of numbers has a least one.
LEMMA LeastNumber ==
  ASSUME NEW S, S \subseteq Nat, S # {}
  PROVE  \E x \in S : \A y \in S : x <= y
<1> DEFINE R == OpToRel(<, Nat)
<1>1. IsWellFoundedOn(R, Nat)
  BY NatLessThanWellFounded, Zenon
<1>2. \A x \in Nat, y \in Nat : y < x => <<y, x>> \in R
  BY Zenon DEF OpToRel
<1> HIDE DEF R
<1>3. PICK x \in S : \A y \in S : ~ (<<y, x>> \in R)
  BY <1>1, WFMin
<1>4. ASSUME NEW y \in S
      PROVE  x <= y
  <2>1. ~ (y < x)
    BY <1>2, <1>3
  <2> QED
    BY <2>1
<1> QED
  BY <1>4

\* A set of numbers below a bound has a greatest one.
LEMMA GreatestNumber ==
  ASSUME NEW n \in Nat, NEW S, S \subseteq 0 .. n, S # {}
  PROVE  \E x \in S : \A y \in S : y <= x
<1> DEFINE T == {n - x : x \in S}
<1>1. T \subseteq Nat /\ T # {}
  <2>1. T \subseteq Nat
    OBVIOUS
  <2>2. PICK x : x \in S
    OBVIOUS
  <2>3. n - x \in T
    BY <2>2
  <2> QED
    BY <2>1, <2>3
<1>2. PICK d \in T : \A e \in T : d <= e
  BY <1>1, LeastNumber
<1>3. PICK x \in S : d = n - x
  BY <1>2
<1>4. ASSUME NEW y \in S
      PROVE  y <= x
  <2>1. n - x <= n - y
    BY <1>2, <1>3
  <2>2. x \in Nat /\ y \in Nat
    BY <1>3
  <2> QED
    BY <2>1, <2>2
<1> QED
  BY <1>3, <1>4

\* Induction, over a set: what has 0 and with every number below a bound the next one has all
\* numbers up to the bound.
LEMMA AllUpTo ==
  ASSUME NEW n \in Nat, NEW S, S \subseteq Nat, 0 \in S,
         \A k \in S : k < n => k + 1 \in S
  PROVE  0 .. n \subseteq S
<1> SUFFICES ASSUME ~ (0 .. n \subseteq S)
             PROVE  FALSE
  OBVIOUS
<1> DEFINE T == {k \in 0 .. n : k \notin S}
<1>1. T \subseteq Nat /\ T # {}
  OBVIOUS
<1>2. PICK k \in T : \A j \in T : k <= j
  BY <1>1, LeastNumber
<1>3. k \in Nat /\ k <= n /\ k \notin S /\ k # 0
  BY <1>2
<1>4. k - 1 \in 0 .. n /\ k - 1 < n /\ ~ (k <= k - 1)
  BY <1>3
<1>5. k - 1 \in S
  BY <1>2, <1>4
<1>6. (k - 1) + 1 \in S /\ (k - 1) + 1 = k
  BY <1>3, <1>4, <1>5
<1> QED
  BY <1>3, <1>6

\* The members of a finite set of numbers stand in order: as many as there are below a number
\* say its place.
LEMMA OrderExists ==
  ASSUME NEW S, S \subseteq Nat, IsFiniteSet(S), NEW n \in Nat, Cardinality(S) = n
  PROVE  \E t \in [1 .. n -> S] :
           Range(t) = S /\ \A i, j \in 1 .. n : i < j => t[i] < t[j]
<1> DEFINE Below(x) == {y \in S : y < x}
           place == [x \in S |-> Cardinality(Below(x)) + 1]
<1>1. ASSUME NEW x \in S
      PROVE  IsFiniteSet(Below(x)) /\ Cardinality(Below(x)) \in 0 .. n - 1
  <2>1. Below(x) \in SUBSET S /\ x \notin Below(x)
    OBVIOUS
  <2>2. IsFiniteSet(Below(x)) /\ Cardinality(Below(x)) <= n /\ Cardinality(Below(x)) # n
    BY <2>1, FS_Subset
  <2>3. Cardinality(Below(x)) \in Nat
    BY <2>2, FS_CardinalityType
  <2> QED
    BY <2>2, <2>3
<1>2. place \in [S -> 1 .. n]
  BY <1>1
<1>3. ASSUME NEW x \in S, NEW y \in S, x < y
      PROVE  place[x] < place[y]
  <2>1. Below(x) \in SUBSET Below(y) /\ x \in Below(y) /\ x \notin Below(x)
    <3>1. \A z \in S : z < x => z < y
      BY <1>3
    <3>2. ~ (x < x)
      OBVIOUS
    <3>3. Below(x) \in SUBSET Below(y)
      BY <3>1
    <3> QED
      BY <1>3, <3>2, <3>3
  <2>2. Cardinality(Below(x)) <= Cardinality(Below(y)) /\ Cardinality(Below(x)) # Cardinality(Below(y))
    BY <1>1, <2>1, FS_Subset
  <2> QED
    BY <1>1, <2>2
<1> HIDE DEF place
<1>4. \A x, y \in S : place[x] = place[y] => x = y
  <2> SUFFICES ASSUME NEW x \in S, NEW y \in S, place[x] = place[y], x # y
               PROVE  FALSE
    OBVIOUS
  <2>1. x < y \/ y < x
    OBVIOUS
  <2>2. place[x] \in Nat /\ place[y] \in Nat
    BY <1>2
  <2> QED
    BY <1>3, <2>1, <2>2
<1>5. place \in Surjection(S, 1 .. n)
  <2>1. place \in Injection(S, 1 .. n)
    BY <1>2, <1>4 DEF Injection, IsInjective
  <2>2. IsFiniteSet(1 .. n) /\ Cardinality(1 .. n) = n
    BY FS_Interval
  <2> QED
    BY <2>1, <2>2, FS_Injection
<1>6. \A i \in 1 .. n : \E x \in S : place[x] = i
  BY <1>5 DEF Surjection
<1> DEFINE t == [i \in 1 .. n |-> CHOOSE x \in S : place[x] = i]
<1>7. \A i \in 1 .. n : t[i] \in S /\ place[t[i]] = i
  BY <1>6
<1>8. t \in [1 .. n -> S]
  BY <1>7
<1> HIDE DEF t
<1>9. Range(t) = S
  <2>1. ASSUME NEW x \in S
        PROVE  t[place[x]] = x
    BY <1>2, <1>4, <1>7
  <2>2. \A x \in S : place[x] \in 1 .. n
    BY <1>2
  <2> QED
    BY <1>8, <2>1, <2>2 DEF Range
<1>10. ASSUME NEW i \in 1 .. n, NEW j \in 1 .. n, i < j
       PROVE  t[i] < t[j]
  <2>1. t[i] \in S /\ t[j] \in S /\ place[t[i]] = i /\ place[t[j]] = j
    BY <1>7
  <2>2. ASSUME NEW x \in S, NEW y \in S, place[x] = i, place[y] = j
        PROVE  x < y
    <3>1. x \in Nat /\ y \in Nat /\ x # y
      BY <1>10, <2>2
    <3>2. CASE y < x
      BY <1>3, <1>10, <2>2, <3>2
    <3> QED
      BY <3>1, <3>2
  <2> QED
    BY <2>1, <2>2
<1> QED
  BY <1>8, <1>9, <1>10

\* What stands at places: each is one of them, and they stand in order.
LEMMA AtPlacesFacts ==
  ASSUME NEW S, NEW s \in Seq(S), NEW places \in SUBSET (DOMAIN s)
  PROVE  \E place \in [1 .. Cardinality(places) -> places] :
           /\ Cardinality(places) \in Nat
           /\ AtPlaces(s, places) = [k \in 1 .. Cardinality(places) |-> s[place[k]]]
           /\ AtPlaces(s, places) \in Seq(S)
           /\ Len(AtPlaces(s, places)) = Cardinality(places)
           /\ \A a, b \in 1 .. Cardinality(places) : a < b => place[a] < place[b]
           /\ \A i \in places : \E k \in 1 .. Cardinality(places) : place[k] = i
<1> DEFINE n == Cardinality(places)
           Placed(t) == Range(t) = places /\ \A a, b \in DOMAIN t : a < b => t[a] < t[b]
           place == CHOOSE t \in [1 .. n -> places] : Placed(t)
<1>1. DOMAIN s = 1 .. Len(s) /\ Len(s) \in Nat
  OBVIOUS
<1>2. places \subseteq Nat /\ IsFiniteSet(places) /\ n \in Nat
  <2>1. IsFiniteSet(1 .. Len(s))
    BY <1>1, FS_Interval
  <2>2. IsFiniteSet(places)
    BY <1>1, <2>1, FS_Subset
  <2> QED
    BY <1>1, <2>2, FS_CardinalityType
<1> HIDE DEF n
<1>3. \E t \in [1 .. n -> places] :
        Range(t) = places /\ \A a, b \in 1 .. n : a < b => t[a] < t[b]
  BY <1>2, OrderExists DEF n
<1>4. \E t \in [1 .. n -> places] : Placed(t)
  BY <1>3
<1>5. place \in [1 .. n -> places] /\ Placed(place)
  BY <1>4
<1>6. AtPlaces(s, places) = [k \in 1 .. n |-> s[place[k]]]
  BY DEF AtPlaces, n
<1> HIDE DEF place
<1>7. \A k \in 1 .. n : s[place[k]] \in S
  BY <1>5
<1>8. \A i \in places : \E k \in 1 .. n : place[k] = i
  BY <1>5 DEF Range
<1>9. AtPlaces(s, places) \in Seq(S) /\ Len(AtPlaces(s, places)) = n
  BY <1>2, <1>6, <1>7
<1>10. \A a, b \in 1 .. n : a < b => place[a] < place[b]
  BY <1>5
<1> QED
  BY <1>2, <1>5, <1>6, <1>8, <1>9, <1>10 DEF n

\* The sums of a list of numbers.
LEMMA SumsFacts ==
  ASSUME NEW s \in Seq(Nat)
  PROVE  /\ Sums(s) \in [0 .. Len(s) -> Nat] /\ Sums(s)[0] = 0
         /\ \A n \in 1 .. Len(s) : Sums(s)[n] = Sums(s)[n - 1] + s[n]
<1> DEFINE N == Len(s)
           Sum(f, n) == f = [k \in 0 .. n |-> IF k = 0 THEN 0 ELSE f[k - 1] + s[k]]
           S == {n \in 0 .. N : \E f : Sum(f, n)}
<1>1. N \in Nat
  OBVIOUS
<1>2. 0 \in S
  <2>1. Sum([k \in 0 .. 0 |-> 0], 0)
    OBVIOUS
  <2>2. \E f : Sum(f, 0)
    <3> HIDE DEF Sum
    <3> QED
      BY <2>1
  <2> QED
    BY <1>1, <2>2
<1>3. ASSUME NEW n \in S, n < N
      PROVE  n + 1 \in S
  <2>1. PICK f : Sum(f, n)
    OBVIOUS
  <2> DEFINE g == [k \in 0 .. n + 1 |-> IF k = n + 1 THEN f[n] + s[n + 1] ELSE f[k]]
  <2>2. ASSUME NEW k \in 0 .. n + 1
        PROVE  g[k] = IF k = 0 THEN 0 ELSE g[k - 1] + s[k]
    <3>1. CASE k = n + 1
      BY <1>1, <3>1
    <3>2. CASE k # n + 1
      <4>1. k \in 0 .. n /\ g[k] = f[k]
        BY <1>1, <3>2
      <4>2. f[k] = IF k = 0 THEN 0 ELSE f[k - 1] + s[k]
        BY <2>1, <4>1
      <4>3. k # 0 => k - 1 \in 0 .. n + 1 /\ k - 1 # n + 1
        BY <1>1, <4>1
      <4> QED
        BY <4>1, <4>2, <4>3
    <3> QED
      BY <3>1, <3>2
  <2>3. DOMAIN g = 0 .. n + 1
    OBVIOUS
  <2>4. g = [k \in 0 .. n + 1 |-> g[k]]
    OBVIOUS
  <2> HIDE DEF g
  <2>5. Sum(g, n + 1)
    BY <2>2, <2>3, <2>4
  <2>6. \E h : Sum(h, n + 1)
    <3> HIDE DEF Sum
    <3> QED
      BY <2>5
  <2>7. n + 1 \in 0 .. N
    BY <1>1, <1>3
  <2> HIDE DEF Sum
  <2> QED
    BY <2>6, <2>7
<1>4. N \in S
  <2> HIDE DEF S
  <2>1. S \subseteq Nat
    BY <1>1 DEF S
  <2>2. 0 .. N \subseteq S
    BY <1>1, <1>2, <1>3, <2>1, AllUpTo
  <2> QED
    BY <1>1, <2>2
<1> DEFINE f == Sums(s)
<1>5. Sum(f, N)
  <2>1. \E g : Sum(g, N)
    BY <1>4
  <2>2. f = CHOOSE g : Sum(g, N)
    BY DEF Sums
  <2> HIDE DEF Sum
  <2> QED
    BY <2>1, <2>2
<1> HIDE DEF f
<1>6. /\ \A k \in 0 .. N : f[k] = IF k = 0 THEN 0 ELSE f[k - 1] + s[k]
      /\ DOMAIN f = 0 .. N /\ f = [k \in 0 .. N |-> f[k]]
  BY <1>5
<1>7. f[0] = 0 /\ \A n \in 1 .. N : f[n] = f[n - 1] + s[n]
  BY <1>1, <1>6
<1> DEFINE T == {n \in 0 .. N : f[n] \in Nat}
<1>8. 0 \in T
  BY <1>1, <1>7
<1>9. ASSUME NEW n \in T, n < N
      PROVE  n + 1 \in T
  <2>1. n + 1 \in 1 .. N /\ (n + 1) - 1 = n
    BY <1>1, <1>9
  <2>2. f[n + 1] = f[n] + s[n + 1] /\ s[n + 1] \in Nat /\ f[n] \in Nat
    BY <1>7, <2>1
  <2> QED
    BY <2>1, <2>2
<1>10. 0 .. N \subseteq T
  <2>1. T \subseteq Nat
    BY <1>1
  <2> HIDE DEF T
  <2> QED
    BY <1>1, <1>8, <1>9, <2>1, AllUpTo
<1>11. f \in [0 .. N -> Nat]
  BY <1>6, <1>10
<1> QED
  BY <1>7, <1>11 DEF f

\* A sum is no smaller than one of fewer numbers.
LEMMA SumsGrow ==
  ASSUME NEW s \in Seq(Nat), NEW m \in 0 .. Len(s), NEW n \in m .. Len(s)
  PROVE  Sums(s)[m] <= Sums(s)[n]
<1> DEFINE f == Sums(s)
           N == Len(s)
           T == {k \in 0 .. N : m <= k => f[m] <= f[k]}
<1>1. /\ f \in [0 .. N -> Nat] /\ N \in Nat
      /\ \A k \in 1 .. N : f[k] = f[k - 1] + s[k] /\ s[k] \in Nat
  BY SumsFacts
<1> HIDE DEF f
<1>2. 0 \in T
  BY <1>1
<1>3. ASSUME NEW k \in T, k < N
      PROVE  k + 1 \in T
  <2>1. k + 1 \in 1 .. N /\ (k + 1) - 1 = k
    BY <1>1, <1>3
  <2>2. f[k + 1] = f[k] + s[k + 1] /\ s[k + 1] \in Nat /\ f[k] \in Nat /\ f[m] \in Nat
    BY <1>1, <2>1
  <2>3. CASE m <= k
    BY <2>1, <2>2, <2>3
  <2>4. CASE m = k + 1
    BY <2>1, <2>2, <2>4
  <2> QED
    BY <2>1, <2>3, <2>4
<1>4. 0 .. N \subseteq T
  <2>1. T \subseteq Nat
    BY <1>1
  <2> HIDE DEF T
  <2> QED
    BY <1>1, <1>2, <1>3, <2>1, AllUpTo
<1>5. n \in T
  <2>1. n \in 0 .. N
    BY <1>1
  <2> QED
    BY <1>4, <2>1
<1> QED
  BY <1>5 DEF f

\* The places themselves, in order.
LEMMA PlacesInOrder ==
  ASSUME NEW S, NEW s \in Seq(S), NEW P \in SUBSET (DOMAIN s), \A i \in P : s[i] = i,
         NEW o, o = AtPlaces(s, P)
  PROVE  /\ o \in Seq(S) /\ Len(o) \in Nat /\ DOMAIN o = 1 .. Len(o) /\ Ascends(o)
         /\ \A k \in 1 .. Len(o) : o[k] \in P /\ o[k] \in Nat
         /\ \A i \in P : \E k \in 1 .. Len(o) : o[k] = i
         /\ \A a, b \in 1 .. Len(o) : o[a] < o[b] => a < b
<1> DEFINE c == Cardinality(P)
<1>1. PICK place \in [1 .. c -> P] :
        /\ c \in Nat
        /\ AtPlaces(s, P) = [k \in 1 .. c |-> s[place[k]]]
        /\ AtPlaces(s, P) \in Seq(S)
        /\ Len(AtPlaces(s, P)) = c
        /\ \A a, b \in 1 .. c : a < b => place[a] < place[b]
        /\ \A i \in P : \E k \in 1 .. c : place[k] = i
  BY AtPlacesFacts, SMTT(60)
<1> HIDE DEF c
<1>2. \A k \in 1 .. c : place[k] \in P /\ place[k] \in Nat
  <2>1. P \subseteq Nat
    OBVIOUS
  <2> QED
    BY <1>1, <2>1
<1>3. \A k \in 1 .. c : o[k] = place[k]
  BY <1>1, <1>2
<1>4. Len(o) = c /\ DOMAIN o = 1 .. c /\ o \in Seq(S) /\ c \in Nat
  BY <1>1
<1>5. Ascends(o)
  BY <1>1, <1>3, <1>4 DEF Ascends
<1>6. \A i \in P : \E k \in 1 .. c : o[k] = i
  BY <1>1, <1>3
<1>7. ASSUME NEW a \in 1 .. c, NEW b \in 1 .. c, o[a] < o[b]
      PROVE  a < b
  <2>1. CASE b < a
    <3>1. o[b] < o[a] /\ o[a] \in Nat /\ o[b] \in Nat
      BY <1>1, <1>2, <1>3, <2>1
    <3> QED
      BY <1>7, <3>1
  <2>2. CASE b = a
    <3>1. o[a] \in Nat
      BY <1>2, <1>3
    <3> QED
      BY <1>7, <2>2, <3>1
  <2> QED
    BY <1>4, <2>1, <2>2
<1> QED
  BY <1>2, <1>3, <1>4, <1>5, <1>6, <1>7

-----------------------------------------------------------------------------
(* Saved queues *)

\* What a command is about to write is within the limit, and one whose copy is fresh
\* writes what the document holds, with its own change.
WritesAreSound ==
  \A w \in Saver : savers[w].pc = "writing" =>
    /\ Cardinality(Saved(savers[w].copy)) <= MaxSaved
    /\ savers[w].fresh =>
         savers[w].copy = [savedQueues EXCEPT ![savers[w].name] = savers[w].snapshot]

SavedInv == SavedTypeOK /\ SavedWithinLimit /\ AnswersAreTrue /\ WritesAreSound

\* The names of a document are finitely many, and a change of one name adds it at most.
LEMMA SavedFacts ==
  ASSUME NEW d \in Documents, NEW n \in SavedName, NEW x \in Snapshot \cup {NoSnapshot}
  PROVE  /\ IsFiniteSet(Saved(d)) /\ Cardinality(Saved(d)) \in Nat
         /\ [d EXCEPT ![n] = x] \in Documents
         /\ Cardinality(Saved([d EXCEPT ![n] = x])) <= Cardinality(Saved(d)) + 1
         /\ n \in Saved(d) =>
              Cardinality(Saved([d EXCEPT ![n] = x])) <= Cardinality(Saved(d))
<1> DEFINE e == [d EXCEPT ![n] = x]
<1>1. IsFiniteSet(SavedName)
  BY SavedAssumption
<1>2. \A f \in Documents : IsFiniteSet(Saved(f)) /\ Cardinality(Saved(f)) \in Nat
  BY <1>1, FS_Subset, FS_CardinalityType DEF Saved
<1>3. e \in Documents
  BY DEF Documents
<1>4. Saved(e) \subseteq Saved(d) \cup {n}
  BY DEF Saved, Documents
<1> HIDE DEF e
<1>5. /\ IsFiniteSet(Saved(d) \cup {n})
      /\ Cardinality(Saved(d) \cup {n})
           = IF n \in Saved(d) THEN Cardinality(Saved(d)) ELSE Cardinality(Saved(d)) + 1
  BY <1>2, FS_AddElement
<1>6. Cardinality(Saved(e)) <= Cardinality(Saved(d) \cup {n})
  BY <1>4, <1>5, FS_Subset
<1>7. Cardinality(Saved(e)) \in Nat /\ Cardinality(Saved(d)) \in Nat
  BY <1>2, <1>3
<1>8. Cardinality(Saved(e)) <= Cardinality(Saved(d)) + 1
      /\ (n \in Saved(d) => Cardinality(Saved(e)) <= Cardinality(Saved(d)))
  BY <1>5, <1>6, <1>7
<1> QED
  BY <1>2, <1>3, <1>8 DEF e

\* A document without names is one, and is within any limit.
LEMMA EmptyFacts == EmptyDocument \in Documents /\ Cardinality(Saved(EmptyDocument)) = 0
<1>1. Saved(EmptyDocument) = {}
  BY DEF Saved, EmptyDocument
<1> QED
  BY <1>1, FS_EmptySet DEF EmptyDocument, Documents

\* A command at rest.
LEMMA IdleSaverType == IdleSaver \in Command /\ IdleSaver.pc = "idle"
BY SavedAssumption, EmptyFacts DEF IdleSaver, Command, SaverPcs

\* Before the first command.
LEMMA SavedInitially == SavedInit => SavedInv
BY IdleSaverType, SavedAssumption
DEF SavedInit, SavedInv, SavedTypeOK, SavedWithinLimit, AnswersAreTrue, WritesAreSound

\* A step of one command that does not write: what it becomes is all there is to show.
LEMMA CommandMoves ==
  ASSUME SavedInv, NEW w \in Saver, NEW new \in Command,
         savers' = [savers EXCEPT ![w] = new],
         UNCHANGED <<savedQueues, promised, trusted>>,
         guildQueue' \in Snapshot \cup {NoSnapshot}, savedCalls' \in 0 .. MaxSavedCalls,
         new.pc = "writing" =>
           /\ new.copy[new.name] = new.snapshot
           /\ Cardinality(Saved(new.copy)) <= MaxSaved
           /\ new.fresh => new.copy = [savedQueues EXCEPT ![new.name] = new.snapshot]
  PROVE  SavedInv'
<1>1. savers' \in [Saver -> Command] /\ savers'[w] = new
      /\ \A v \in Saver : v # w => savers'[v] = savers[v]
  BY DEF SavedInv, SavedTypeOK
<1>2. SavedTypeOK'
  BY <1>1 DEF SavedInv, SavedTypeOK
<1>3. SavedWithinLimit' /\ AnswersAreTrue'
  BY DEF SavedInv, SavedWithinLimit, AnswersAreTrue, Saved
<1>4. WritesAreSound'
  BY <1>1 DEF SavedInv, WritesAreSound, Saved
<1> QED
  BY <1>2, <1>3, <1>4 DEF SavedInv

\* A step that may write: the others learn whether their copies are outdated
\* (persistGuildSavedQueues).
LEMMA DocumentStored ==
  ASSUME SavedInv, NEW w \in Saver, NEW document \in Documents, Stored(w, document),
         Cardinality(Saved(document)) <= MaxSaved,
         promised' \in Documents, trusted' \in BOOLEAN, trusted' => document = promised',
         UNCHANGED <<guildQueue, savedCalls>>
  PROVE  SavedInv'
<1>1. savedQueues' = document
      /\ savers' = [v \in Saver |->
           IF v = w THEN IdleSaver
           ELSE [savers[v] EXCEPT !.fresh = savers[v].fresh /\ document = savedQueues]]
  BY DEF Stored
<1>2. \A v \in Saver : v # w =>
        /\ savers'[v] \in Command
        /\ savers'[v].pc = savers[v].pc /\ savers'[v].name = savers[v].name
        /\ savers'[v].snapshot = savers[v].snapshot /\ savers'[v].copy = savers[v].copy
        /\ savers'[v].fresh => savers[v].fresh /\ document = savedQueues
  BY <1>1 DEF SavedInv, SavedTypeOK, Command
<1>3. savers'[w] = IdleSaver
  BY <1>1
<1>4. savers' \in [Saver -> Command]
  BY <1>1, <1>2, <1>3, IdleSaverType
<1>5. SavedTypeOK'
  BY <1>1, <1>2, <1>3, <1>4, IdleSaverType DEF SavedInv, SavedTypeOK
<1>6. SavedWithinLimit' /\ AnswersAreTrue'
  BY <1>1 DEF SavedWithinLimit, AnswersAreTrue, Saved
<1>7. ASSUME NEW v \in Saver, savers'[v].pc = "writing"
      PROVE  /\ Cardinality(Saved(savers'[v].copy)) <= MaxSaved
             /\ savers'[v].fresh =>
                  savers'[v].copy = [document EXCEPT ![savers'[v].name] = savers'[v].snapshot]
  <2>1. v # w
    BY <1>3, <1>7, IdleSaverType
  <2>2. /\ Cardinality(Saved(savers[v].copy)) <= MaxSaved
        /\ savers[v].fresh =>
             savers[v].copy = [savedQueues EXCEPT ![savers[v].name] = savers[v].snapshot]
    BY <1>2, <1>7, <2>1 DEF SavedInv, WritesAreSound
  <2> QED
    BY <1>2, <2>1, <2>2
<1>8. WritesAreSound'
  BY <1>1, <1>7 DEF WritesAreSound, Saved
<1> QED
  BY <1>5, <1>6, <1>8 DEF SavedInv

\* A read gives a document within the limit.
LEMMA ReadFacts ==
  ASSUME SavedInv, NEW d \in Reads
  PROVE  d \in Documents /\ Cardinality(Saved(d)) <= MaxSaved
BY EmptyFacts, SavedAssumption DEF Reads, SavedInv, SavedTypeOK, SavedWithinLimit

\* A command that prepares its copy keeps the limit, if the document has room or the name.
LEMMA PrepareKeeps ==
  ASSUME SavedInv, NEW w \in Saver, NEW d \in Reads, Prepare(w, d),
         savers[w].name \in Saved(d) \/ Cardinality(Saved(d)) < MaxSaved
  PROVE  SavedInv'
<1> DEFINE n == savers[w].name
           x == savers[w].snapshot
           written == [d EXCEPT ![n] = x]
           new == [savers[w] EXCEPT !.pc = "writing", !.copy = written, !.fresh = (d = savedQueues)]
<1>1. /\ savers[w] \in Command /\ n \in SavedName /\ x \in Snapshot \cup {NoSnapshot}
      /\ savers \in [Saver -> Command]
  BY DEF SavedInv, SavedTypeOK, Command
<1>2. d \in Documents /\ Cardinality(Saved(d)) <= MaxSaved
  BY ReadFacts
<1>3. /\ Cardinality(Saved(d)) \in Nat /\ written \in Documents
      /\ Cardinality(Saved(written)) \in Nat
      /\ Cardinality(Saved(written)) <= Cardinality(Saved(d)) + 1
      /\ n \in Saved(d) => Cardinality(Saved(written)) <= Cardinality(Saved(d))
  BY <1>1, <1>2, SavedFacts
<1>4. Cardinality(Saved(written)) <= MaxSaved
  BY <1>2, <1>3, SavedAssumption
<1>5. written[n] = x
  BY <1>1, <1>2 DEF Documents
<1>6. (d = savedQueues) => written = [savedQueues EXCEPT ![n] = x]
  OBVIOUS
<1>7. UNCHANGED <<savedQueues, guildQueue, savedCalls, promised, trusted>>
      /\ savers' = [savers EXCEPT ![w] = new]
  BY <1>1 DEF Prepare
<1> HIDE DEF written
<1>8. /\ new \in Command /\ new.copy = written /\ new.name = n /\ new.snapshot = x
      /\ new.fresh = (d = savedQueues)
  BY <1>1, <1>3 DEF Command, SaverPcs
<1> HIDE DEF new
<1>9. guildQueue' \in Snapshot \cup {NoSnapshot} /\ savedCalls' \in 0 .. MaxSavedCalls
  BY <1>7 DEF SavedInv, SavedTypeOK
<1> QED
  BY <1>4, <1>5, <1>6, <1>7, <1>8, <1>9, CommandMoves

\* Every command keeps what is promised of saved queues, in every interleaving.
LEMMA SavedStep == SavedInv /\ [SavedNext]_savedVars => SavedInv'
<1> SUFFICES ASSUME SavedInv, [SavedNext]_savedVars PROVE SavedInv'
  OBVIOUS
<1>1. /\ savers \in [Saver -> Command] /\ guildQueue \in Snapshot \cup {NoSnapshot}
      /\ savedCalls \in 0 .. MaxSavedCalls /\ savedQueues \in Documents
      /\ promised \in Documents /\ trusted \in BOOLEAN /\ MaxSavedCalls \in Nat
  BY SavedAssumption DEF SavedInv, SavedTypeOK
<1>2. ASSUME NEW w \in Saver, SaverGivesUp(w) PROVE SavedInv'
  BY <1>1, <1>2, IdleSaverType, CommandMoves DEF SaverGivesUp
<1>3. ASSUME NEW w \in Saver, NEW n \in SavedName, NEW pc \in {"checking", "saving", "deleting", "loading"},
             NEW x \in Snapshot \cup {NoSnapshot}, BeginCommand(w, n, pc, x)
      PROVE  SavedInv'
  <2> DEFINE new == [savers[w] EXCEPT !.pc = pc, !.name = n, !.snapshot = x]
  <2>1. new \in Command /\ new.pc # "writing"
    BY <1>1 DEF Command, SaverPcs
  <2>2. savers' = [savers EXCEPT ![w] = new]
    BY <1>1, <1>3 DEF BeginCommand
  <2> HIDE DEF new
  <2>3. savedCalls < MaxSavedCalls /\ savedCalls' = savedCalls + 1
        /\ UNCHANGED <<savedQueues, guildQueue, promised, trusted>>
    BY <1>3 DEF BeginCommand
  <2>4. savedCalls' \in 0 .. MaxSavedCalls
    BY <1>1, <2>3
  <2> QED
    BY <1>1, <2>1, <2>2, <2>3, <2>4, CommandMoves
<1>4. ASSUME NEW w \in Saver, SaverGoesTo(w, "saving") PROVE SavedInv'
  <2> DEFINE new == [savers[w] EXCEPT !.pc = "saving"]
  <2>1. new \in Command /\ new.pc # "writing"
    BY <1>1 DEF Command, SaverPcs
  <2>2. savers' = [savers EXCEPT ![w] = new]
        /\ UNCHANGED <<savedQueues, guildQueue, savedCalls, promised, trusted>>
    BY <1>1, <1>4 DEF SaverGoesTo
  <2> HIDE DEF new
  <2> QED
    BY <1>1, <2>1, <2>2, CommandMoves
<1>5. CASE GuildQueueChanges
  BY <1>5
  DEF GuildQueueChanges, SavedInv, SavedTypeOK, SavedWithinLimit, AnswersAreTrue, WritesAreSound,
      Saved
<1>6. ASSUME NEW w \in Saver, NEW n \in SavedName,
             SaveCommand(w, n) \/ OverwriteCommand(w, n) \/ DeleteCommand(w, n) \/ LoadCommand(w, n)
      PROVE  SavedInv'
  BY <1>1, <1>3, <1>6 DEF SaveCommand, OverwriteCommand, DeleteCommand, LoadCommand
<1>7. ASSUME NEW w \in Saver, CheckExists(w) PROVE SavedInv'
  BY <1>2, <1>4, <1>7 DEF CheckExists
<1>8. ASSUME NEW w \in Saver, LoadQueue(w) PROVE SavedInv'
  <2>1. \A d \in Reads : d[savers[w].name] \in Snapshot \cup {NoSnapshot}
    BY <1>1, ReadFacts DEF Documents, Command
  <2>2. guildQueue' \in Snapshot \cup {NoSnapshot}
    BY <1>1, <1>8, <2>1 DEF LoadQueue
  <2> QED
    BY <1>1, <1>8, <2>2, IdleSaverType, CommandMoves DEF LoadQueue
<1>9. ASSUME NEW w \in Saver, ReadForSave(w) PROVE SavedInv'
  <2>1. PICK d \in Reads :
          \/ SaverGivesUp(w)
          \/ /\ Prepare(w, d)
             /\ savers[w].name \in Saved(d) \/ ~(Cardinality(Saved(d)) >= MaxSaved)
    BY <1>9 DEF ReadForSave
  <2>2. d \in Documents /\ Cardinality(Saved(d)) \in Nat
    BY ReadFacts, SavedFacts, SavedAssumption
  <2>3. ~(Cardinality(Saved(d)) >= MaxSaved) => Cardinality(Saved(d)) < MaxSaved
    BY <2>2, SavedAssumption
  <2> QED
    BY <1>2, <2>1, <2>3, PrepareKeeps
<1>10. ASSUME NEW w \in Saver, ReadForDelete(w) PROVE SavedInv'
  BY <1>2, <1>10, PrepareKeeps DEF ReadForDelete
<1>11. ASSUME NEW w \in Saver, Persist(w) PROVE SavedInv'
  <2> DEFINE n == savers[w].name
             x == savers[w].snapshot
             written == savers[w].copy
  <2>1. /\ written \in Documents /\ n \in SavedName /\ x \in Snapshot \cup {NoSnapshot}
        /\ savers[w].fresh \in BOOLEAN
    BY <1>1 DEF Command
  <2>2. /\ Cardinality(Saved(written)) <= MaxSaved
        /\ savers[w].fresh => written = [savedQueues EXCEPT ![n] = x]
    BY <1>11 DEF Persist, SavedInv, WritesAreSound
  <2>3. promised' = [promised EXCEPT ![n] = x] /\ trusted' = (trusted /\ savers[w].fresh)
        /\ Stored(w, written) /\ UNCHANGED <<guildQueue, savedCalls>>
    BY <1>11 DEF Persist
  <2>4. promised' \in Documents
    BY <1>1, <2>1, <2>3, SavedFacts
  <2>5. trusted' => written = promised'
    BY <2>2, <2>3 DEF SavedInv, AnswersAreTrue
  <2> HIDE DEF written
  <2> QED
    BY <1>1, <2>1, <2>2, <2>3, <2>4, <2>5, DocumentStored
<1>12. ASSUME NEW w \in Saver, PersistFails(w) PROVE SavedInv'
  <2>1. CASE Stored(w, savedQueues) /\ UNCHANGED <<trusted, guildQueue, savedCalls, promised>>
    <3>1. Cardinality(Saved(savedQueues)) <= MaxSaved /\ (trusted' => savedQueues = promised')
      BY <2>1 DEF SavedInv, SavedWithinLimit, AnswersAreTrue
    <3> QED
      BY <1>1, <2>1, <3>1, DocumentStored
  <2>2. CASE Stored(w, savers[w].copy) /\ trusted' = FALSE
             /\ UNCHANGED <<guildQueue, savedCalls, promised>>
    <3>1. savers[w].copy \in Documents /\ Cardinality(Saved(savers[w].copy)) <= MaxSaved
      BY <1>1, <1>12 DEF PersistFails, SavedInv, WritesAreSound, Command
    <3> QED
      BY <1>1, <2>2, <3>1, DocumentStored
  <2> QED
    BY <1>12, <2>1, <2>2 DEF PersistFails
<1>13. CASE UNCHANGED savedVars
  BY <1>13
  DEF savedVars, SavedInv, SavedTypeOK, SavedWithinLimit, AnswersAreTrue, WritesAreSound, Saved
<1> QED
  BY <1>5, <1>6, <1>7, <1>8, <1>9, <1>10, <1>11, <1>12, <1>13 DEF SavedNext

-----------------------------------------------------------------------------
(* The caches of the Tidal client *)

CallerState == [pc : CallerPcs, key : Key, since : Int]
Entry == [kept : Int, ends : Int]

\* What CacheTypeOK leaves open of the shape of the variables.
CacheShape ==
  /\ cached \in [Key -> Entry]
  /\ locks \in [Key -> Caller \cup {NoOne}]
  /\ callers \in [Caller -> CallerState]
  /\ given \in [Caller -> Entry]

\* The token is kept long enough before it ends, and no answer is older than a time-out.
MarginHolds ==
  /\ cached[Token] = Nothing \/ cached[Token].ends >= cached[Token].kept + HttpTimeout
  /\ \A c \in Caller : callers[c].pc = "asking" =>
       callers[c].since <= clock /\ clock <= callers[c].since + HttpTimeout

CacheInv == CacheTypeOK /\ CacheShape /\ MarginHolds /\ TokenOutlastsRequest

\* At first nothing is cached.
LEMMA CacheInitially == CacheInit => CacheInv
BY CacheAssumption
DEF CacheInit, CacheInv, CacheTypeOK, CacheShape, MarginHolds, TokenOutlastsRequest, Nothing,
    IdleCaller, Key, Time, CallerPcs, CallerState, Entry

\* What the invariant says of one caller, and of the entry it looks at.
LEMMA CallerFacts ==
  ASSUME CacheInv, NEW c \in Caller
  PROVE  /\ callers[c] \in CallerState
         /\ callers[c].key \in Key /\ callers[c].since \in Int
         /\ Token \in Key
         /\ IdleCaller \in CallerState
         /\ clock \in Int /\ 0 <= clock /\ clock <= MaxClock /\ MaxClock \in Nat
         /\ HttpTimeout \in Nat /\ HttpTimeout > 0
BY CacheAssumption
DEF CacheInv, CacheTypeOK, CacheShape, IdleCaller, Key, CallerPcs, CallerState

\* The locks after a step of caller c, which becomes new.
LocksFollow(c, new) ==
  /\ locks' \in [Key -> Caller \cup {NoOne}]
  /\ \A k \in Key : /\ locks'[k] \in {locks[k], NoOne, c}
                    /\ locks'[k] = c /\ locks'[k] # NoOne
                         => new.key = k /\ new.pc \in {"checking", "asking"}

\* A step gives nobody else a token, and c none that ends too early.
GivesTo(c) ==
  /\ given' \in [Caller -> Entry]
  /\ \A d \in Caller : d # c => given'[d] = given[d]
  /\ given'[c] = given[c] \/ given'[c].ends >= given'[c].kept + HttpTimeout

\* A caller that moves, and with it the locks: nobody holds a lock but who is behind it.
LEMMA CallerMoves ==
  ASSUME CacheInv, NEW c \in Caller, NEW new \in CallerState,
         callers' = [callers EXCEPT ![c] = new],
         UNCHANGED <<clock, cached>>,
         LocksFollow(c, new), GivesTo(c),
         lookups' \in 0 .. MaxLookups,
         new.pc = "asking" => new.since = clock
  PROVE  CacheInv'
<1>1. callers' \in [Caller -> CallerState] /\ callers'[c] = new
      /\ \A d \in Caller : d # c => callers'[d] = callers[d]
  BY DEF CacheInv, CacheShape
<1>2. CacheShape'
  BY <1>1 DEF CacheInv, CacheShape, LocksFollow, GivesTo
<1>3. \A k \in Key : locks'[k] # NoOne =>
        callers'[locks'[k]].key = k /\ callers'[locks'[k]].pc \in {"checking", "asking"}
  BY <1>1 DEF CacheInv, CacheTypeOK, CacheShape, LocksFollow
<1>4. CacheTypeOK'
  BY <1>1, <1>3 DEF CacheInv, CacheTypeOK, CallerState
<1>5. MarginHolds'
  BY <1>1, CallerFacts DEF CacheInv, MarginHolds
<1>6. TokenOutlastsRequest'
  BY <1>1 DEF CacheInv, TokenOutlastsRequest, GivesTo
<1> QED
  BY <1>2, <1>4, <1>5, <1>6 DEF CacheInv

\* A token that is live is given with all the time a request may take.
LEMMA GivenLongEnough ==
  ASSUME CacheInv, NEW c \in Caller, NEW k \in Key, Live(k), Give(c, k)
  PROVE  GivesTo(c)
<1>1. given \in [Caller -> Entry]
      /\ cached[Token] \in Entry /\ cached[k] \in Entry /\ cached \in [Key -> Entry]
  BY CallerFacts DEF CacheInv, CacheShape, Entry
<1>2. CASE k # Token
  BY <1>1, <1>2 DEF Give, GivesTo
<1>3. CASE k = Token
  <2> DEFINE got == [kept |-> clock, ends |-> cached[k].ends]
  <2>1. given' = [given EXCEPT ![c] = got]
    BY <1>3 DEF Give
  <2>2. got \in Entry
    BY <1>1, <1>3, CallerFacts DEF Entry
  <2>3. cached[Token].ends >= clock + HttpTimeout
    <3>1. clock < cached[Token].kept /\ clock \in Int /\ 0 <= clock
      BY <1>3, CallerFacts DEF Live
    <3>2. cached[Token] # Nothing
      BY <1>1, <3>1 DEF Nothing, Entry
    <3> QED
      BY <1>1, <3>1, <3>2, CallerFacts DEF Entry, CacheInv, MarginHolds
  <2>4. got.ends >= got.kept + HttpTimeout
    BY <1>3, <2>3
  <2> HIDE DEF got
  <2> QED
    BY <1>1, <2>1, <2>2, <2>4 DEF GivesTo
<1> QED
  BY <1>2, <1>3

\* Every step of the caches keeps the invariant: the margin of a token covers the way of
\* its answer and that of the request which carries it (GetToken).
LEMMA CacheStep == CacheInv /\ [CacheNext]_cacheVars => CacheInv'
<1> SUFFICES ASSUME CacheInv, [CacheNext]_cacheVars PROVE CacheInv'
  OBVIOUS
<1>1. /\ locks \in [Key -> Caller \cup {NoOne}] /\ given \in [Caller -> Entry]
      /\ callers \in [Caller -> CallerState] /\ cached \in [Key -> Entry]
      /\ lookups \in 0 .. MaxLookups /\ MaxLookups \in Nat
  BY CacheAssumption DEF CacheInv, CacheShape, CacheTypeOK
<1>2. \A k \in Key : locks[k] # NoOne =>
        callers[locks[k]].key = k /\ callers[locks[k]].pc \in {"checking", "asking"}
  BY DEF CacheInv, CacheTypeOK
<1>3. CASE Tick
  <2>1. clock' = clock + 1 /\ clock < MaxClock /\ UNCHANGED <<cached, locks, callers, given, lookups>>
        /\ \A c \in Caller : callers[c].pc = "asking" => clock < callers[c].since + HttpTimeout
    BY <1>3 DEF Tick
  <2>2. clock \in 0 .. MaxClock /\ MaxClock \in Nat
    BY CacheAssumption DEF CacheInv, CacheTypeOK
  <2>3. clock' \in 0 .. MaxClock
    BY <2>1, <2>2
  <2>4. MarginHolds'
    BY <1>1, <2>1, <2>2, CallerFacts DEF CacheInv, MarginHolds
  <2> QED
    BY <2>1, <2>3, <2>4 DEF CacheInv, CacheTypeOK, CacheShape, TokenOutlastsRequest
<1>4. ASSUME NEW c \in Caller, NEW new \in CallerState, callers[c].pc \notin {"checking", "asking"},
             UNCHANGED locks
      PROVE  LocksFollow(c, new)
  BY <1>1, <1>2, <1>4 DEF LocksFollow
<1>5. ASSUME NEW c \in Caller, NEW new \in CallerState, Unlock(callers[c].key)
      PROVE  LocksFollow(c, new)
  <2>1. locks' = [locks EXCEPT ![callers[c].key] = NoOne] /\ callers[c].key \in Key
    BY <1>5, CallerFacts DEF Unlock
  <2> QED
    BY <1>1, <1>2, <2>1 DEF LocksFollow
<1>6. ASSUME NEW c \in Caller, UNCHANGED given PROVE GivesTo(c)
  BY <1>1, <1>6 DEF GivesTo
<1>7. ASSUME NEW c \in Caller, NEW k \in Key, Lookup(c, k) PROVE CacheInv'
  <2> DEFINE new == [pc |-> "looking", key |-> k, since |-> 0]
  <2>1. new \in CallerState /\ new.pc = "looking"
    BY DEF CallerState, CallerPcs
  <2>2. callers' = [callers EXCEPT ![c] = new] /\ callers[c].pc = "idle"
        /\ UNCHANGED <<clock, cached, locks, given>>
        /\ lookups < MaxLookups /\ lookups' = lookups + 1
    BY <1>7 DEF Lookup
  <2> HIDE DEF new
  <2>3. lookups' \in 0 .. MaxLookups
    BY <1>1, <2>2
  <2>4. LocksFollow(c, new) /\ GivesTo(c)
    BY <1>4, <1>6, <2>1, <2>2
  <2> QED
    BY <2>1, <2>2, <2>3, <2>4, CallerMoves
<1>8. ASSUME NEW c \in Caller, Look(c) PROVE CacheInv'
  <2> DEFINE k == callers[c].key
             new == [callers[c] EXCEPT !.pc = "locking", !.since = 0]
  <2>1. k \in Key /\ callers[c].pc = "looking" /\ UNCHANGED <<clock, cached, locks, lookups>>
    BY <1>8, CallerFacts DEF Look
  <2>2. CASE Live(k)
    <3>1. callers' = [callers EXCEPT ![c] = IdleCaller] /\ Give(c, k)
      BY <1>8, <2>2 DEF Look
    <3>2. IdleCaller \in CallerState /\ IdleCaller.pc = "idle"
      BY CallerFacts DEF IdleCaller
    <3>3. LocksFollow(c, IdleCaller) /\ GivesTo(c)
      BY <1>4, <2>1, <2>2, <3>1, <3>2, GivenLongEnough
    <3> QED
      BY <1>1, <2>1, <3>1, <3>2, <3>3, CallerMoves
  <2>3. CASE ~Live(k)
    <3>1. callers' = [callers EXCEPT ![c] = new] /\ UNCHANGED given
      BY <1>1, <1>8, <2>3 DEF Look, CallerGoesTo
    <3>2. new \in CallerState /\ new.pc = "locking"
      BY CallerFacts, 0 \in Int DEF CallerState, CallerPcs
    <3> HIDE DEF new
    <3>3. LocksFollow(c, new) /\ GivesTo(c)
      BY <1>4, <1>6, <2>1, <3>1, <3>2
    <3> QED
      BY <1>1, <2>1, <3>1, <3>2, <3>3, CallerMoves
  <2> QED
    BY <2>2, <2>3
<1>9. ASSUME NEW c \in Caller, LockKey(c) PROVE CacheInv'
  <2> DEFINE k == callers[c].key
             new == [callers[c] EXCEPT !.pc = "checking", !.since = 0]
  <2>1. /\ k \in Key /\ callers[c].pc = "locking" /\ UNCHANGED <<clock, cached, given, lookups>>
        /\ locks' = [locks EXCEPT ![k] = c]
    BY <1>9, CallerFacts DEF LockKey
  <2>2. callers' = [callers EXCEPT ![c] = new]
    BY <1>1, <1>9 DEF LockKey, CallerGoesTo
  <2>3. new \in CallerState /\ new.pc = "checking" /\ new.key = k
    BY CallerFacts, 0 \in Int DEF CallerState, CallerPcs
  <2> HIDE DEF new
  <2>4. LocksFollow(c, new)
    BY <1>1, <1>2, <2>1, <2>3 DEF LocksFollow
  <2>5. GivesTo(c)
    BY <1>6, <2>1
  <2> QED
    BY <1>1, <2>1, <2>2, <2>3, <2>4, <2>5, CallerMoves
<1>10. ASSUME NEW c \in Caller, LookAgain(c) PROVE CacheInv'
  <2> DEFINE k == callers[c].key
             new == [callers[c] EXCEPT !.pc = "asking", !.since = clock]
  <2>1. k \in Key /\ callers[c].pc = "checking" /\ UNCHANGED <<clock, cached, lookups>>
    BY <1>10, CallerFacts DEF LookAgain
  <2>2. CASE Live(k)
    <3>1. callers' = [callers EXCEPT ![c] = IdleCaller] /\ Give(c, k) /\ Unlock(k)
      BY <1>10, <2>2 DEF LookAgain
    <3>2. IdleCaller \in CallerState /\ IdleCaller.pc = "idle"
      BY CallerFacts DEF IdleCaller
    <3>3. LocksFollow(c, IdleCaller) /\ GivesTo(c)
      BY <1>5, <2>1, <2>2, <3>1, <3>2, GivenLongEnough
    <3> QED
      BY <1>1, <2>1, <3>1, <3>2, <3>3, CallerMoves
  <2>3. CASE ~Live(k)
    <3>1. callers' = [callers EXCEPT ![c] = new] /\ UNCHANGED <<given, locks>>
      BY <1>1, <1>10, <2>3 DEF LookAgain
    <3>2. new \in CallerState /\ new.pc = "asking" /\ new.key = k /\ new.since = clock
      BY CallerFacts DEF CallerState, CallerPcs
    <3> HIDE DEF new
    <3>3. LocksFollow(c, new)
      BY <1>1, <1>2, <3>1, <3>2 DEF LocksFollow
    <3>4. GivesTo(c)
      BY <1>6, <3>1
    <3> QED
      BY <1>1, <2>1, <3>1, <3>2, <3>3, <3>4, CallerMoves
  <2> QED
    BY <2>2, <2>3
<1>11. ASSUME NEW c \in Caller, AnswerIsError(c) PROVE CacheInv'
  <2>1. /\ callers' = [callers EXCEPT ![c] = IdleCaller] /\ Unlock(callers[c].key)
        /\ UNCHANGED <<clock, cached, given, lookups>>
    BY <1>11 DEF AnswerIsError
  <2>2. IdleCaller \in CallerState /\ IdleCaller.pc = "idle"
    BY CallerFacts DEF IdleCaller
  <2>3. LocksFollow(c, IdleCaller) /\ GivesTo(c)
    BY <1>5, <1>6, <2>1, <2>2
  <2> QED
    BY <1>1, <2>1, <2>2, <2>3, CallerMoves
<1>12. ASSUME NEW c \in Caller, Answer(c) PROVE CacheInv'
  <2> DEFINE k == callers[c].key
  <2>1. /\ k \in Key /\ callers[c].pc = "asking" /\ UNCHANGED <<clock, given, lookups>>
        /\ callers' = [callers EXCEPT ![c] = IdleCaller] /\ locks' = [locks EXCEPT ![k] = NoOne]
    BY <1>12, CallerFacts DEF Answer, Unlock
  <2>2. /\ callers[c].since \in Int /\ clock \in Int /\ callers[c].since <= clock
        /\ clock <= callers[c].since + HttpTimeout
    BY <2>1, CallerFacts DEF CacheInv, MarginHolds
  <2>3. PICK issued \in callers[c].since .. clock :
          \/ k = Token /\ \E life \in TokenLife : cached' = [cached EXCEPT ![k] = TokenEntry(issued, life)]
          \/ k # Token /\ cached' = [cached EXCEPT ![k] = UrlEntry]
    BY <1>12 DEF Answer
  <2>4. issued \in Int /\ clock <= issued + HttpTimeout
    BY <2>2, <2>3, CallerFacts
  <2>5. /\ cached' \in [Key -> Entry]
        /\ cached'[Token] = Nothing \/ cached'[Token].ends >= cached'[Token].kept + HttpTimeout
    <3>1. CASE k # Token
      <4>1. UrlEntry \in Entry
        BY CacheAssumption, CallerFacts DEF UrlEntry, Entry
      <4>2. cached'[Token] = cached[Token]
        BY <1>1, <2>1, <2>3, <3>1, CallerFacts
      <4> QED
        BY <1>1, <2>1, <2>3, <3>1, <4>1, <4>2 DEF CacheInv, MarginHolds
    <3>2. CASE k = Token
      <4>1. PICK life \in TokenLife : cached' = [cached EXCEPT ![k] = TokenEntry(issued, life)]
        BY <2>3, <3>2
      <4> DEFINE entry == TokenEntry(issued, life)
      <4>2. life \in Int /\ TokenMargin \in Int /\ 2 * HttpTimeout <= TokenMargin
        BY CacheAssumption
      <4>3. /\ entry \in Entry
            /\ entry.kept = clock + life - TokenMargin /\ entry.ends = issued + life
        BY <2>2, <2>4, <4>2 DEF TokenEntry, Entry
      <4>4. entry.ends >= entry.kept + HttpTimeout
        BY <2>2, <2>4, <4>2, <4>3, CallerFacts
      <4> HIDE DEF entry
      <4>5. cached' = [cached EXCEPT ![Token] = entry]
        BY <3>2, <4>1 DEF entry
      <4>6. cached' \in [Key -> Entry] /\ cached'[Token] = entry
        BY <1>1, <4>3, <4>5, CallerFacts
      <4> QED
        BY <4>4, <4>6
    <3> QED
      BY <3>1, <3>2
  <2>6. /\ callers' \in [Caller -> CallerState]
        /\ callers'[c] = IdleCaller
        /\ \A d \in Caller : d # c => callers'[d] = callers[d]
    BY <1>1, <2>1, CallerFacts
  <2>7. CacheShape'
    BY <1>1, <2>1, <2>5, <2>6 DEF CacheShape
  <2>8. CacheTypeOK'
    <3>1. \A j \in Key : locks'[j] # NoOne =>
            callers'[locks'[j]].key = j /\ callers'[locks'[j]].pc \in {"checking", "asking"}
      BY <1>1, <1>2, <2>1, <2>6
    <3>2. \A j \in Key : cached'[j].kept \in Int /\ cached'[j].ends \in Int
      BY <2>5 DEF Entry
    <3> QED
      BY <2>1, <2>6, <3>1, <3>2 DEF CacheInv, CacheTypeOK, Time, CallerState
  <2>9. MarginHolds'
    BY <2>1, <2>5, <2>6, CallerFacts DEF CacheInv, MarginHolds, IdleCaller
  <2>10. TokenOutlastsRequest'
    BY <2>1 DEF CacheInv, TokenOutlastsRequest
  <2> QED
    BY <2>7, <2>8, <2>9, <2>10 DEF CacheInv
<1>13. CASE UNCHANGED cacheVars
  BY <1>13
  DEF cacheVars, CacheInv, CacheTypeOK, CacheShape, MarginHolds, TokenOutlastsRequest
<1> QED
  BY <1>3, <1>7, <1>8, <1>9, <1>10, <1>11, <1>12, <1>13 DEF CacheNext, CallerStep

\* Only the second look, under the lock, leads to the service (getStreamURL).
LEMMA AsksOnce ==
  ASSUME CacheInv, [CacheNext]_cacheVars, NEW c \in Caller,
         callers[c].pc = "checking", callers'[c].pc = "asking"
  PROVE  ~Live(callers[c].key)
<1>1. callers \in [Caller -> CallerState]
  BY DEF CacheInv, CacheShape
<1>2. ASSUME NEW d \in Caller, CallerStep(d) \/ \E k \in Key : Lookup(d, k)
      PROVE  d = c /\ LookAgain(c)
  <2>1. PICK new : callers' = [callers EXCEPT ![d] = new]
    BY <1>1, <1>2
    DEF CallerStep, Look, LockKey, LookAgain, Answer, AnswerIsError, Lookup, CallerGoesTo
  <2>2. d = c
    BY <1>1, <2>1
  <2> QED
    BY <1>2, <2>2 DEF CallerStep, Look, LockKey, Answer, AnswerIsError, Lookup
<1>3. LookAgain(c)
  BY <1>2 DEF CacheNext, Tick, cacheVars
<1> QED
  BY <1>1, <1>3 DEF LookAgain, IdleCaller

-----------------------------------------------------------------------------
(* Playlists *)

\* What a request has added.
AddedOf(r) == {added[i][2] : i \in {j \in DOMAIN added : added[j][1] = r}}

\* What is true of a request by itself.
RequestSound(q) ==
  /\ q.pc = "new" => q.running = {} /\ q.found = <<>> /\ q.missing = {}
  /\ q.pc = "resolving" =>
       /\ q.running \subseteq 1 .. q.items - 1 /\ q.missing \subseteq 1 .. q.items - 1
       /\ Range(q.found) \subseteq (1 .. q.items - 1) \ q.running
       /\ \A i, j \in DOMAIN q.found : i # j => q.found[i] # q.found[j]
  /\ q.pc = "adding" =>
       /\ q.running = {} /\ Range(q.found) \subseteq 1 .. q.items - 1
       /\ \A i, j \in DOMAIN q.found : i < j => q.found[i] < q.found[j]
  /\ q.pc = "done" => q.running = {} /\ q.found = <<>>

\* What was added comes before what will be ...
ComesBefore(S, q) ==
  /\ q.pc = "new" => S = {}
  /\ q.pc = "resolving" => S \subseteq {0}
  /\ q.pc = "adding" => \A s \in S, k \in DOMAIN q.found : s < q.found[k]

\* ... and is all there is with what is found, looked for or missing.
IsWhole(S, q) ==
  q.pc # "new" => 0 .. q.items - 1 = S \cup Range(q.found) \cup q.running \cup q.missing

\* The inductive invariant.
IntakeInv ==
  /\ IntakeTypeOK /\ PlaylistOrderKept
  /\ \A r \in Request : /\ RequestSound(requests[r])
                       /\ ComesBefore(AddedOf(r), requests[r]) /\ IsWhole(AddedOf(r), requests[r])

\* Initially nothing is added.
LEMMA IntakeInitially == IntakeInit => IntakeInv
<1> SUFFICES ASSUME IntakeInit PROVE IntakeInv
  OBVIOUS
<1>1. \A r \in Request : /\ requests[r] \in RequestState /\ requests[r].pc = "new"
                        /\ requests[r].running = {} /\ requests[r].found = <<>>
                        /\ requests[r].missing = {}
  <2> SUFFICES ASSUME NEW w \in Way, NEW n \in 1 .. MaxItems, NEW q,
                      q = [pc |-> "new", way |-> w, items |-> n, running |-> {},
                           found |-> <<>>, missing |-> {}]
               PROVE  /\ q \in RequestState /\ q.pc = "new" /\ q.running = {} /\ q.found = <<>>
                      /\ q.missing = {}
    BY DEF IntakeInit
  <2> QED
    BY DEF RequestState, RequestPcs
<1>2. IntakeTypeOK
  BY <1>1 DEF IntakeInit, IntakeTypeOK
<1>3. DOMAIN added = {}
  BY DEF IntakeInit
<1>4. PlaylistOrderKept
  BY <1>3 DEF PlaylistOrderKept
<1>5. \A r \in Request : AddedOf(r) = {}
  BY <1>3 DEF AddedOf
<1> QED
  BY <1>1, <1>2, <1>4, <1>5 DEF IntakeInv, RequestSound, ComesBefore, IsWhole

\* One request goes on, and adds a song or none.
LEMMA RequestMoves ==
  ASSUME IntakeInv, NEW r \in Request, NEW new \in RequestState, RequestSound(new),
         requests' = [requests EXCEPT ![r] = new],
         \/ added' = added /\ ComesBefore(AddedOf(r), new) /\ IsWhole(AddedOf(r), new)
         \/ \E x \in Item : /\ added' = Append(added, <<r, x>>)
                            /\ \A s \in AddedOf(r) : s < x
                            /\ ComesBefore(AddedOf(r) \cup {x}, new)
                            /\ IsWhole(AddedOf(r) \cup {x}, new)
  PROVE  IntakeInv'
<1>1. /\ requests \in [Request -> RequestState] /\ added \in Seq(Request \X Item)
      /\ requests' \in [Request -> RequestState] /\ requests'[r] = new
      /\ \A q \in Request : q # r => requests'[q] = requests[q]
  BY DEF IntakeInv, IntakeTypeOK
<1>2. CASE added' = added /\ ComesBefore(AddedOf(r), new) /\ IsWhole(AddedOf(r), new)
  <2>1. \A q \in Request : AddedOf(q)' = AddedOf(q)
    BY <1>2 DEF AddedOf
  <2> QED
    BY <1>1, <1>2, <2>1
    DEF IntakeInv, IntakeTypeOK, PlaylistOrderKept, RequestSound, ComesBefore, IsWhole
<1>3. ASSUME NEW x \in Item, added' = Append(added, <<r, x>>), \A s \in AddedOf(r) : s < x,
             ComesBefore(AddedOf(r) \cup {x}, new), IsWhole(AddedOf(r) \cup {x}, new)
      PROVE  IntakeInv'
  <2>1. /\ added' \in Seq(Request \X Item) /\ DOMAIN added = 1 .. Len(added)
        /\ DOMAIN added' = 1 .. Len(added) + 1 /\ Len(added) \in Nat
        /\ added'[Len(added) + 1] = <<r, x>>
        /\ \A i \in DOMAIN added : added'[i] = added[i] /\ added[i] \in Request \X Item
    BY <1>1, <1>3
  <2>2. AddedOf(r)' = AddedOf(r) \cup {x} /\ \A q \in Request : q # r => AddedOf(q)' = AddedOf(q)
    <3>1. /\ \A i \in DOMAIN added' : i \in DOMAIN added \/ i = Len(added) + 1
          /\ \A i \in DOMAIN added : i \in DOMAIN added' /\ added'[i] = added[i]
          /\ Len(added) + 1 \in DOMAIN added'
      BY <2>1
    <3>2. added'[Len(added) + 1][1] = r /\ added'[Len(added) + 1][2] = x
      BY <2>1
    <3>3. {added'[i][2] : i \in {j \in DOMAIN added' : added'[j][1] = r}}
            = {added[i][2] : i \in {j \in DOMAIN added : added[j][1] = r}} \cup {x}
      BY <3>1, <3>2
    <3>4. ASSUME NEW q \in Request, q # r
          PROVE  {added'[i][2] : i \in {j \in DOMAIN added' : added'[j][1] = q}}
                   = {added[i][2] : i \in {j \in DOMAIN added : added[j][1] = q}}
      BY <3>1, <3>2, <3>4
    <3>5. AddedOf(r)' = {added'[i][2] : i \in {j \in DOMAIN added' : added'[j][1] = r}}
      BY Zenon DEF AddedOf
    <3>6. \A q \in Request : AddedOf(q)' = {added'[i][2] : i \in {j \in DOMAIN added' : added'[j][1] = q}}
      BY Zenon DEF AddedOf
    <3>7. \A q \in Request : AddedOf(q) = {added[i][2] : i \in {j \in DOMAIN added : added[j][1] = q}}
      BY Zenon DEF AddedOf
    <3> QED
      BY <3>3, <3>4, <3>6, <3>7, Zenon
  <2>3. PlaylistOrderKept'
    <3> SUFFICES ASSUME NEW i \in DOMAIN added', NEW j \in DOMAIN added',
                        i < j, added'[i][1] = added'[j][1]
                 PROVE  added'[i][2] < added'[j][2]
      BY DEF PlaylistOrderKept
    <3>1. i \in DOMAIN added
      BY <2>1
    <3>2. CASE j \in DOMAIN added
      BY <2>1, <3>1, <3>2 DEF IntakeInv, PlaylistOrderKept
    <3>3. CASE j = Len(added) + 1
      <4>1. added'[i] = added[i] /\ added'[j][1] = r /\ added'[j][2] = x
        BY <2>1, <3>1, <3>3
      <4>2. added[i][1] = r
        BY <4>1
      <4>3. added[i][2] \in AddedOf(r)
        BY <3>1, <4>2 DEF AddedOf
      <4> QED
        BY <1>3, <4>1, <4>3
    <3> QED
      BY <2>1, <3>2, <3>3
  <2>4. ASSUME NEW q \in Request
        PROVE  /\ RequestSound(requests[q])'
               /\ ComesBefore(AddedOf(q), requests[q])' /\ IsWhole(AddedOf(q), requests[q])'
    <3>1. CASE q = r
      BY <1>1, <1>3, <2>2, <3>1 DEF RequestSound, ComesBefore, IsWhole
    <3>2. CASE q # r
      BY <1>1, <2>2, <3>2 DEF IntakeInv, RequestSound, ComesBefore, IsWhole
    <3> QED
      BY <3>1, <3>2
  <2> QED
    BY <1>1, <2>1, <2>3, <2>4 DEF IntakeInv, IntakeTypeOK
<1> QED
  BY <1>2, <1>3

\* What slices.SortFunc does with the songs of one playlist.
LEMMA SortedFacts ==
  ASSUME NEW s \in Seq(Nat), \A i, j \in DOMAIN s : i # j => s[i] # s[j]
  PROVE  /\ DOMAIN Sorted(s) = DOMAIN s /\ Sorted(s) \in [1 .. Len(s) -> Range(s)]
         /\ Range(Sorted(s)) = Range(s)
         /\ \A i, j \in DOMAIN Sorted(s) : i < j => Sorted(s)[i] < Sorted(s)[j]
<1>1. Len(s) \in Nat /\ DOMAIN s = 1 .. Len(s) /\ s \in [1 .. Len(s) -> Nat]
  BY LenProperties
<1>2. Range(s) \subseteq Nat
  BY <1>1 DEF Range
<1>3. IsFiniteSet(Range(s)) /\ Cardinality(Range(s)) = Len(s)
  <2> DEFINE k == Len(s)
  <2>0. k \in Nat
    BY <1>1
  <2> HIDE DEF k
  <2>4. IsFiniteSet(1 .. k) /\ Cardinality(1 .. k) = k
    BY <2>0, FS_Interval
  <2>1. IsFiniteSet(1 .. Len(s)) /\ Cardinality(1 .. Len(s)) = Len(s)
    BY <2>4 DEF k
  <2>2. s \in Surjection(1 .. Len(s), Range(s)) /\ s \in Injection(1 .. Len(s), Range(s))
    BY <1>1 DEF Surjection, Injection, IsInjective, Range
  <2> QED
    BY <2>1, <2>2, FS_Surjection
<1>4. \E t \in [1 .. Len(s) -> Range(s)] :
        Range(t) = Range(s) /\ \A i, j \in 1 .. Len(s) : i < j => t[i] < t[j]
  BY <1>1, <1>2, <1>3, OrderExists
<1>5. \E t \in [DOMAIN s -> Range(s)] :
        Range(t) = Range(s) /\ \A i, j \in DOMAIN t : i < j => t[i] < t[j]
  BY <1>1, <1>4
<1>6. /\ Sorted(s) \in [DOMAIN s -> Range(s)] /\ Range(Sorted(s)) = Range(s)
      /\ \A i, j \in DOMAIN Sorted(s) : i < j => Sorted(s)[i] < Sorted(s)[j]
  BY <1>5 DEF Sorted
<1> QED
  BY <1>1, <1>6

\* What the invariant says of one request.
LEMMA RequestFacts ==
  ASSUME IntakeInv, NEW r \in Request
  PROVE  /\ requests[r] \in RequestState /\ requests \in [Request -> RequestState]
         /\ RequestSound(requests[r]) /\ ComesBefore(AddedOf(r), requests[r])
         /\ IsWhole(AddedOf(r), requests[r])
         /\ requests[r].items \in Nat \ {0} /\ 1 .. requests[r].items - 1 \subseteq Item \ {0}
         /\ 0 \in Item /\ Item \subseteq Nat
         /\ 0 .. requests[r].items - 1 = {0} \cup (1 .. requests[r].items - 1)
<1>1. requests[r] \in RequestState /\ requests[r].items \in 1 .. MaxItems
  BY DEF IntakeInv, IntakeTypeOK, RequestState
<1> DEFINE n == requests[r].items
<1>2. n \in Nat /\ n >= 1 /\ n <= MaxItems
  BY <1>1, IntakeAssumption
<1> HIDE DEF n
<1>3. /\ n \in Nat \ {0} /\ 1 .. n - 1 \subseteq Item \ {0} /\ 0 \in Item /\ Item \subseteq Nat
      /\ 0 .. n - 1 = {0} \cup (1 .. n - 1)
  BY <1>2, IntakeAssumption DEF Item
<1> QED
  BY <1>1, <1>3 DEF IntakeInv, IntakeTypeOK, n

\* A request begins, or fails at once.
LEMMA BeginningKeeps ==
  ASSUME IntakeInv, NEW r \in Request,
         FirstFails(r) \/ BeginWhole(r) \/ BeginSerial(r) \/ BeginParallel(r)
  PROVE  IntakeInv'
<1> DEFINE q == requests[r]
           rest == 1 .. q.items - 1
<1>1. /\ q.pc = "new" /\ q \in RequestState /\ q.running = {} /\ q.found = <<>> /\ AddedOf(r) = {}
      /\ rest \subseteq Item /\ 0 \in Item /\ 0 .. q.items - 1 = {0} \cup rest
      /\ 0 \notin rest /\ Rest(r) = rest /\ q.items \in Nat \ {0} /\ Item \subseteq Nat
      /\ q.missing = {} /\ q.way \in Way /\ q.items \in 1 .. MaxItems
  BY RequestFacts DEF RequestSound, ComesBefore, FirstFails, BeginWhole, BeginSerial, BeginParallel, Rest,
     RequestState
<1>2. CASE FirstFails(r)
  <2> DEFINE new == [q EXCEPT !.pc = "done", !.missing = {0} \cup rest]
  <2>1. requests' = [requests EXCEPT ![r] = new] /\ added' = added
    BY <1>1, <1>2 DEF FirstFails
  <2>2. /\ new \in RequestState /\ new.pc = "done" /\ new.missing = {0} \cup rest
        /\ new.running = {} /\ new.found = <<>> /\ new.items = q.items
    BY <1>1 DEF RequestState, RequestPcs
  <2> HIDE DEF new
  <2>3. RequestSound(new) /\ ComesBefore(AddedOf(r), new) /\ IsWhole(AddedOf(r), new)
    BY <1>1, <2>2 DEF RequestSound, ComesBefore, IsWhole, Range
  <2> QED
    BY <2>1, <2>2, <2>3, RequestMoves
<1>3. CASE BeginWhole(r)
  <2> DEFINE songs == [i \in rest |-> i]
             new == [q EXCEPT !.pc = "adding", !.found = songs]
  <2>1. requests' = [requests EXCEPT ![r] = new] /\ added' = Append(added, <<r, 0>>)
    BY <1>1, <1>3 DEF BeginWhole
  <2>2. songs \in Seq(Item) /\ DOMAIN songs = rest /\ Range(songs) = rest
    <3>1. q.items - 1 \in Nat
      BY <1>1
    <3>2. songs \in Seq(Item)
      BY <1>1, <3>1, IsASeq
    <3> QED
      BY <3>2 DEF Range
  <2>3. /\ new \in RequestState /\ new.pc = "adding" /\ new.found = songs
        /\ new.running = {} /\ new.items = q.items /\ new.missing = {}
    BY <1>1, <2>2 DEF RequestState, RequestPcs
  <2> HIDE DEF new
  <2>4. RequestSound(new)
    BY <1>1, <2>2, <2>3 DEF RequestSound
  <2>5. ComesBefore({0}, new)
    BY <1>1, <2>2, <2>3 DEF ComesBefore
  <2>6. IsWhole({0}, new)
    BY <1>1, <2>2, <2>3 DEF IsWhole
  <2> HIDE DEF songs
  <2>7. AddedOf(r) \cup {0} = {0} /\ \A s \in AddedOf(r) : s < 0
    BY <1>1
  <2> QED
    BY <1>1, <2>1, <2>3, <2>4, <2>5, <2>6, <2>7, RequestMoves
<1>4. CASE BeginSerial(r) \/ BeginParallel(r)
  <2> DEFINE new == [q EXCEPT !.pc = "resolving", !.running = rest]
  <2>1. requests' = [requests EXCEPT ![r] = new] /\ added' = Append(added, <<r, 0>>)
    BY <1>1, <1>4 DEF BeginSerial, BeginParallel, ResolveRest
  <2>2. /\ new \in RequestState /\ new.pc = "resolving" /\ new.found = <<>>
        /\ new.running = rest /\ new.items = q.items /\ new.missing = q.missing
    BY <1>1 DEF RequestState, RequestPcs
  <2> HIDE DEF new
  <2>3. RequestSound(new) /\ ComesBefore({0}, new) /\ IsWhole({0}, new)
    BY <1>1, <2>2 DEF RequestSound, ComesBefore, IsWhole, Range
  <2> QED
    BY <1>1, <2>1, <2>2, <2>3, RequestMoves
<1> QED
  BY <1>2, <1>3, <1>4

\* One search after the other, or many at a time.
LEMMA SearchKeeps ==
  ASSUME IntakeInv, NEW r \in Request, NEW i \in Item, ItemFound(r, i) \/ ItemMissing(r, i)
  PROVE  IntakeInv'
<1> DEFINE q == requests[r]
           rest == 1 .. q.items - 1
<1>1. /\ q.pc = "resolving" /\ q \in RequestState /\ i \in q.running /\ AddedOf(r) \subseteq {0}
      /\ q.running \subseteq rest /\ q.missing \subseteq rest
      /\ Range(q.found) \subseteq rest \ q.running
      /\ \A a, b \in DOMAIN q.found : a # b => q.found[a] # q.found[b]
      /\ q.found \in Seq(Item) /\ q.running \subseteq Item /\ q.missing \subseteq Item
      /\ 0 .. q.items - 1 = AddedOf(r) \cup Range(q.found) \cup q.running \cup q.missing
      /\ added' = added
  BY RequestFacts
  DEF RequestSound, ComesBefore, IsWhole, ItemFound, ItemMissing, MayEnd, RequestState
<1>2. CASE ItemFound(r, i)
  <2> DEFINE songs == Append(q.found, i)
             new == [q EXCEPT !.running = q.running \ {i}, !.found = songs]
  <2>1. requests' = [requests EXCEPT ![r] = new]
    BY <1>2, RequestFacts DEF ItemFound
  <2>2. /\ songs \in Seq(Item) /\ Range(songs) = Range(q.found) \cup {i}
        /\ \A a, b \in DOMAIN songs : a # b => songs[a] # songs[b]
    <3>1. /\ songs \in Seq(Item) /\ DOMAIN q.found = 1 .. Len(q.found) /\ Len(q.found) \in Nat
          /\ DOMAIN songs = 1 .. Len(q.found) + 1 /\ songs[Len(q.found) + 1] = i
          /\ \A a \in DOMAIN q.found : songs[a] = q.found[a]
      BY <1>1
    <3> HIDE DEF songs
    <3>2. \A a \in DOMAIN q.found : q.found[a] # i
      BY <1>1 DEF Range
    <3>3. \A a \in DOMAIN songs : a \in DOMAIN q.found \/ a = Len(q.found) + 1
      BY <3>1
    <3>4. Range(songs) = Range(q.found) \cup {i}
      <4>1. DOMAIN q.found \subseteq DOMAIN songs /\ Len(q.found) + 1 \in DOMAIN songs
        BY <3>1
      <4> QED
        BY <3>1, <3>3, <4>1 DEF Range
    <3>5. \A a, b \in DOMAIN songs : a # b => songs[a] # songs[b]
      BY <1>1, <3>1, <3>2, <3>3
    <3> QED
      BY <3>1, <3>4, <3>5
  <2> HIDE DEF songs
  <2>3. /\ new \in RequestState /\ new.pc = "resolving" /\ new.found = songs
        /\ new.running = q.running \ {i} /\ new.items = q.items /\ new.missing = q.missing
    BY <1>1, <2>2 DEF RequestState
  <2> HIDE DEF new
  <2>4. RequestSound(new)
    BY <1>1, <2>2, <2>3 DEF RequestSound
  <2>5. ComesBefore(AddedOf(r), new) /\ IsWhole(AddedOf(r), new)
    BY <1>1, <2>2, <2>3 DEF ComesBefore, IsWhole
  <2> QED
    BY <1>1, <2>1, <2>3, <2>4, <2>5, RequestMoves
<1>3. CASE ItemMissing(r, i)
  <2> DEFINE new == [q EXCEPT !.running = q.running \ {i}, !.missing = q.missing \cup {i}]
  <2>1. requests' = [requests EXCEPT ![r] = new]
    BY <1>3, RequestFacts DEF ItemMissing
  <2>2. /\ new \in RequestState /\ new.pc = "resolving" /\ new.found = q.found
        /\ new.running = q.running \ {i} /\ new.items = q.items
        /\ new.missing = q.missing \cup {i}
    BY <1>1 DEF RequestState
  <2> HIDE DEF new
  <2>3. RequestSound(new) /\ ComesBefore(AddedOf(r), new) /\ IsWhole(AddedOf(r), new)
    BY <1>1, <2>2 DEF RequestSound, ComesBefore, IsWhole
  <2> QED
    BY <1>1, <2>1, <2>2, <2>3, RequestMoves
<1> QED
  BY <1>2, <1>3

\* The searches are over: the songs are sorted, or there are none.
LEMMA SortingKeeps ==
  ASSUME IntakeInv, NEW r \in Request, RestFails(r) \/ SortRest(r)
  PROVE  IntakeInv'
<1> DEFINE q == requests[r]
           rest == 1 .. q.items - 1
<1>1. /\ q.pc = "resolving" /\ q \in RequestState /\ AddedOf(r) \subseteq {0}
      /\ q.missing \subseteq rest /\ Range(q.found) \subseteq rest \ q.running
      /\ \A a, b \in DOMAIN q.found : a # b => q.found[a] # q.found[b]
      /\ q.found \in Seq(Item) /\ q.running \subseteq Item /\ q.missing \subseteq Item
      /\ 0 .. q.items - 1 = AddedOf(r) \cup Range(q.found) \cup q.running \cup q.missing
      /\ added' = added /\ rest \subseteq Item \ {0} /\ Rest(r) = rest
      /\ Item \subseteq Nat /\ 0 .. q.items - 1 = {0} \cup rest
  BY RequestFacts
  DEF RequestSound, ComesBefore, IsWhole, RestFails, SortRest, RequestState, Rest
<1>2. CASE RestFails(r)
  <2> DEFINE new == [q EXCEPT !.pc = "done", !.running = {}, !.missing = rest]
  <2>1. requests' = [requests EXCEPT ![r] = new] /\ q.running = rest
    BY <1>1, <1>2, RequestFacts DEF RestFails
  <2>2. q.found = <<>> /\ Range(q.found) = {}
    <3>1. Range(q.found) = {}
      BY <1>1, <2>1
    <3>2. DOMAIN q.found = {}
      BY <3>1 DEF Range
    <3>3. DOMAIN q.found = 1 .. Len(q.found) /\ Len(q.found) \in Nat
      BY <1>1
    <3>4. Len(q.found) = 0
      <4>1. ~ (1 \in 1 .. Len(q.found))
        BY <3>2, <3>3
      <4> QED
        BY <3>3, <4>1
    <3> QED
      BY <1>1, <3>1, <3>4
  <2>3. /\ new \in RequestState /\ new.pc = "done" /\ new.found = <<>>
        /\ new.running = {} /\ new.items = q.items /\ new.missing = rest
    BY <1>1, <2>2 DEF RequestState, RequestPcs
  <2>4. 0 \in AddedOf(r)
    BY <1>1, <2>1, <2>2
  <2> HIDE DEF new
  <2>5. RequestSound(new) /\ ComesBefore(AddedOf(r), new) /\ IsWhole(AddedOf(r), new)
    BY <1>1, <2>2, <2>3, <2>4 DEF RequestSound, ComesBefore, IsWhole, Range
  <2> QED
    BY <1>1, <2>1, <2>3, <2>5, RequestMoves
<1>3. CASE SortRest(r)
  <2> DEFINE songs == Sorted(q.found)
             new == [q EXCEPT !.pc = "adding", !.found = songs]
  <2>1. requests' = [requests EXCEPT ![r] = new] /\ q.running = {}
    BY <1>1, <1>3, RequestFacts DEF SortRest
  <2>2. /\ songs \in Seq(Item) /\ Range(songs) = Range(q.found)
        /\ \A a, b \in DOMAIN songs : a < b => songs[a] < songs[b]
        /\ \A k \in DOMAIN songs : songs[k] \in rest
    <3>1. q.found \in Seq(Nat)
      <4>1. Len(q.found) \in Nat /\ q.found \in [1 .. Len(q.found) -> Item]
        BY <1>1, LenProperties
      <4>2. q.found \in [1 .. Len(q.found) -> Nat]
        BY <1>1, <4>1
      <4> QED
        BY <4>1, <4>2, IsASeq
    <3>2. /\ songs \in [1 .. Len(q.found) -> Range(q.found)] /\ Range(songs) = Range(q.found)
          /\ \A a, b \in DOMAIN songs : a < b => songs[a] < songs[b]
      BY <1>1, <3>1, SortedFacts
    <3> HIDE DEF songs
    <3>3. Len(q.found) \in Nat /\ Range(q.found) \subseteq Item /\ Range(q.found) \subseteq rest
      BY <1>1, <3>1, LenProperties
    <3>4. songs \in [1 .. Len(q.found) -> Item]
      BY <3>2, <3>3
    <3>5. songs \in Seq(Item)
      BY <3>3, <3>4, IsASeq
    <3> QED
      BY <3>2, <3>3, <3>5
  <2> HIDE DEF songs
  <2>3. /\ new \in RequestState /\ new.pc = "adding" /\ new.found = songs
        /\ new.running = {} /\ new.items = q.items /\ new.missing = q.missing
    BY <1>1, <2>1, <2>2 DEF RequestState, RequestPcs
  <2> HIDE DEF new
  <2>4. RequestSound(new)
    BY <1>1, <2>2, <2>3 DEF RequestSound
  <2>5. ComesBefore(AddedOf(r), new)
    <3>1. \A k \in rest : 0 < k
      BY <1>1
    <3> QED
      BY <1>1, <2>2, <2>3, <3>1 DEF ComesBefore
  <2>6. IsWhole(AddedOf(r), new)
    BY <1>1, <2>1, <2>2, <2>3 DEF IsWhole
  <2> QED
    BY <1>1, <2>1, <2>3, <2>4, <2>5, <2>6, RequestMoves
<1> QED
  BY <1>2, <1>3

\* The songs are added one by one.
LEMMA AddingKeeps ==
  ASSUME IntakeInv, NEW r \in Request, AddNext(r) \/ AddingEnds(r)
  PROVE  IntakeInv'
<1> DEFINE q == requests[r]
           rest == 1 .. q.items - 1
<1>1. /\ q.pc = "adding" /\ q \in RequestState /\ q.running = {} /\ Range(q.found) \subseteq rest
      /\ \A a, b \in DOMAIN q.found : a < b => q.found[a] < q.found[b]
      /\ \A s \in AddedOf(r), k \in DOMAIN q.found : s < q.found[k]
      /\ q.found \in Seq(Item) /\ q.missing \subseteq Item
      /\ 0 .. q.items - 1 = AddedOf(r) \cup Range(q.found) \cup q.missing
      /\ rest \subseteq Item \ {0} /\ Item \subseteq Nat
  BY RequestFacts
  DEF RequestSound, ComesBefore, IsWhole, AddNext, AddingEnds, RequestState
<1>2. CASE AddingEnds(r)
  <2> DEFINE new == [q EXCEPT !.pc = "done"]
  <2>1. requests' = [requests EXCEPT ![r] = new] /\ q.found = <<>> /\ added' = added
    BY <1>2 DEF AddingEnds
  <2>2. /\ new \in RequestState /\ new.pc = "done" /\ new.found = <<>>
        /\ new.running = {} /\ new.items = q.items /\ new.missing = q.missing
    BY <1>1, <2>1 DEF RequestState, RequestPcs
  <2> HIDE DEF new
  <2>3. RequestSound(new) /\ ComesBefore(AddedOf(r), new) /\ IsWhole(AddedOf(r), new)
    BY <1>1, <2>1, <2>2 DEF RequestSound, ComesBefore, IsWhole
  <2> QED
    BY <2>1, <2>2, <2>3, RequestMoves
<1>3. CASE AddNext(r)
  <2> DEFINE songs == Tail(q.found)
             x == Head(q.found)
             new == [q EXCEPT !.found = songs]
  <2>1. /\ requests' = [requests EXCEPT ![r] = new] /\ q.found # <<>>
        /\ added' = Append(added, <<r, x>>)
    BY <1>3, RequestFacts DEF AddNext
  <2>2. /\ songs \in Seq(Item) /\ x \in Item /\ Len(q.found) \in Nat \ {0}
        /\ DOMAIN q.found = 1 .. Len(q.found) /\ x = q.found[1]
        /\ DOMAIN songs = 1 .. Len(q.found) - 1 /\ 1 \in DOMAIN q.found
        /\ \A k \in DOMAIN songs : k + 1 \in DOMAIN q.found /\ songs[k] = q.found[k + 1]
    BY <1>1, <2>1
  <2> HIDE DEF songs, x
  <2>3. \A k \in DOMAIN q.found : k = 1 \/ (k - 1 \in DOMAIN songs /\ songs[k - 1] = q.found[k])
    <3> SUFFICES ASSUME NEW k \in DOMAIN q.found, k # 1
                 PROVE  k - 1 \in DOMAIN songs /\ songs[k - 1] = q.found[k]
      OBVIOUS
    <3>1. k - 1 \in DOMAIN songs /\ (k - 1) + 1 = k
      BY <2>2
    <3> QED
      BY <2>2, <3>1
  <2>4. Range(q.found) = Range(songs) \cup {x}
    BY <2>2, <2>3 DEF Range
  <2>5. /\ \A a, b \in DOMAIN songs : a < b => songs[a] < songs[b]
        /\ \A k \in DOMAIN songs : x < songs[k]
        /\ \A s \in AddedOf(r), k \in DOMAIN songs : s < songs[k]
        /\ \A s \in AddedOf(r) : s < x
    <3>1. \A a, b \in DOMAIN songs : a < b => a + 1 < b + 1
      BY <2>2
    <3>2. \A k \in DOMAIN songs : 1 < k + 1
      BY <2>2
    <3> QED
      BY <1>1, <2>2, <3>1, <3>2
  <2>6. /\ new \in RequestState /\ new.pc = "adding" /\ new.found = songs
        /\ new.running = {} /\ new.items = q.items /\ new.missing = q.missing
    BY <1>1, <2>2 DEF RequestState
  <2> HIDE DEF new
  <2>7. RequestSound(new) /\ ComesBefore(AddedOf(r) \cup {x}, new)
    BY <1>1, <2>4, <2>5, <2>6 DEF RequestSound, ComesBefore
  <2>8. IsWhole(AddedOf(r) \cup {x}, new)
    BY <1>1, <2>4, <2>6 DEF IsWhole
  <2>9. \E y \in Item : /\ added' = Append(added, <<r, y>>)
                        /\ \A s \in AddedOf(r) : s < y
                        /\ ComesBefore(AddedOf(r) \cup {y}, new)
                        /\ IsWhole(AddedOf(r) \cup {y}, new)
    BY <2>1, <2>2, <2>5, <2>7, <2>8
  <2>10. new \in RequestState /\ RequestSound(new) /\ requests' = [requests EXCEPT ![r] = new]
    BY <2>1, <2>6, <2>7
  <2> HIDE DEF q
  <2> QED
    BY <2>9, <2>10, RequestMoves
<1> QED
  BY <1>2, <1>3

\* A request takes a step.
LEMMA IntakeStep == IntakeInv /\ [IntakeNext]_intakeVars => IntakeInv'
<1> SUFFICES ASSUME IntakeInv, [IntakeNext]_intakeVars
             PROVE  IntakeInv'
  OBVIOUS
<1>1. CASE UNCHANGED intakeVars
  <2>1. UNCHANGED <<requests, added>>
    BY <1>1 DEF intakeVars
  <2>2. \A r \in Request : AddedOf(r)' = AddedOf(r)
    BY <2>1 DEF AddedOf
  <2>3. IntakeTypeOK' /\ PlaylistOrderKept'
    BY <2>1 DEF IntakeInv, IntakeTypeOK, PlaylistOrderKept
  <2>4. \A r \in Request : /\ RequestSound(requests[r])' /\ ComesBefore(AddedOf(r), requests[r])'
                           /\ IsWhole(AddedOf(r), requests[r])'
    BY <2>1, <2>2 DEF IntakeInv, RequestSound, ComesBefore, IsWhole
  <2> QED
    BY <2>3, <2>4 DEF IntakeInv
<1> QED
  BY <1>1, BeginningKeeps, SearchKeeps, SortingKeeps, AddingKeeps DEF IntakeNext, RequestStep, RequestGoesOn

\* What the invariant is for.
LEMMA PlaylistsFollow == IntakeInv => PlaylistOrderKept /\ NothingFoundIsLost
BY DEF IntakeInv, IsWhole, AddedOf, NothingFoundIsLost

-----------------------------------------------------------------------------
(* The records of users *)

JobState == [pc : JobPcs, kind : Kind, song : SUBSET Song, copy : Record]

\* A list of recent searches as it may be offered.
Offered(recent) ==
  /\ recent \in Seq(Search) /\ Len(recent) <= MaxRecent
  /\ \A a, b \in DOMAIN recent :
       a # b => recent[a].title # recent[b].title /\ recent[a].uri # recent[b].uri

\* There is at most one record, and every record and every copy of it has a list that may be
\* offered: a list is made of a copy, so that a copy without it would do harm later.  Nothing
\* is counted before there is a record, or the flusher would have nowhere to write it.
UserInv ==
  /\ jobs \in [Job -> JobState]
  /\ user = {} \/ \E r \in Record : user = {r}
  /\ \A r \in user : Offered(r.recent)
  /\ \A j \in Job : Offered(jobs[j].copy.recent)
  /\ \A j \in Job : jobs[j].pc \notin {"idle", "reading", "creating"} => user # {}
  /\ buffer \in Counts /\ flushing \in Counts /\ plays \in Counts /\ lostPlays \in Counts
  /\ jobsBegun \in 0 .. MaxJobs /\ restarts \in 0 .. MaxRestarts
  /\ PlaysAccountedFor /\ (user = {} => plays = NoCounts)

\* What is read at places of a list of searches is read once at each.
LEMMA SearchesAtPlaces ==
  ASSUME NEW s \in Seq(Search), NEW places \in SUBSET (DOMAIN s)
  PROVE  /\ AtPlaces(s, places) \in Seq(Search)
         /\ \A n \in DOMAIN AtPlaces(s, places) :
              \E i \in places : AtPlaces(s, places)[n] = s[i]
         /\ \A m, n \in DOMAIN AtPlaces(s, places) :
              m # n => \E i, k \in places : /\ i # k /\ AtPlaces(s, places)[m] = s[i]
                                            /\ AtPlaces(s, places)[n] = s[k]
<1> DEFINE n == Cardinality(places)
           at == AtPlaces(s, places)
<1>1. PICK place \in [1 .. n -> places] :
        /\ n \in Nat /\ at = [k \in 1 .. n |-> s[place[k]]] /\ at \in Seq(Search)
        /\ \A a, b \in 1 .. n : a < b => place[a] < place[b]
  BY AtPlacesFacts
<1> HIDE DEF at, n
<1>2. ASSUME NEW a \in 1 .. n, NEW b \in 1 .. n, a # b
      PROVE  place[a] # place[b]
  <2>1. place[a] \in Nat /\ place[b] \in Nat /\ (a < b \/ b < a)
    BY <1>1, <1>2
  <2> QED
    BY <1>1, <2>1
<1>3. /\ \A k \in DOMAIN at : place[k] \in places /\ at[k] = s[place[k]]
      /\ DOMAIN at = 1 .. n
  BY <1>1
<1> QED
  BY <1>1, <1>2, <1>3 DEF at

\* The new search at the head of a list without its title and its URI.
LEMMA RecentOffered ==
  ASSUME NEW s, Offered(s), NEW search \in Search
  PROVE  Offered(RecentAfter(s, search))
<1> DEFINE places == {i \in DOMAIN s : s[i].uri # search.uri /\ s[i].title # search.title}
           kept == AtPlaces(s, places)
           all == <<search>> \o kept
           m == IF Len(all) > MaxRecent THEN MaxRecent ELSE Len(all)
<1>1. s \in Seq(Search) /\ places \in SUBSET (DOMAIN s)
  BY DEF Offered
<1>2. /\ kept \in Seq(Search)
      /\ \A n \in DOMAIN kept : \E i \in places : kept[n] = s[i]
      /\ \A k, n \in DOMAIN kept :
           k # n => \E i, h \in places : i # h /\ kept[k] = s[i] /\ kept[n] = s[h]
  BY <1>1, SearchesAtPlaces
<1>3. \A a, b \in DOMAIN s :
        a # b => s[a].title # s[b].title /\ s[a].uri # s[b].uri
  BY DEF Offered
<1>4. RecentAfter(s, search) = SubSeq(all, 1, m)
  BY DEF RecentAfter, Newest
<1>5. /\ \A n \in DOMAIN kept : kept[n].uri # search.uri /\ kept[n].title # search.title
      /\ \A k, n \in DOMAIN kept :
           k # n => kept[k].title # kept[n].title /\ kept[k].uri # kept[n].uri
  <2> HIDE DEF kept
  <2>1. \A i \in places : s[i].uri # search.uri /\ s[i].title # search.title /\ i \in DOMAIN s
    OBVIOUS
  <2> HIDE DEF places
  <2> QED
    BY <1>2, <1>3, <2>1
<1> HIDE DEF kept
<1>6. /\ all \in Seq(Search) /\ Len(all) = Len(kept) + 1 /\ Len(kept) \in Nat
      /\ all[1] = search /\ \A n \in DOMAIN kept : all[n + 1] = kept[n]
      /\ DOMAIN kept = 1 .. Len(kept) /\ DOMAIN all = 1 .. Len(kept) + 1
  BY <1>2
<1> HIDE DEF all
<1>7. \A a, b \in DOMAIN all :
        a # b => all[a].title # all[b].title /\ all[a].uri # all[b].uri
  <2> SUFFICES ASSUME NEW a \in DOMAIN all, NEW b \in DOMAIN all, a < b
               PROVE  all[a].title # all[b].title /\ all[a].uri # all[b].uri
    BY <1>6
  <2>1. b - 1 \in DOMAIN kept /\ all[b] = kept[b - 1]
    BY <1>6
  <2>2. CASE a = 1
    BY <1>5, <1>6, <2>1, <2>2
  <2>3. CASE a # 1
    <3>1. a - 1 \in DOMAIN kept /\ all[a] = kept[a - 1] /\ a - 1 # b - 1
      BY <1>6, <2>3
    <3> QED
      BY <1>5, <2>1, <3>1
  <2> QED
    BY <2>2, <2>3
<1>8. m \in 0 .. Len(all) /\ m <= MaxRecent
  BY <1>6, UserAssumption
<1> HIDE DEF m
<1>9. /\ SubSeq(all, 1, m) \in Seq(Search) /\ Len(SubSeq(all, 1, m)) = m
      /\ \A k \in 1 .. m : SubSeq(all, 1, m)[k] = all[k] /\ k \in DOMAIN all
      /\ DOMAIN SubSeq(all, 1, m) = 1 .. m
  BY <1>6, <1>8
<1> QED
  BY <1>4, <1>7, <1>8, <1>9 DEF Offered

\* What is counted in a set of records, of none or of one.
LEMMA CountedIn ==
  ASSUME NEW u
  PROVE  LET counted == [s \in Song |-> IF \E r \in u : r.favorites[s] > 0
                                          THEN (CHOOSE r \in u : TRUE).favorites[s] ELSE 0]
         IN  /\ u = {} => counted = NoCounts
             /\ \A r \in Record : u = {r} => counted = r.favorites
<1> DEFINE counted == [s \in Song |-> IF \E r \in u : r.favorites[s] > 0
                                        THEN (CHOOSE r \in u : TRUE).favorites[s] ELSE 0]
<1>1. u = {} => counted = NoCounts
  BY DEF NoCounts
<1>2. ASSUME NEW r \in Record, u = {r}
      PROVE  counted = r.favorites
  <2>1. r.favorites \in [Song -> Nat]
    BY DEF Record, Counts
  <2>2. (CHOOSE q \in u : TRUE) = r
    BY <1>2
  <2>3. counted = [s \in Song |-> IF r.favorites[s] > 0 THEN r.favorites[s] ELSE 0]
    BY <1>2, <2>2
  <2>4. \A s \in Song : (IF r.favorites[s] > 0 THEN r.favorites[s] ELSE 0) = r.favorites[s]
    BY <2>1
  <2> QED
    BY <2>1, <2>3, <2>4
<1> QED
  BY <1>1, <1>2

\* What the record counts, before a step and after it.
LEMMA InRecordIs ==
  /\ user = {} => InRecord = NoCounts
  /\ \A r \in Record : user = {r} => InRecord = r.favorites
  /\ user' = {} => InRecord' = NoCounts
  /\ \A r \in Record : user' = {r} => InRecord' = r.favorites
BY CountedIn DEF InRecord

\* A record that nobody has used, and a goroutine without a command.
LEMMA FreshRecord ==
  /\ NewRecord \in Record /\ Offered(NewRecord.recent) /\ NewRecord.favorites = NoCounts
  /\ OldRecord \in Record /\ Offered(OldRecord.recent) /\ OldRecord.favorites = NoCounts
  /\ IdleJob \in JobState /\ IdleJob.pc = "idle" /\ IdleJob.copy = NewRecord
<1>1. NoCounts \in Counts /\ <<>> \in Seq(Search) /\ Len(<<>>) = 0 /\ DOMAIN <<>> = {}
  BY DEF NoCounts, Counts
<1>2. NewRecord \in Record /\ NewRecord.favorites = NoCounts /\ NewRecord.recent = <<>>
  BY <1>1 DEF NewRecord, Record, Mix
<1>3. Offered(<<>>)
  <2>1. \A a \in DOMAIN <<>> : FALSE
    BY <1>1
  <2>2. Len(<<>>) <= MaxRecent
    BY <1>1, UserAssumption
  <2> QED
    BY <1>1, <2>1, <2>2 DEF Offered
<1>4. OldSearches \in Seq(Search)
  BY UserAssumption
<1>5. OldRecord \in Record /\ OldRecord.favorites = NoCounts /\ OldRecord.recent = OldSearches
  BY <1>2, <1>4 DEF OldRecord, NewRecord, Record
<1>6. Offered(OldSearches)
  BY UserAssumption DEF Offered
<1>7. IdleJob \in JobState /\ IdleJob.pc = "idle" /\ IdleJob.copy = NewRecord
  BY <1>2 DEF IdleJob, JobState, JobPcs, Kind
<1> QED
  BY <1>2, <1>3, <1>5, <1>6, <1>7

\* At first nobody has played anything.
LEMMA UserInitially == ASSUME UserInit PROVE UserInv
<1>1. user = {} \/ \E r \in Record : user = {r} /\ Offered(r.recent) /\ r.favorites = NoCounts
  BY FreshRecord DEF UserInit
<1>2. NoCounts \in Counts
  BY DEF NoCounts, Counts
<1>3. InRecord = NoCounts
  BY <1>1, InRecordIs
<1>4. Plus(Plus(NoCounts, NoCounts), Plus(NoCounts, NoCounts)) = NoCounts
  <2>1. Plus(NoCounts, NoCounts) = NoCounts
    BY DEF Plus, NoCounts
  <2> QED
    BY <2>1
<1>5. PlaysAccountedFor
  BY <1>3, <1>4 DEF PlaysAccountedFor, UserInit
<1>6. /\ jobs = [j \in Job |-> IdleJob] /\ jobs \in [Job -> JobState]
      /\ \A j \in Job : jobs[j] = IdleJob
  BY FreshRecord DEF UserInit
<1>7. jobsBegun \in 0 .. MaxJobs /\ restarts \in 0 .. MaxRestarts
  BY UserAssumption DEF UserInit
<1> QED
  BY <1>1, <1>2, <1>5, <1>6, <1>7, FreshRecord DEF UserInit, UserInv

\* What becomes of the record when a command writes it: it stays, or comes, or changes
\* in something else than its counts; and nobody is new again.
Rewritten ==
  \/ user' = user
  \/ user = {} /\ user' = {NewRecord}
  \/ \E r, q \in Record : /\ user = {r} /\ user' = {q} /\ q.favorites = r.favorites
                          /\ Offered(q.recent) /\ (q.first => r.first)

\* A goroutine goes on, with the record rewritten or as it was.
LEMMA JobMoves ==
  ASSUME UserInv, NEW j \in Job, NEW new \in JobState, Offered(new.copy.recent),
         new.pc \notin {"idle", "reading", "creating"} => user' # {},
         jobs' = [jobs EXCEPT ![j] = new], Rewritten,
         UNCHANGED <<buffer, flushing, plays, lostPlays>>,
         jobsBegun' \in 0 .. MaxJobs, restarts' \in 0 .. MaxRestarts
  PROVE  UserInv'
<1>1. /\ jobs' \in [Job -> JobState] /\ jobs'[j] = new
      /\ \A k \in Job : k # j => jobs'[k] = jobs[k]
  BY DEF UserInv
<1>2. /\ user' = {} \/ \E r \in Record : user' = {r}
      /\ \A r \in user' : Offered(r.recent)
      /\ user # {} => user' # {}
  BY FreshRecord DEF UserInv, Rewritten
<1>3. InRecord' = InRecord
  <2>1. CASE user' = user
    BY <2>1 DEF InRecord
  <2>2. CASE user = {} /\ user' = {NewRecord}
    <3>1. InRecord = NoCounts
      BY <2>2, InRecordIs
    <3>2. InRecord' = NoCounts
      BY <2>2, InRecordIs, FreshRecord
    <3> QED
      BY <3>1, <3>2
  <2>3. ASSUME NEW r \in Record, NEW q \in Record, user = {r}, user' = {q}, q.favorites = r.favorites
        PROVE  InRecord' = InRecord
    BY <2>3, InRecordIs
  <2> QED
    BY <2>1, <2>2, <2>3 DEF Rewritten
<1>4. PlaysAccountedFor'
  BY <1>3 DEF UserInv, PlaysAccountedFor
<1>5. \A k \in Job : Offered(jobs'[k].copy.recent)
  BY <1>1 DEF UserInv
<1>6. \A k \in Job : jobs'[k].pc \notin {"idle", "reading", "creating"} => user' # {}
  BY <1>1, <1>2 DEF UserInv
<1> QED
  BY <1>1, <1>2, <1>4, <1>5, <1>6 DEF UserInv, Offered

\* UpdateOne of the record that is there.
LEMMA UpdateRewrites ==
  ASSUME UserInv, NEW written, Update(written),
         \A r \in user : /\ written[r] \in Record /\ written[r].favorites = r.favorites
                         /\ Offered(written[r].recent) /\ (written[r].first => r.first)
  PROVE  Rewritten
<1>1. CASE user = {}
  BY <1>1 DEF Update, Rewritten
<1>2. ASSUME NEW r \in Record, user = {r}
      PROVE  Rewritten
  <2>1. {written[q] : q \in user} = {written[r]}
    BY <1>2
  <2>2. CASE user' = {written[r]}
    BY <1>2, <2>2 DEF Rewritten
  <2> QED
    BY <2>1, <2>2 DEF Update, Rewritten
<1> QED
  BY <1>1, <1>2 DEF UserInv

\* What the invariant says of a goroutine and of the record.
LEMMA JobFacts ==
  ASSUME UserInv, NEW j \in Job
  PROVE  /\ jobs[j] \in JobState /\ jobs \in [Job -> JobState] /\ Offered(jobs[j].copy.recent)
         /\ jobs[j].pc \notin {"idle", "reading", "creating"} => user # {}
         /\ \A r \in user : r \in Record /\ Offered(r.recent)
         /\ jobsBegun \in 0 .. MaxJobs /\ restarts \in 0 .. MaxRestarts
BY DEF UserInv

\* A command begins.
LEMMA BeginningJobKeeps ==
  ASSUME UserInv, NEW j \in Job, NEW kind \in Kind, NEW song \in SUBSET Song,
         BeginJob(j, kind, song)
  PROVE  UserInv'
<1> DEFINE new == [jobs[j] EXCEPT !.pc = "reading", !.kind = kind, !.song = song]
<1>1. jobs[j] \in JobState
  BY JobFacts
<1>2. new \in JobState /\ new.pc = "reading" /\ new.copy = jobs[j].copy
  BY <1>1 DEF JobState, JobPcs
<1>3. jobs' = [jobs EXCEPT ![j] = new]
  BY JobFacts DEF BeginJob, JobState
<1>4. jobsBegun' \in 0 .. MaxJobs /\ restarts' \in 0 .. MaxRestarts
  BY JobFacts, UserAssumption DEF BeginJob
<1>5. user' = user /\ UNCHANGED <<buffer, flushing, plays, lostPlays>>
  BY DEF BeginJob
<1> HIDE DEF new
<1> QED
  BY <1>2, <1>3, <1>4, <1>5, JobFacts, JobMoves DEF Rewritten

\* GetUser, with what it finds or makes.
LEMMA GettingKeeps ==
  ASSUME UserInv, NEW j \in Job, FindUser(j) \/ CreateUser(j)
  PROVE  UserInv' /\ Rewritten
<1>1. /\ UNCHANGED <<buffer, flushing, plays, lostPlays>>
      /\ jobsBegun' \in 0 .. MaxJobs /\ restarts' \in 0 .. MaxRestarts
  BY JobFacts DEF FindUser, CreateUser, counting
<1>2. jobs[j] \in JobState
  BY JobFacts
<1>3. ASSUME NEW record \in Record, Offered(record.recent), GotUser(j, record), user' # {}, Rewritten
      PROVE  UserInv'
  <2> DEFINE copy == CopyFor(jobs[j].kind, record)
             new == [jobs[j] EXCEPT !.pc = First(jobs[j].kind), !.copy = copy]
  <2>1. /\ record.first \in BOOLEAN /\ record.recent \in Seq(Search) /\ record.mix \in Mix
        /\ record.seen \in Notification \cup {Unseen}
    BY DEF Record
  <2>2. copy \in Record /\ Offered(copy.recent)
    <3> DEFINE played == [NewRecord EXCEPT !.first = record.first, !.recent = record.recent,
                                           !.mix = record.mix]
               told == [NewRecord EXCEPT !.first = record.first, !.seen = record.seen]
    <3>1. played \in Record /\ played.recent = record.recent
      BY <2>1, FreshRecord DEF Record
    <3>2. told \in Record /\ told.recent = NewRecord.recent
      BY <2>1, FreshRecord DEF Record
    <3>3. copy \in {played, told, NewRecord}
      BY DEF CopyFor
    <3> HIDE DEF played, told, copy
    <3> QED
      BY <1>3, <3>1, <3>2, <3>3, FreshRecord
  <2>3. First(jobs[j].kind) \in JobPcs
    BY <1>2 DEF First, JobState, JobPcs, Kind
  <2> HIDE DEF copy
  <2>4. new \in JobState /\ new.copy = copy
    BY <1>2, <2>2, <2>3 DEF JobState
  <2>5. jobs' = [jobs EXCEPT ![j] = new]
    BY <1>2, <1>3, JobFacts DEF GotUser, copy, JobState
  <2> HIDE DEF new
  <2> QED
    BY <1>1, <1>3, <2>2, <2>4, <2>5, JobMoves
<1>4. ASSUME NEW new \in JobState, new.pc \in {"idle", "creating"}, Offered(new.copy.recent),
             jobs' = [jobs EXCEPT ![j] = new], Rewritten
      PROVE  UserInv'
  BY <1>1, <1>4, JobMoves
<1>5. CASE FindUser(j)
  <2>1. user' = user /\ Rewritten
    BY <1>5 DEF FindUser, Rewritten
  <2>2. CASE JobGoesTo(j, "creating")
    <3> DEFINE new == [jobs[j] EXCEPT !.pc = "creating"]
    <3>1. new \in JobState /\ new.pc = "creating" /\ new.copy = jobs[j].copy
      BY <1>2 DEF JobState, JobPcs
    <3>2. jobs' = [jobs EXCEPT ![j] = new]
      BY <2>2, JobFacts DEF JobGoesTo, JobState
    <3> HIDE DEF new
    <3> QED
      BY <1>4, <2>1, <3>1, <3>2, JobFacts
  <2>3. ASSUME NEW record \in user, GotUser(j, record)
        PROVE  UserInv'
    <3>1. record \in Record /\ Offered(record.recent) /\ user' # {}
      BY <2>1, JobFacts
    <3> QED
      BY <1>3, <2>1, <2>3, <3>1
  <2> QED
    BY <1>5, <2>1, <2>2, <2>3 DEF FindUser
<1>6. CASE CreateUser(j)
  <2>1. Rewritten
    BY <1>6 DEF CreateUser, Rewritten
  <2>2. CASE user' = {NewRecord} /\ GotUser(j, NewRecord)
    BY <1>3, <2>1, <2>2, FreshRecord
  <2>3. CASE JobEnds(j)
    BY <1>4, <2>1, <2>3, FreshRecord DEF JobEnds
  <2> QED
    BY <1>6, <2>1, <2>2, <2>3 DEF CreateUser
<1> QED
  BY <1>5, <1>6

\* A goroutine that has written goes on to what comes next, or ends.
LEMMA WriterGoesOn ==
  ASSUME UserInv, NEW j \in Job, Rewritten, UNCHANGED counting, user # {},
         JobEnds(j) \/ \E pc \in JobPcs : JobGoesTo(j, pc)
  PROVE  UserInv'
<1>1. /\ UNCHANGED <<buffer, flushing, plays, lostPlays>>
      /\ jobsBegun' \in 0 .. MaxJobs /\ restarts' \in 0 .. MaxRestarts
  BY JobFacts DEF counting
<1>2. user' # {}
  BY DEF Rewritten
<1>3. CASE JobEnds(j)
  BY <1>1, <1>2, <1>3, FreshRecord, JobMoves DEF JobEnds
<1>4. ASSUME NEW pc \in JobPcs, JobGoesTo(j, pc)
      PROVE  UserInv'
  <2> DEFINE new == [jobs[j] EXCEPT !.pc = pc]
  <2>1. new \in JobState /\ new.copy = jobs[j].copy
    BY JobFacts DEF JobState
  <2>2. jobs' = [jobs EXCEPT ![j] = new]
    BY <1>4, JobFacts DEF JobGoesTo, JobState
  <2> HIDE DEF new
  <2> QED
    BY <1>1, <1>2, <2>1, <2>2, JobFacts, JobMoves
<1> QED
  BY <1>3, <1>4

\* A goroutine writes a field of the record: the searches, the mix, the opt-out, the welcome,
\* the notification.
LEMMA WritingKeeps ==
  ASSUME UserInv, NEW j \in Job,
         \/ AddRecentSearch(j) \/ SetMostRecentMix(j) \/ ClearRecentSearches(j)
         \/ SetVoiceCommandOptOut(j) \/ SetFirstUse(j) \/ SetLastNotificationSeen(j)
  PROVE  UserInv' /\ Rewritten
<1> DEFINE copy == jobs[j].copy
<1>1. /\ user # {} /\ UNCHANGED counting /\ jobs[j] \in JobState /\ copy \in Record
      /\ Offered(copy.recent) /\ jobs[j].song \subseteq Song
      /\ \A r \in user : r \in Record /\ Offered(r.recent)
  BY JobFacts DEF AddRecentSearch, SetMostRecentMix, ClearRecentSearches, SetVoiceCommandOptOut,
     SetFirstUse, SetLastNotificationSeen, JobState
<1>2. user' = user => Rewritten
  BY DEF Rewritten
<1>3. CASE AddRecentSearch(j)
  <2>1. PICK s \in jobs[j].song :
          LET recent == RecentAfter(jobs[j].copy.recent, [title |-> s.title, uri |-> s.uri])
          IN  Update([r \in user |-> [r EXCEPT !.recent = recent]])
    BY <1>3 DEF AddRecentSearch
  <2> DEFINE recent == RecentAfter(copy.recent, [title |-> s.title, uri |-> s.uri])
  <2>2. Offered(recent)
    <3>1. [title |-> s.title, uri |-> s.uri] \in Search
      BY <1>1 DEF Search
    <3> QED
      BY <1>1, <3>1, RecentOffered
  <2>3. Update([r \in user |-> [r EXCEPT !.recent = recent]])
    BY <2>1
  <2> HIDE DEF recent
  <2> DEFINE written == [r \in user |-> [r EXCEPT !.recent = recent]]
  <2>4. recent \in Seq(Search)
    BY <2>2 DEF Offered
  <2>5. \A r \in user : /\ written[r] \in Record /\ written[r].favorites = r.favorites
                        /\ written[r].recent = recent /\ written[r].first = r.first
    BY <1>1, <2>4 DEF Record
  <2> HIDE DEF written
  <2>6. Rewritten
    BY <2>2, <2>3, <2>5, UpdateRewrites DEF written
  <2>7. JobGoesTo(j, "counting") /\ "counting" \in JobPcs
    BY <1>3 DEF AddRecentSearch, JobPcs
  <2> QED
    BY <1>1, <2>6, <2>7, WriterGoesOn
<1>4. CASE SetMostRecentMix(j)
  <2>1. ASSUME NEW s \in Song, Update([r \in user |-> [r EXCEPT !.mix = s.mix]])
        PROVE  Rewritten
    <3> DEFINE written == [r \in user |-> [r EXCEPT !.mix = s.mix]]
    <3>1. s.mix \in Mix
      BY DEF Mix
    <3>2. \A r \in user : /\ written[r] \in Record /\ written[r].favorites = r.favorites
                          /\ written[r].recent = r.recent /\ written[r].first = r.first
      BY <1>1, <3>1 DEF Record
    <3> HIDE DEF written
    <3> QED
      BY <1>1, <2>1, <3>2, UpdateRewrites DEF written
  <2>2. Rewritten
    BY <1>1, <1>2, <1>4, <2>1 DEF SetMostRecentMix
  <2> QED
    BY <1>1, <1>4, <2>2, WriterGoesOn DEF SetMostRecentMix
<1>5. CASE ClearRecentSearches(j)
  <2> DEFINE written == [r \in user |-> [r EXCEPT !.recent = <<>>]]
  <2>1. Offered(<<>>)
    BY FreshRecord DEF NewRecord
  <2>2. Update(written)
    BY <1>5 DEF ClearRecentSearches
  <2>3. \A r \in user : /\ written[r] \in Record /\ written[r].favorites = r.favorites
                        /\ written[r].recent = <<>> /\ written[r].first = r.first
    <3>1. <<>> \in Seq(Search)
      OBVIOUS
    <3> QED
      BY <1>1, <3>1 DEF Record
  <2> HIDE DEF written
  <2>4. Rewritten
    BY <2>1, <2>2, <2>3, UpdateRewrites
  <2> QED
    BY <1>1, <1>5, <2>4, WriterGoesOn DEF ClearRecentSearches
<1>6. CASE SetVoiceCommandOptOut(j)
  <2> DEFINE out == (jobs[j].kind = "optOut")
             written == [r \in user |-> [r EXCEPT !.optOut = out]]
  <2>1. out \in BOOLEAN
    OBVIOUS
  <2>2. Update(written)
    BY <1>6 DEF SetVoiceCommandOptOut
  <2> HIDE DEF out
  <2>3. \A r \in user : /\ written[r] \in Record /\ written[r].favorites = r.favorites
                        /\ written[r].recent = r.recent /\ written[r].first = r.first
    BY <1>1, <2>1 DEF Record
  <2> HIDE DEF written
  <2>4. Rewritten
    BY <1>1, <2>2, <2>3, UpdateRewrites
  <2> QED
    BY <1>1, <1>6, <2>4, WriterGoesOn DEF SetVoiceCommandOptOut
<1>7. CASE SetFirstUse(j)
  <2> DEFINE written == [r \in user |-> [r EXCEPT !.first = FALSE]]
  <2>1. \A r \in user : /\ written[r] \in Record /\ written[r].favorites = r.favorites
                        /\ written[r].recent = r.recent /\ ~ written[r].first
    BY <1>1 DEF Record
  <2>2. Update(written) \/ user' = user
    BY <1>7 DEF SetFirstUse
  <2> HIDE DEF written
  <2>3. Rewritten
    BY <1>1, <1>2, <2>1, <2>2, UpdateRewrites
  <2>4. JobGoesTo(j, "notifying") /\ "notifying" \in JobPcs
    BY <1>7 DEF SetFirstUse, JobPcs
  <2> QED
    BY <1>1, <2>3, <2>4, WriterGoesOn
<1>8. CASE SetLastNotificationSeen(j)
  <2>1. ASSUME NEW n \in Notification, Update([r \in user |-> [r EXCEPT !.seen = n]])
        PROVE  Rewritten
    <3> DEFINE written == [r \in user |-> [r EXCEPT !.seen = n]]
    <3>1. \A r \in user : /\ written[r] \in Record /\ written[r].favorites = r.favorites
                          /\ written[r].recent = r.recent /\ written[r].first = r.first
      BY <1>1 DEF Record
    <3> HIDE DEF written
    <3> QED
      BY <1>1, <2>1, <3>1, UpdateRewrites DEF written
  <2>2. Rewritten
    BY <1>2, <1>8, <2>1 DEF SetLastNotificationSeen
  <2> QED
    BY <1>1, <1>8, <2>2, WriterGoesOn DEF SetLastNotificationSeen
<1> QED
  BY <1>3, <1>4, <1>5, <1>6, <1>7, <1>8

\* Counts add up place by place.
LEMMA PlusIs ==
  ASSUME NEW a \in Counts, NEW b \in Counts
  PROVE  /\ Plus(a, b) \in Counts
         /\ \A s \in Song : Plus(a, b)[s] = a[s] + b[s] /\ a[s] \in Nat /\ b[s] \in Nat
BY DEF Plus, Counts

\* Every play is in one place, of each song.
LEMMA CountedOnceIs ==
  ASSUME NEW p \in Counts, NEW a \in Counts, NEW b \in Counts, NEW c \in Counts, NEW d \in Counts
  PROVE  p = Plus(Plus(a, b), Plus(c, d)) <=> \A s \in Song : p[s] = a[s] + b[s] + c[s] + d[s]
<1>1. /\ Plus(a, b) \in Counts /\ Plus(c, d) \in Counts
      /\ Plus(Plus(a, b), Plus(c, d)) \in Counts
  BY PlusIs
<1>2. \A s \in Song : /\ Plus(Plus(a, b), Plus(c, d))[s] = Plus(a, b)[s] + Plus(c, d)[s]
                      /\ Plus(a, b)[s] = a[s] + b[s] /\ Plus(c, d)[s] = c[s] + d[s]
                      /\ a[s] \in Nat /\ b[s] \in Nat /\ c[s] \in Nat /\ d[s] \in Nat
  BY <1>1, PlusIs
<1>3. \A s \in Song : Plus(Plus(a, b), Plus(c, d))[s] = a[s] + b[s] + c[s] + d[s]
  BY <1>2
<1>4. p = Plus(Plus(a, b), Plus(c, d)) <=> \A s \in Song : p[s] = Plus(Plus(a, b), Plus(c, d))[s]
  BY <1>1 DEF Counts
<1> QED
  BY <1>3, <1>4

\* Counts that add up to nothing are nothing.
LEMMA NothingAddsUp ==
  ASSUME NEW a \in Nat, NEW b \in Nat, NEW c \in Nat, NEW d \in Nat, 0 = a + b + c + d
  PROVE  c = 0
OBVIOUS

\* What the record counts is a count for each song.
LEMMA InRecordCounts ==
  ASSUME UserInv
  PROVE  InRecord \in Counts /\ NoCounts \in Counts /\ \A s \in Song : NoCounts[s] = 0
<1>1. NoCounts \in Counts /\ \A s \in Song : NoCounts[s] = 0
  BY DEF NoCounts, Counts
<1>2. \A r \in Record : r.favorites \in Counts
  BY DEF Record
<1> QED
  BY <1>1, <1>2, InRecordIs DEF UserInv

\* A play is counted.
LEMMA CountingKeeps ==
  ASSUME UserInv, NEW j \in Job, AddFavorite(j)
  PROVE  UserInv'
<1>1. PICK s \in Song : /\ buffer' = [buffer EXCEPT ![s] = @ + 1]
                        /\ plays' = [plays EXCEPT ![s] = @ + 1]
  BY JobFacts DEF AddFavorite, JobState
<1>2. /\ user' = user /\ flushing' = flushing /\ lostPlays' = lostPlays
      /\ UNCHANGED <<jobsBegun, restarts>> /\ JobGoesTo(j, "mixing") /\ user # {}
  BY JobFacts DEF AddFavorite
<1>3. /\ buffer \in Counts /\ flushing \in Counts /\ plays \in Counts /\ lostPlays \in Counts
      /\ InRecord \in Counts
  BY InRecordCounts DEF UserInv
<1>4. /\ buffer' \in Counts /\ plays' \in Counts
      /\ \A t \in Song : /\ buffer'[t] = IF t = s THEN buffer[t] + 1 ELSE buffer[t]
                         /\ plays'[t] = IF t = s THEN plays[t] + 1 ELSE plays[t]
  BY <1>1, <1>3 DEF Counts
<1>5. InRecord' = InRecord
  BY <1>2 DEF InRecord
<1>6. PlaysAccountedFor'
  <2>1. \A t \in Song : plays[t] = InRecord[t] + buffer[t] + flushing[t] + lostPlays[t]
    BY <1>3, CountedOnceIs DEF UserInv, PlaysAccountedFor
  <2>2. \A t \in Song : InRecord[t] \in Nat /\ buffer[t] \in Nat /\ flushing[t] \in Nat /\ lostPlays[t] \in Nat
    BY <1>3 DEF Counts
  <2>3. \A t \in Song : plays'[t] = InRecord[t] + buffer'[t] + flushing[t] + lostPlays[t]
    BY <1>4, <2>1, <2>2
  <2>4. plays' = Plus(Plus(InRecord, buffer'), Plus(flushing, lostPlays))
    BY <1>3, <1>4, <2>3, CountedOnceIs
  <2> QED
    BY <1>2, <1>5, <2>4 DEF PlaysAccountedFor
<1> DEFINE new == [jobs[j] EXCEPT !.pc = "mixing"]
<1>7. new \in JobState /\ new.copy = jobs[j].copy
  BY JobFacts DEF JobState, JobPcs
<1>8. jobs' = [jobs EXCEPT ![j] = new]
  BY <1>2, JobFacts DEF JobGoesTo, JobState
<1> HIDE DEF new
<1>9. /\ jobs' \in [Job -> JobState] /\ \A k \in Job : Offered(jobs'[k].copy.recent)
  BY <1>7, <1>8 DEF UserInv
<1> QED
  BY <1>2, <1>3, <1>4, <1>6, <1>9 DEF UserInv, Offered

\* The flusher takes the buffer.
LEMMA TakingBufferKeeps ==
  ASSUME UserInv, TakeBuffer
  PROVE  UserInv'
<1>1. /\ user' = user /\ jobs' = jobs /\ plays' = plays /\ lostPlays' = lostPlays
      /\ UNCHANGED <<jobsBegun, restarts>>
      /\ flushing = NoCounts /\ flushing' = buffer /\ buffer' = NoCounts
  BY DEF TakeBuffer
<1>2. /\ buffer \in Counts /\ flushing \in Counts /\ plays \in Counts /\ lostPlays \in Counts
      /\ InRecord \in Counts /\ NoCounts \in Counts /\ \A s \in Song : NoCounts[s] = 0
  BY InRecordCounts DEF UserInv
<1>3. InRecord' = InRecord
  BY <1>1 DEF InRecord
<1>4. \A s \in Song : plays[s] = InRecord[s] + buffer[s] + NoCounts[s] + lostPlays[s]
  BY <1>1, <1>2, CountedOnceIs DEF UserInv, PlaysAccountedFor
<1>5. \A s \in Song : plays[s] = InRecord[s] + NoCounts[s] + buffer[s] + lostPlays[s]
  BY <1>2, <1>4 DEF Counts
<1>6. plays = Plus(Plus(InRecord, NoCounts), Plus(buffer, lostPlays))
  BY <1>2, <1>5, CountedOnceIs
<1>7. PlaysAccountedFor'
  BY <1>1, <1>3, <1>6 DEF PlaysAccountedFor
<1> QED
  BY <1>1, <1>2, <1>7 DEF UserInv, Offered

\* The flusher writes what it took, or a part of it.
LEMMA WritingCountsKeeps ==
  ASSUME UserInv, WriteCounts
  PROVE  UserInv' /\ \A r \in user : \E q \in user' : q.first = r.first
<1>1. PICK written \in SUBSET Song :
        LET part == [s \in Song |-> IF s \in written THEN flushing[s] ELSE 0]
            rest == [s \in Song |-> IF s \in written THEN 0 ELSE flushing[s]]
        IN  /\ user' = {[r EXCEPT !.favorites = Plus(@, part)] : r \in user}
            /\ lostPlays' = Plus(lostPlays, rest)
  BY DEF WriteCounts
<1> DEFINE part == [s \in Song |-> IF s \in written THEN flushing[s] ELSE 0]
           rest == [s \in Song |-> IF s \in written THEN 0 ELSE flushing[s]]
<1>2. /\ jobs' = jobs /\ plays' = plays /\ buffer' = buffer /\ UNCHANGED <<jobsBegun, restarts>>
      /\ flushing' = NoCounts
  BY DEF WriteCounts
<1>3. /\ buffer \in Counts /\ flushing \in Counts /\ plays \in Counts /\ lostPlays \in Counts
      /\ InRecord \in Counts /\ NoCounts \in Counts /\ \A s \in Song : NoCounts[s] = 0
  BY InRecordCounts DEF UserInv
<1>4. /\ part \in Counts /\ rest \in Counts
      /\ \A s \in Song : part[s] + rest[s] = flushing[s]
  BY <1>3 DEF Counts
<1>5. user' = {[r EXCEPT !.favorites = Plus(r.favorites, part)] : r \in user}
      /\ lostPlays' = Plus(lostPlays, rest)
  BY <1>1
<1> HIDE DEF part, rest
<1>6. user # {}
  <2>1. \A s \in Song : plays[s] = InRecord[s] + buffer[s] + flushing[s] + lostPlays[s]
    BY <1>3, CountedOnceIs DEF UserInv, PlaysAccountedFor
  <2>2. \A s \in Song : InRecord[s] \in Nat /\ buffer[s] \in Nat /\ flushing[s] \in Nat /\ lostPlays[s] \in Nat
    BY <1>3 DEF Counts
  <2>3. ASSUME plays = NoCounts, NEW s \in Song
        PROVE  flushing[s] = NoCounts[s]
    <3>1. NoCounts[s] = 0 /\ plays[s] = 0
      BY <1>3, <2>3
    <3>2. 0 = InRecord[s] + buffer[s] + flushing[s] + lostPlays[s]
      BY <2>1, <3>1
    <3> QED
      BY <2>2, <3>1, <3>2, NothingAddsUp
  <2>4. plays = NoCounts => flushing = NoCounts
    BY <1>3, <2>3 DEF Counts
  <2> QED
    BY <2>4 DEF UserInv, WriteCounts
<1>7. PICK r \in Record : user = {r}
  BY <1>6 DEF UserInv
<1> DEFINE new == [r EXCEPT !.favorites = Plus(r.favorites, part)]
<1>8. r.favorites \in Counts
  BY DEF Record
<1>9. /\ Plus(r.favorites, part) \in Counts
      /\ \A s \in Song : Plus(r.favorites, part)[s] = r.favorites[s] + part[s]
      /\ lostPlays' \in Counts /\ \A s \in Song : lostPlays'[s] = lostPlays[s] + rest[s]
  BY <1>3, <1>4, <1>5, <1>8, PlusIs
<1>10. /\ new \in Record /\ new.favorites = Plus(r.favorites, part)
       /\ new.recent = r.recent /\ new.first = r.first
  BY <1>9 DEF Record
<1>11. user' = {new}
  BY <1>5, <1>7
<1> HIDE DEF new
<1>12. InRecord = r.favorites /\ InRecord' = new.favorites
  BY <1>7, <1>10, <1>11, InRecordIs
<1>13. PlaysAccountedFor'
  <2>1. \A s \in Song : plays[s] = r.favorites[s] + buffer[s] + flushing[s] + lostPlays[s]
    BY <1>3, <1>12, CountedOnceIs DEF UserInv, PlaysAccountedFor
  <2>2. \A s \in Song : /\ r.favorites[s] \in Nat /\ buffer[s] \in Nat /\ flushing[s] \in Nat
                        /\ lostPlays[s] \in Nat /\ part[s] \in Nat /\ rest[s] \in Nat
    BY <1>3, <1>4, <1>8 DEF Counts
  <2>3. \A s \in Song : plays[s] = new.favorites[s] + buffer[s] + NoCounts[s] + lostPlays'[s]
    BY <1>3, <1>4, <1>9, <1>10, <2>1, <2>2
  <2>4. new.favorites \in Counts /\ lostPlays' \in Counts
    BY <1>9, <1>10
  <2>5. plays = Plus(Plus(new.favorites, buffer), Plus(NoCounts, lostPlays'))
    <3> DEFINE known == new.favorites
               lost  == lostPlays'
    <3>1. /\ known \in Counts /\ lost \in Counts
          /\ \A s \in Song : plays[s] = known[s] + buffer[s] + NoCounts[s] + lost[s]
      BY <2>3, <2>4
    <3>2. plays \in Counts /\ buffer \in Counts /\ NoCounts \in Counts
      BY <1>3
    <3> HIDE DEF known, lost
    <3>3. plays = Plus(Plus(known, buffer), Plus(NoCounts, lost))
      BY <3>1, <3>2, CountedOnceIs
    <3> QED
      BY <3>3 DEF known, lost
  <2> QED
    BY <1>2, <1>12, <2>5 DEF PlaysAccountedFor
<1>14. \A q \in user' : Offered(q.recent)
  BY <1>7, <1>10, <1>11 DEF UserInv
<1>15. user' # {} /\ \E q \in Record : user' = {q}
  BY <1>10, <1>11
<1>16. UserInv'
  BY <1>2, <1>3, <1>9, <1>13, <1>14, <1>15 DEF UserInv, Offered
<1> QED
  BY <1>7, <1>10, <1>11, <1>16

\* The program ends, with its buffer, and starts again.
LEMMA RestartingKeeps ==
  ASSUME UserInv, RestartBot
  PROVE  UserInv'
<1>1. /\ user' = user /\ plays' = plays /\ jobsBegun' = jobsBegun
      /\ jobs' = [j \in Job |-> IdleJob] /\ restarts' \in 0 .. MaxRestarts
      /\ lostPlays' = Plus(lostPlays, Plus(buffer, flushing))
      /\ buffer' = NoCounts /\ flushing' = NoCounts
  BY UserAssumption DEF RestartBot, UserInv
<1>2. /\ buffer \in Counts /\ flushing \in Counts /\ plays \in Counts /\ lostPlays \in Counts
      /\ InRecord \in Counts /\ NoCounts \in Counts /\ \A s \in Song : NoCounts[s] = 0
  BY InRecordCounts DEF UserInv
<1>3. InRecord' = InRecord
  BY <1>1 DEF InRecord
<1>4. /\ Plus(buffer, flushing) \in Counts /\ lostPlays' \in Counts
      /\ \A s \in Song : lostPlays'[s] = lostPlays[s] + Plus(buffer, flushing)[s]
      /\ \A s \in Song : Plus(buffer, flushing)[s] = buffer[s] + flushing[s]
  BY <1>1, <1>2, PlusIs
<1>5. PlaysAccountedFor'
  <2>1. \A s \in Song : plays[s] = InRecord[s] + buffer[s] + flushing[s] + lostPlays[s]
    BY <1>2, CountedOnceIs DEF UserInv, PlaysAccountedFor
  <2>2. \A s \in Song : InRecord[s] \in Nat /\ buffer[s] \in Nat /\ flushing[s] \in Nat /\ lostPlays[s] \in Nat
    BY <1>2 DEF Counts
  <2>3. \A s \in Song : plays[s] = InRecord[s] + NoCounts[s] + NoCounts[s] + lostPlays'[s]
    BY <1>2, <1>4, <2>1, <2>2
  <2>4. lostPlays' \in Counts
    BY <1>4
  <2>5. plays = Plus(Plus(InRecord, NoCounts), Plus(NoCounts, lostPlays'))
    BY <1>2, <2>3, <2>4, CountedOnceIs
  <2> QED
    BY <1>1, <1>3, <2>5 DEF PlaysAccountedFor
<1>6. /\ jobs' \in [Job -> JobState] /\ \A j \in Job : jobs'[j] = IdleJob
  BY <1>1, FreshRecord
<1>7. \A j \in Job : Offered(jobs'[j].copy.recent) /\ jobs'[j].pc = "idle"
  BY <1>6, FreshRecord
<1> QED
  BY <1>1, <1>2, <1>4, <1>5, <1>6, <1>7 DEF UserInv, Offered

\* Every step keeps the invariant, and nobody is new again.
LEMMA UserStep ==
  ASSUME UserInv, [UserNext]_userVars
  PROVE  UserInv' /\ \A r \in user : \E q \in user' : q.first => r.first
<1>1. CASE UNCHANGED userVars
  <2>1. /\ user' = user /\ jobs' = jobs /\ buffer' = buffer /\ flushing' = flushing
        /\ plays' = plays /\ lostPlays' = lostPlays /\ UNCHANGED <<jobsBegun, restarts>>
    BY <1>1 DEF userVars
  <2>2. PlaysAccountedFor'
    BY <2>1 DEF UserInv, PlaysAccountedFor, InRecord
  <2> QED
    BY <2>1, <2>2 DEF UserInv, Offered
<1>2. Rewritten => \A r \in user : \E q \in user' : q.first => r.first
  BY DEF Rewritten
<1>3. user' = user => Rewritten
  BY DEF Rewritten
<1>4. CASE TakeBuffer
  BY <1>2, <1>3, <1>4, TakingBufferKeeps DEF TakeBuffer
<1>5. CASE WriteCounts
  BY <1>5, WritingCountsKeeps
<1>6. CASE RestartBot
  BY <1>2, <1>3, <1>6, RestartingKeeps DEF RestartBot
<1>7. ASSUME NEW j \in Job, Play(j) \/ ForgetCommand(j) \/ SettingsCommand(j) \/ CheckNews(j)
      PROVE  UserInv' /\ \A r \in user : \E q \in user' : q.first => r.first
  <2>1. PICK kind \in Kind, song \in SUBSET Song : BeginJob(j, kind, song)
    <3>1. \A s \in Song : {s} \in SUBSET Song
      OBVIOUS
    <3>2. {} \in SUBSET Song
      OBVIOUS
    <3> QED
      BY <1>7, <3>1, <3>2 DEF Play, ForgetCommand, SettingsCommand, CheckNews, Kind
  <2>2. user' = user
    BY <2>1 DEF BeginJob
  <2> QED
    BY <1>2, <1>3, <2>1, <2>2, BeginningJobKeeps
<1>8. ASSUME NEW j \in Job, FindUser(j) \/ CreateUser(j)
      PROVE  UserInv' /\ \A r \in user : \E q \in user' : q.first => r.first
  BY <1>2, <1>8, GettingKeeps
<1>9. ASSUME NEW j \in Job,
             \/ AddRecentSearch(j) \/ SetMostRecentMix(j) \/ ClearRecentSearches(j)
             \/ SetVoiceCommandOptOut(j) \/ SetFirstUse(j) \/ SetLastNotificationSeen(j)
      PROVE  UserInv' /\ \A r \in user : \E q \in user' : q.first => r.first
  BY <1>2, <1>9, WritingKeeps
<1>10. ASSUME NEW j \in Job, AddFavorite(j)
       PROVE  UserInv' /\ \A r \in user : \E q \in user' : q.first => r.first
  BY <1>2, <1>3, <1>10, CountingKeeps DEF AddFavorite
<1> QED
  BY <1>1, <1>4, <1>5, <1>6, <1>7, <1>8, <1>9, <1>10 DEF UserNext

\* What is promised of a record.
LEMMA RecordsFollow ==
  ASSUME UserInv
  PROVE  PlaysAccountedFor /\ RecentSearchesDistinct
BY DEF UserInv, Offered, RecentSearchesDistinct

\* What the invariant says of the records is their type, too.
LEMMA UserTypesFollow == UserInv => UserTypeOK
<1> SUFFICES ASSUME UserInv PROVE UserTypeOK
  OBVIOUS
<1>1. Cardinality(user) <= 1 /\ \A r \in user : r \in Record
  <2>1. CASE user = {}
    BY <2>1, FS_EmptySet
  <2>2. ASSUME NEW r \in Record, user = {r}
        PROVE  Cardinality(user) <= 1 /\ \A q \in user : q \in Record
    BY <2>2, FS_Singleton
  <2> QED
    BY <2>1, <2>2 DEF UserInv
<1>2. ASSUME NEW j \in Job
      PROVE  /\ jobs[j].pc \in JobPcs /\ jobs[j].kind \in Kind
             /\ jobs[j].song \subseteq Song /\ jobs[j].copy \in Record
  BY DEF UserInv, JobState
<1> QED
  BY <1>1, <1>2 DEF UserInv, UserTypeOK

-----------------------------------------------------------------------------
(* Dashboards *)

Linked == {"registered", "writing", "open"}

\* What is true of a page by itself: its type, that it gives up in time, and that it shows
\* what it was told last.
PageSound(page) ==
  /\ page \in PageState
  /\ page.at # "ended" => page.attempts <= MaxAttempts
  /\ ~page.due => page.ref = page.shown
  /\ page.last # NoTitle /\ ~page.hasty => page.shown = page.last

\* A handler that will tell the newest lists, or the newest state.
QueueNews(n)  == n.kind = "queue" /\ (n.at = "begun" \/ n.data.queue = contents.queue)
PlayerNews(n) == n.kind = "player" /\ n.data.player = contents.player

\* A page that is connected knows the newest, will have it from its initial state, or will
\* have it from a handler.
NewsComes(page) ==
  page.at \in Linked /\ ~page.missed =>
    /\ \/ page.at = "registered" \/ page.told.queue = contents.queue
       \/ page.at = "writing" /\ page.snapshot.queue = contents.queue
       \/ \E n \in notices : QueueNews(n)
    /\ \/ page.at = "registered" \/ page.told.player = contents.player
       \/ page.at = "writing" /\ page.snapshot.player = contents.player
       \/ \E n \in notices : PlayerNews(n)

\* Nobody knows more than there is, and sockets of connected pages are registered.
NotAhead(data) == data.queue <= contents.queue /\ data.player <= contents.player
PageInTime(page) ==
  /\ NotAhead(page.told) /\ NotAhead(page.snapshot)
  /\ page.at \in Linked => page.link \in Registered

NoticesSound == \A n \in notices : n.at = "taken" => NotAhead(n.data)

DashboardInv ==
  /\ DashboardTypeOK /\ NoticesSound
  /\ \A p \in Page : PageSound(pages[p]) /\ NewsComes(pages[p]) /\ PageInTime(pages[p])

\* At first no page is connected.
LEMMA DashboardInitially == DashboardInit => DashboardInv
<1> SUFFICES ASSUME DashboardInit PROVE DashboardInv
  OBVIOUS
<1>1. NoContents \in Contents /\ NoContents.queue = 0 /\ NoContents.player = 0
  BY DashboardAssumption DEF NoContents, Contents, Shown
<1> DEFINE Idle(page) ==
             /\ page \in PageState /\ page.at \in {"away", "ended"} /\ page.attempts = 0
             /\ ~page.due /\ page.ref = page.shown /\ page.last = NoTitle
             /\ page.told.queue = 0 /\ page.told.player = 0 /\ page.snapshot = NoContents
<1>2. Idle(NewPage)
  <2>1. 0 \in 0 .. MaxChanges /\ 0 \in 0 .. MaxStates /\ 0 \in 0 .. MaxLinks /\ 0 \in 0 .. MaxAttempts + 1
    BY DashboardAssumption
  <2>2. [queue |-> 0, player |-> 0] \in [queue : 0 .. MaxChanges, player : 0 .. MaxStates]
    BY <2>1
  <2>3. NoTitle \in Shown
    BY DEF Shown
  <2> QED
    BY <1>1, <2>1, <2>2, <2>3 DEF NewPage, PageState
<1>3. Idle([NewPage EXCEPT !.at = "ended"])
  BY <1>2 DEF PageState
<1>4. ASSUME NEW p \in Page
      PROVE  Idle(pages[p])
  BY <1>2, <1>3, <1>4 DEF DashboardInit
<1>5. contents \in Contents /\ contents.queue \in Nat /\ contents.player \in Nat
  BY DashboardAssumption DEF DashboardInit, Contents
<1>6. ASSUME NEW p \in Page
      PROVE  pages[p] \in PageState /\ PageSound(pages[p]) /\ NewsComes(pages[p]) /\ PageInTime(pages[p])
  <2>1. Idle(pages[p])
    BY <1>4
  <2> QED
    BY <1>1, <1>5, <2>1, DashboardAssumption DEF PageSound, NewsComes, PageInTime, NotAhead, Linked
<1>7. DashboardTypeOK
  <2>1. pages \in [Page -> PageState]
    <3>1. pages \in [Page -> {NewPage, [NewPage EXCEPT !.at = "ended"]}]
      BY DEF DashboardInit
    <3> QED
      BY <1>6, <3>1
  <2> QED
    BY <1>5, <2>1 DEF DashboardInit, DashboardTypeOK
<1>8. NoticesSound
  BY DEF DashboardInit, NoticesSound
<1> QED
  BY <1>6, <1>7, <1>8 DEF DashboardInv

\* What it says of the pages.
LEMMA PagesFollow ==
  ASSUME DashboardInv
  PROVE  PagesAreTold /\ ShownIsTold
<1>1. ShownIsTold
  BY DEF DashboardInv, PageSound, ShownIsTold
<1>2. PagesAreTold
  <2> SUFFICES ASSUME NEW p \in Page, notices = {}, pages[p].at = "open", ~pages[p].missed
               PROVE  pages[p].told = [queue |-> contents.queue, player |-> contents.player]
    BY DEF PagesAreTold
  <2>1. pages[p].told \in [queue : 0 .. MaxChanges, player : 0 .. MaxStates]
    BY DEF DashboardInv, PageSound, PageState
  <2>2. pages[p].told.queue = contents.queue /\ pages[p].told.player = contents.player
    BY DEF DashboardInv, NewsComes, Linked
  <2> QED
    BY <2>1, <2>2
<1> QED
  BY <1>1, <1>2

-----------------------------------------------------------------------------
(* What happens to one page                                                *)

\* Lists, a state and a title that may be told.
LEMMA ContentsFacts ==
  ASSUME NEW data \in Contents
  PROVE  /\ data.queue \in 0 .. MaxChanges /\ data.player \in 0 .. MaxStates /\ data.title \in Shown
         /\ data.queue \in Nat /\ data.player \in Nat
BY DashboardAssumption DEF Contents

\* What a page is told goes into the versions it knows, and into nothing else.
LEMMA HearsFacts ==
  ASSUME NEW page \in PageState, NEW data \in Contents
  PROVE  LET p == Hears(page, data) IN
         /\ p \in PageState
         /\ p.told.queue = AtLeast(page.told.queue, data.queue)
         /\ p.told.player = AtLeast(page.told.player, data.player)
         /\ p.at = page.at /\ p.link = page.link /\ p.attempts = page.attempts
         /\ p.snapshot = page.snapshot /\ p.last = page.last /\ p.shown = page.shown
         /\ p.ref = page.ref /\ p.due = page.due /\ p.missed = page.missed /\ p.hasty = page.hasty
<1> DEFINE t == [queue |-> AtLeast(page.told.queue, data.queue),
                 player |-> AtLeast(page.told.player, data.player)]
<1>1. t \in [queue : 0 .. MaxChanges, player : 0 .. MaxStates]
  <2>1. page.told.queue \in 0 .. MaxChanges /\ page.told.player \in 0 .. MaxStates
    BY DEF PageState
  <2> QED
    BY <2>1, ContentsFacts DEF AtLeast
<1>2. t.queue = AtLeast(page.told.queue, data.queue) /\ t.player = AtLeast(page.told.player, data.player)
  OBVIOUS
<1>3. Hears(page, data) = [page EXCEPT !.told = t]
  BY DEF Hears, PageState
<1> HIDE DEF t
<1> QED
  BY <1>1, <1>2, <1>3 DEF PageState

\* What a page takes in besides: which song it shows.
SameLink(p, page) ==
  /\ p.at = page.at /\ p.link = page.link /\ p.attempts = page.attempts
  /\ p.snapshot = page.snapshot /\ p.missed = page.missed

\* A message of a handler.
LEMMA TakesFacts ==
  ASSUME NEW page, PageSound(page), NEW n \in Notice, n.at = "taken"
  PROVE  /\ PageSound(Takes(page, n)) /\ SameLink(Takes(page, n), page)
         /\ Takes(page, n).told.queue = AtLeast(page.told.queue, n.data.queue)
         /\ Takes(page, n).told.player = AtLeast(page.told.player, n.data.player)
<1>1. page \in PageState /\ n.data \in Contents /\ n.kind \in {"queue", "player"}
  BY DEF PageSound, Notice
<1> DEFINE h == Hears(page, n.data)
<1>2. /\ h \in PageState
      /\ h.told.queue = AtLeast(page.told.queue, n.data.queue)
      /\ h.told.player = AtLeast(page.told.player, n.data.player)
      /\ h.at = page.at /\ h.link = page.link /\ h.attempts = page.attempts
      /\ h.snapshot = page.snapshot /\ h.last = page.last /\ h.shown = page.shown
      /\ h.ref = page.ref /\ h.due = page.due /\ h.missed = page.missed /\ h.hasty = page.hasty
  BY <1>1, HearsFacts
<1>3. CASE n.kind = "player"
  <2>1. Takes(page, n) = h
    BY <1>3 DEF Takes
  <2> HIDE DEF h
  <2> QED
    BY <1>2, <2>1 DEF PageSound, SameLink
<1>4. CASE n.kind = "queue"
  <2> DEFINE title   == n.data.title
             changed == title \notin {NoTitle, page.ref}
             shown   == IF changed THEN title ELSE page.shown
             due     == page.due \/ changed
             p       == [h EXCEPT !.last = title, !.hasty = page.due, !.shown = shown, !.due = due]
  <2>1. /\ Takes(page, n) = [h EXCEPT !.last = title, !.hasty = page.due,
                               !.shown = IF changed THEN title ELSE @, !.due = @ \/ changed]
    BY <1>4 DEF Takes, TakesUpdate
  <2>2. title \in Shown /\ page.shown \in Shown /\ page.ref \in Shown /\ page.due \in BOOLEAN
    BY <1>1, ContentsFacts DEF PageState
  <2>3. shown \in Shown /\ due \in BOOLEAN
    BY <2>2
  <2>4. Takes(page, n) = p
    <3> HIDE DEF h, title, changed
    <3> QED
      BY <1>2, <2>1 DEF PageState
  <2>5. /\ changed => shown = title /\ due
        /\ ~changed => shown = page.shown /\ (due <=> page.due) /\ title \in {NoTitle, page.ref}
    OBVIOUS
  <2> HIDE DEF h, title, changed, shown, due
  <2>6. /\ p \in PageState /\ p.at = page.at /\ p.link = page.link /\ p.attempts = page.attempts
        /\ p.snapshot = page.snapshot /\ p.missed = page.missed /\ p.told = h.told
        /\ p.last = title /\ p.hasty = page.due /\ p.shown = shown /\ p.due = due /\ p.ref = page.ref
    BY <1>2, <2>2, <2>3 DEF PageState
  <2> HIDE DEF p
  <2>7. PageSound(p)
    BY <2>2, <2>3, <2>5, <2>6 DEF PageSound
  <2> QED
    BY <1>2, <2>4, <2>6, <2>7 DEF SameLink
<1> QED
  BY <1>1, <1>3, <1>4

\* The initial state.
LEMMA TakesInitialFacts ==
  ASSUME NEW page, PageSound(page), page.at = "writing"
  PROVE  LET p == TakesInitial(page) IN
         /\ PageSound(p) /\ p.at = "open" /\ p.link = page.link /\ p.missed = page.missed
         /\ p.snapshot = NoContents
         /\ p.told.queue = AtLeast(page.told.queue, page.snapshot.queue)
         /\ p.told.player = AtLeast(page.told.player, page.snapshot.player)
<1> DEFINE h == Hears(page, page.snapshot)
           title == page.snapshot.title
<1>1. page \in PageState /\ page.snapshot \in Contents
  BY DEF PageSound, PageState
<1>2. /\ h \in PageState
      /\ h.told.queue = AtLeast(page.told.queue, page.snapshot.queue)
      /\ h.told.player = AtLeast(page.told.player, page.snapshot.player)
      /\ h.link = page.link /\ h.attempts = page.attempts /\ h.missed = page.missed
  BY <1>1, HearsFacts
<1>3. title \in Shown /\ NoContents \in Contents
  <2>1. NoContents \in Contents
    BY DashboardAssumption DEF NoContents, Contents, Shown
  <2> QED
    BY <1>1, <2>1, ContentsFacts
<1> DEFINE p == [h EXCEPT !.at = "open", !.snapshot = NoContents, !.last = title,
                          !.shown = title, !.due = TRUE, !.hasty = FALSE]
<1>4. TakesInitial(page) = p
  BY DEF TakesInitial
<1> HIDE DEF h, title
<1>5. /\ p \in PageState /\ p.at = "open" /\ p.link = h.link /\ p.attempts = h.attempts
      /\ p.snapshot = NoContents /\ p.missed = h.missed /\ p.told = h.told
      /\ p.last = title /\ p.shown = title /\ p.due /\ ~p.hasty
  BY <1>2, <1>3 DEF PageState
<1> HIDE DEF p
<1> QED
  BY <1>2, <1>4, <1>5 DEF PageSound

\* A link that is lost.
LEMMA ClosedFacts ==
  ASSUME NEW page, PageSound(page), page.at # "ended"
  PROVE  /\ PageSound(Closed(page)) /\ Closed(page).at \in {"ended", "away"}
         /\ Closed(page).snapshot = NoContents
         /\ Closed(page).told.queue = 0 /\ Closed(page).told.player = 0
<1>1. page \in PageState /\ page.attempts \in 0 .. MaxAttempts
  BY DashboardAssumption DEF PageSound, PageState
<1> DEFINE attempts == page.attempts + 1
           at == IF attempts > MaxAttempts THEN "ended" ELSE "away"
           none == [queue |-> 0, player |-> 0]
           p == [page EXCEPT !.attempts = attempts, !.snapshot = NoContents, !.link = 0,
                             !.missed = FALSE, !.told = none, !.at = at]
<1>2. /\ attempts \in 0 .. MaxAttempts + 1 /\ 0 \in 0 .. MaxLinks
      /\ none \in [queue : 0 .. MaxChanges, player : 0 .. MaxStates] /\ none.queue = 0 /\ none.player = 0
      /\ NoContents \in Contents
  <2>1. NoContents \in Contents
    BY DashboardAssumption DEF NoContents, Contents, Shown
  <2> QED
    BY <1>1, <2>1, DashboardAssumption
<1>3. at \in {"ended", "away"} /\ (at # "ended" => attempts <= MaxAttempts)
  BY <1>1, DashboardAssumption
<1>4. Closed(page) = p
  BY <1>1 DEF Closed, PageState
<1> HIDE DEF attempts, at, none
<1>5. /\ p \in PageState /\ p.at = at /\ p.attempts = attempts /\ p.snapshot = NoContents
      /\ p.told = none /\ p.last = page.last /\ p.shown = page.shown /\ p.ref = page.ref
      /\ p.due = page.due /\ p.hasty = page.hasty
  BY <1>1, <1>2, <1>3 DEF PageState
<1> HIDE DEF p
<1> QED
  BY <1>2, <1>3, <1>4, <1>5 DEF PageSound

-----------------------------------------------------------------------------
(* The steps                                                               *)

\* One page changes.
LEMMA OnePageChanges ==
  ASSUME DashboardInv, NEW p \in Page, NEW new, PageSound(new), NewsComes(new),
         NotAhead(new.told), NotAhead(new.snapshot), new.at \in Linked => new.link \in Registered',
         pages' = [pages EXCEPT ![p] = new], UNCHANGED <<contents, notices>>,
         webSockets' \in [SocketNo -> {"unused", "served", "deserted", "gone"}],
         \A l \in Registered : l \in Registered'
  PROVE  DashboardInv'
<1>1. new \in PageState /\ pages \in [Page -> PageState]
  BY DEF PageSound, DashboardInv, DashboardTypeOK
<1>2. /\ pages' \in [Page -> PageState] /\ pages'[p] = new
      /\ \A q \in Page : q # p => pages'[q] = pages[q]
  BY <1>1
<1>3. DashboardTypeOK' /\ NoticesSound'
  BY <1>2 DEF DashboardInv, DashboardTypeOK, NoticesSound, NotAhead
<1>4. ASSUME NEW q \in Page
      PROVE  PageSound(pages'[q]) /\ NewsComes(pages[q])' /\ PageInTime(pages[q])'
  <2>1. CASE q = p
    BY <1>2, <2>1 DEF NewsComes, QueueNews, PlayerNews, PageInTime, NotAhead
  <2>2. CASE q # p
    <3>1. PageSound(pages[q]) /\ NewsComes(pages[q]) /\ PageInTime(pages[q]) /\ pages'[q] = pages[q]
      BY <1>2, <2>2 DEF DashboardInv
    <3> QED
      BY <3>1 DEF NewsComes, QueueNews, PlayerNews, PageInTime, NotAhead
  <2> QED
    BY <2>1, <2>2
<1>5. \A q \in Page : PageSound(pages[q])'
  BY <1>4 DEF PageSound
<1> QED
  BY <1>3, <1>4, <1>5 DEF DashboardInv

\* The types of what there is, and of a page.
LEMMA DashboardTypes ==
  ASSUME DashboardInv
  PROVE  /\ contents \in Contents /\ contents.queue \in Nat /\ contents.player \in Nat
         /\ notices \subseteq Notice /\ pages \in [Page -> PageState]
         /\ webSockets \in [SocketNo -> {"unused", "served", "deserted", "gone"}]
         /\ NotAhead(NoContents) /\ NoContents \in Contents
         /\ \A n \in notices : /\ n.kind \in {"queue", "player"} /\ n.data \in Contents
                               /\ n.at \in {"begun", "taken"} /\ n.kind = "player" => n.at = "taken"
<1>1. contents \in Contents /\ notices \subseteq Notice
  BY DEF DashboardInv, DashboardTypeOK
<1>2. contents.queue \in Nat /\ contents.player \in Nat
  BY <1>1, ContentsFacts
<1>3. NotAhead(NoContents) /\ NoContents \in Contents
  BY <1>2, DashboardAssumption DEF NotAhead, NoContents, Contents, Shown
<1>4. ASSUME NEW n \in notices
      PROVE  /\ n.kind \in {"queue", "player"} /\ n.data \in Contents
             /\ n.at \in {"begun", "taken"} /\ (n.kind = "player" => n.at = "taken")
  <2>1. n \in Notice
    BY <1>1
  <2> QED
    BY <2>1 DEF Notice
<1> QED
  BY <1>1, <1>2, <1>3, <1>4 DEF DashboardInv, DashboardTypeOK

\* A page connects, gets its initial state, renders, or loses its link.
LEMMA PageSteps ==
  ASSUME DashboardInv, NEW p \in Page,
         \/ Register(p) \/ LoseLink(p) \/ ConnectFails(p)
         \/ TakeInitial(p) \/ WriteInitial(p) \/ Render(p)
         \/ \E n \in notices : InitialPanics(p, n)
  PROVE  DashboardInv'
<1> DEFINE page == pages[p]
<1>1. /\ PageSound(page) /\ NewsComes(page) /\ PageInTime(page) /\ page \in PageState
      /\ contents \in Contents /\ contents.queue \in Nat /\ contents.player \in Nat
      /\ webSockets \in [SocketNo -> {"unused", "served", "deserted", "gone"}]
      /\ NotAhead(NoContents) /\ NoContents \in Contents
  BY DashboardTypes DEF DashboardInv
<1>2. CASE Register(p)
  <2> DEFINE l == CHOOSE x \in FreeLinks : \A y \in FreeLinks : x <= y
             new == [page EXCEPT !.at = "registered", !.link = l, !.attempts = 0]
  <2>1. /\ FreeLinks # {} /\ page.at = "away" /\ UNCHANGED <<contents, notices>>
        /\ webSockets' = [webSockets EXCEPT ![l] = "served"]
        /\ pages' = [pages EXCEPT ![p].at = "registered", ![p].link = l, ![p].attempts = 0]
    BY <1>2, Zenon DEF Register
  <2>2. l \in FreeLinks
    <3>1. FreeLinks \subseteq Nat
      BY DEF FreeLinks, SocketNo
    <3>2. \E x \in FreeLinks : \A y \in FreeLinks : x <= y
      BY <2>1, <3>1, LeastNumber
    <3> QED
      BY <3>2
  <2>3. l \in SocketNo /\ l \in 0 .. MaxLinks
    BY <2>2 DEF FreeLinks, SocketNo
  <2> HIDE DEF l
  <2>8. pages' = [pages EXCEPT ![p] = new]
    BY <2>1, DashboardTypes
  <2>4. /\ webSockets' \in [SocketNo -> {"unused", "served", "deserted", "gone"}]
        /\ \A x \in Registered \cup {l} : x \in Registered'
    BY <1>1, <2>1, <2>3 DEF Registered
  <2>5. 0 \in 0 .. MaxAttempts + 1 /\ 0 <= MaxAttempts
    BY DashboardAssumption
  <2>6. /\ new \in PageState /\ new.at = "registered" /\ new.link = l /\ new.attempts = 0
        /\ new.told = page.told /\ new.snapshot = page.snapshot
        /\ new.last = page.last /\ new.shown = page.shown /\ new.ref = page.ref
        /\ new.due = page.due /\ new.hasty = page.hasty
    BY <1>1, <2>3, <2>5 DEF PageState
  <2> HIDE DEF new
  <2>7. PageSound(new) /\ NewsComes(new) /\ NotAhead(new.told) /\ NotAhead(new.snapshot)
    BY <1>1, <2>5, <2>6 DEF PageSound, NewsComes, PageInTime
  <2> QED
    BY <2>1, <2>4, <2>6, <2>7, <2>8, OnePageChanges
<1>3. ASSUME page.at # "ended", pages' = [pages EXCEPT ![p] = Closed(page)],
             UNCHANGED <<contents, notices>>,
             webSockets' \in [SocketNo -> {"unused", "served", "deserted", "gone"}],
             \A l \in Registered : l \in Registered'
      PROVE  DashboardInv'
  <2>1. /\ PageSound(Closed(page)) /\ Closed(page).at \in {"ended", "away"}
        /\ Closed(page).snapshot = NoContents
        /\ Closed(page).told.queue = 0 /\ Closed(page).told.player = 0
    BY <1>1, <1>3, ClosedFacts
  <2>2. NewsComes(Closed(page)) /\ NotAhead(Closed(page).told) /\ NotAhead(Closed(page).snapshot)
    BY <1>1, <2>1 DEF NewsComes, Linked, NotAhead
  <2>3. Closed(page).at \notin Linked
    BY <2>1 DEF Linked
  <2> QED
    BY <1>3, <2>1, <2>2, <2>3, OnePageChanges
<1>4. CASE LoseLink(p) \/ ConnectFails(p)
  <2>1. /\ page.at # "ended" /\ pages' = [pages EXCEPT ![p] = Closed(page)]
        /\ UNCHANGED <<contents, notices, webSockets>>
    BY <1>4, DashboardTypes DEF LoseLink, ConnectFails
  <2> QED
    BY <1>1, <1>3, <2>1 DEF Registered
<1>5. ASSUME NEW n \in notices, InitialPanics(p, n)
      PROVE  DashboardInv'
  <2>1. /\ page.at = "writing" /\ pages' = [pages EXCEPT ![p] = Closed(page)]
        /\ UNCHANGED <<contents, notices>>
        /\ webSockets' = [webSockets EXCEPT ![page.link] = "deserted"]
    BY <1>5, DashboardTypes DEF InitialPanics
  <2>2. /\ webSockets' \in [SocketNo -> {"unused", "served", "deserted", "gone"}]
        /\ \A l \in Registered : l \in Registered'
    BY <1>1, <2>1 DEF Registered
  <2> QED
    BY <1>3, <2>1, <2>2
<1>6. ASSUME NEW new, PageSound(new), NewsComes(new), NotAhead(new.told), NotAhead(new.snapshot),
             new.link = page.link, new.at \in Linked => page.at \in Linked,
             pages' = [pages EXCEPT ![p] = new], UNCHANGED <<contents, notices, webSockets>>
      PROVE  DashboardInv'
  <2>1. /\ webSockets' \in [SocketNo -> {"unused", "served", "deserted", "gone"}]
        /\ \A l \in Registered : l \in Registered'
    BY <1>1, <1>6 DEF Registered
  <2>2. new.at \in Linked => new.link \in Registered'
    BY <1>1, <1>6, <2>1 DEF PageInTime
  <2> QED
    BY <1>6, <2>1, <2>2, OnePageChanges
<1>7. CASE TakeInitial(p)
  <2> DEFINE new == [page EXCEPT !.at = "writing", !.snapshot = contents]
  <2>1. page.at = "registered" /\ pages' = [pages EXCEPT ![p] = new] /\ UNCHANGED <<contents, notices, webSockets>>
    BY <1>7, DashboardTypes DEF TakeInitial
  <2>2. /\ new \in PageState /\ new.at = "writing" /\ new.snapshot = contents
        /\ new.link = page.link /\ new.attempts = page.attempts /\ new.told = page.told
        /\ new.last = page.last /\ new.shown = page.shown /\ new.ref = page.ref
        /\ new.due = page.due /\ new.hasty = page.hasty
    BY <1>1 DEF PageState
  <2> HIDE DEF new
  <2>3. PageSound(new) /\ NewsComes(new) /\ NotAhead(new.told) /\ NotAhead(new.snapshot)
    BY <1>1, <2>1, <2>2 DEF PageSound, NewsComes, PageInTime, NotAhead
  <2> QED
    BY <1>6, <2>1, <2>2, <2>3 DEF Linked
<1>8. CASE WriteInitial(p)
  <2> DEFINE new == TakesInitial(page)
  <2>1. page.at = "writing" /\ pages' = [pages EXCEPT ![p] = new] /\ UNCHANGED <<contents, notices, webSockets>>
    BY <1>8, DashboardTypes DEF WriteInitial
  <2>2. /\ PageSound(new) /\ new.at = "open" /\ new.link = page.link /\ new.missed = page.missed
        /\ new.snapshot = NoContents
        /\ new.told.queue = AtLeast(page.told.queue, page.snapshot.queue)
        /\ new.told.player = AtLeast(page.told.player, page.snapshot.player)
    BY <1>1, <2>1, TakesInitialFacts
  <2> HIDE DEF new
  <2>3. /\ page.told.queue \in Nat /\ page.told.player \in Nat
        /\ page.snapshot.queue \in Nat /\ page.snapshot.player \in Nat
    <3>1. page.told \in [queue : 0 .. MaxChanges, player : 0 .. MaxStates] /\ page.snapshot \in Contents
      BY <1>1 DEF PageState
    <3> QED
      BY <3>1, ContentsFacts, DashboardAssumption
  <2>4. NotAhead(new.told) /\ NotAhead(new.snapshot)
    BY <1>1, <2>2, <2>3 DEF PageInTime, NotAhead, AtLeast
  <2>5. NewsComes(new)
    <3>1. CASE ~new.missed
      <4>1. /\ \/ page.told.queue = contents.queue \/ page.snapshot.queue = contents.queue
               \/ \E n \in notices : QueueNews(n)
            /\ \/ page.told.player = contents.player \/ page.snapshot.player = contents.player
               \/ \E n \in notices : PlayerNews(n)
        BY <1>1, <2>1, <2>2, <3>1 DEF NewsComes, Linked
      <4>2. page.told.queue = contents.queue \/ page.snapshot.queue = contents.queue
              => new.told.queue = contents.queue
        BY <1>1, <2>2, <2>3 DEF PageInTime, NotAhead, AtLeast
      <4>3. page.told.player = contents.player \/ page.snapshot.player = contents.player
              => new.told.player = contents.player
        BY <1>1, <2>2, <2>3 DEF PageInTime, NotAhead, AtLeast
      <4> QED
        BY <4>1, <4>2, <4>3 DEF NewsComes
    <3> QED
      BY <3>1 DEF NewsComes
  <2> QED
    BY <1>6, <2>1, <2>2, <2>4, <2>5 DEF Linked
<1>9. CASE Render(p)
  <2> DEFINE new == [page EXCEPT !.due = FALSE, !.ref = page.shown]
  <2>1. pages' = [pages EXCEPT ![p] = new] /\ UNCHANGED <<contents, notices, webSockets>>
    BY <1>9, DashboardTypes DEF Render
  <2>2. /\ new \in PageState /\ new.at = page.at /\ new.snapshot = page.snapshot
        /\ new.link = page.link /\ new.attempts = page.attempts /\ new.told = page.told
        /\ new.last = page.last /\ new.shown = page.shown /\ new.ref = page.shown
        /\ ~new.due /\ new.hasty = page.hasty /\ new.missed = page.missed
    BY <1>1 DEF PageState
  <2> HIDE DEF new
  <2>3. PageSound(new) /\ NewsComes(new) /\ NotAhead(new.told) /\ NotAhead(new.snapshot)
    BY <1>1, <2>2 DEF PageSound, NewsComes, PageInTime
  <2> QED
    BY <1>6, <2>1, <2>2, <2>3
<1> QED
  BY <1>2, <1>4, <1>5, <1>7, <1>8, <1>9

\* A change, of which a handler will tell.
LEMMA ChangesKeep ==
  ASSUME DashboardInv, ChangeState \/ \E t \in Shown : ChangeQueue(t)
  PROVE  DashboardInv'
<1>1. /\ contents \in Contents /\ contents.queue \in Nat /\ contents.player \in Nat
      /\ notices \subseteq Notice /\ UNCHANGED <<webSockets, pages>>
      /\ webSockets \in [SocketNo -> {"unused", "served", "deserted", "gone"}]
      /\ pages \in [Page -> PageState] /\ NoContents \in Contents
      /\ contents.queue \in 0 .. MaxChanges /\ contents.player \in 0 .. MaxStates
  BY DashboardTypes, ContentsFacts DEF ChangeState, ChangeQueue
<1>2. ASSUME NEW n \in Notice, contents' \in Contents, notices' = notices \cup {n},
             contents'.queue >= contents.queue, contents'.player >= contents.player,
             (n.kind = "queue" /\ n.at = "begun") \/ contents'.queue = contents.queue,
             (n.kind = "player" /\ n.data.player = contents'.player) \/ contents'.player = contents.player,
             n.at = "taken" => n.data.queue <= contents'.queue /\ n.data.player <= contents'.player
      PROVE  DashboardInv'
  <2>1. contents'.queue \in Nat /\ contents'.player \in Nat
    BY <1>2, ContentsFacts
  <2>2. ASSUME NEW data, data.queue \in Nat, data.player \in Nat, NotAhead(data)
        PROVE  data.queue <= contents'.queue /\ data.player <= contents'.player
    BY <1>1, <1>2, <2>1, <2>2 DEF NotAhead
  <2>3. NoticesSound'
    <3> SUFFICES ASSUME NEW m \in notices', m.at = "taken"
                 PROVE  m.data.queue <= contents'.queue /\ m.data.player <= contents'.player
      BY DEF NoticesSound, NotAhead
    <3>1. CASE m \in notices
      <4>1. NotAhead(m.data) /\ m.data.queue \in Nat /\ m.data.player \in Nat
        BY <3>1, DashboardTypes, ContentsFacts DEF DashboardInv, NoticesSound
      <4> QED
        BY <2>2, <4>1
    <3>2. CASE m = n
      BY <1>2, <3>2 DEF NotAhead
    <3> QED
      BY <1>2, <3>1, <3>2
  <2>4. DashboardTypeOK'
    BY <1>1, <1>2 DEF DashboardTypeOK
  <2>5. ASSUME NEW p \in Page
        PROVE  PageSound(pages[p])' /\ NewsComes(pages[p])' /\ PageInTime(pages[p])'
    <3>1. PageSound(pages[p]) /\ NewsComes(pages[p]) /\ PageInTime(pages[p]) /\ pages'[p] = pages[p]
      BY <1>1 DEF DashboardInv
    <3>2. PageSound(pages[p])'
      BY <3>1 DEF PageSound
    <3>3. PageInTime(pages[p])'
      <4>1. /\ pages[p].told \in [queue : 0 .. MaxChanges, player : 0 .. MaxStates]
            /\ pages[p].snapshot \in Contents
        BY <3>1 DEF PageSound, PageState
      <4>2. /\ pages[p].told.queue \in Nat /\ pages[p].told.player \in Nat
            /\ pages[p].snapshot.queue \in Nat /\ pages[p].snapshot.player \in Nat
        BY <4>1, ContentsFacts, DashboardAssumption
      <4>3. Registered' = Registered
        BY <1>1 DEF Registered
      <4>4. NotAhead(pages[p].told) /\ NotAhead(pages[p].snapshot)
        BY <3>1 DEF PageInTime
      <4>5. /\ pages[p].told.queue <= contents'.queue /\ pages[p].told.player <= contents'.player
            /\ pages[p].snapshot.queue <= contents'.queue /\ pages[p].snapshot.player <= contents'.player
        BY <2>2, <4>2, <4>4
      <4> QED
        BY <3>1, <4>3, <4>5 DEF PageInTime, NotAhead
    <3>4. NewsComes(pages[p])'
      <4>1. (n.kind = "queue" /\ n.at = "begun") => \E m \in notices' : QueueNews(m)'
        BY <1>2 DEF QueueNews
      <4>2. (n.kind = "player" /\ n.data.player = contents'.player) => \E m \in notices' : PlayerNews(m)'
        BY <1>2 DEF PlayerNews
      <4>3. contents'.queue = contents.queue => \A m \in notices : QueueNews(m) => QueueNews(m)' /\ m \in notices'
        BY <1>2 DEF QueueNews
      <4>4. contents'.player = contents.player => \A m \in notices : PlayerNews(m) => PlayerNews(m)' /\ m \in notices'
        BY <1>2 DEF PlayerNews
      <4> QED
        BY <1>2, <3>1, <4>1, <4>2, <4>3, <4>4 DEF NewsComes
    <3> QED
      BY <3>2, <3>3, <3>4
  <2> QED
    BY <2>3, <2>4, <2>5 DEF DashboardInv
<1>3. CASE ChangeState
  <2> DEFINE data == [NoContents EXCEPT !.player = contents.player + 1]
             n == [kind |-> "player", of |-> contents.player + 1, at |-> "taken", data |-> data]
             new == [contents EXCEPT !.player = contents.player + 1]
  <2>1. contents.player + 1 \in 1 .. MaxStates
    BY <1>1, <1>3, DashboardAssumption DEF ChangeState
  <2>2. /\ data \in Contents /\ data.player = contents.player + 1 /\ data.queue = 0
        /\ new \in Contents /\ new.player = contents.player + 1 /\ new.queue = contents.queue
    BY <1>1, <2>1 DEF NoContents, Contents
  <2>3. contents' = new /\ notices' = notices \cup {n}
    BY <1>1, <1>3 DEF ChangeState
  <2> HIDE DEF data, new
  <2>4. n \in Notice /\ n.kind = "player" /\ n.at = "taken" /\ n.data = data
    BY <2>1, <2>2 DEF Notice
  <2> HIDE DEF n
  <2>5. /\ n.data.player = contents'.player /\ contents'.queue = contents.queue
        /\ n.data.queue <= contents'.queue /\ n.data.player <= contents'.player
    BY <1>1, <2>2, <2>3, <2>4
  <2>6. contents'.queue >= contents.queue /\ contents'.player >= contents.player
    BY <1>1, <2>2, <2>3
  <2> QED
    BY <1>2, <2>2, <2>3, <2>4, <2>5, <2>6
<1>4. ASSUME NEW t \in Shown, ChangeQueue(t)
      PROVE  DashboardInv'
  <2> DEFINE n == [kind |-> "queue", of |-> contents.queue + 1, at |-> "begun", data |-> NoContents]
             new == [contents EXCEPT !.queue = contents.queue + 1, !.title = t]
  <2>1. contents.queue + 1 \in 1 .. MaxChanges
    <3>1. contents.queue < MaxChanges
      BY <1>4 DEF ChangeQueue
    <3> QED
      BY <1>1, <3>1, DashboardAssumption
  <2>2. new \in Contents /\ new.player = contents.player /\ new.queue = contents.queue + 1
    <3>1. contents.queue + 1 \in 0 .. MaxChanges /\ t \in Shown
      BY <1>4, <2>1, DashboardAssumption
    <3> HIDE DEF Shown
    <3>2. new \in Contents
      BY <1>1, <3>1 DEF Contents
    <3>3. new.player = contents.player /\ new.queue = contents.queue + 1
      BY <1>1 DEF Contents
    <3> QED
      BY <3>2, <3>3
  <2>3. contents' = new /\ notices' = notices \cup {n}
    BY <1>1, <1>4 DEF ChangeQueue
  <2> HIDE DEF new
  <2>4. n \in Notice /\ n.kind = "queue" /\ n.at = "begun"
    BY <1>1, <2>1 DEF Notice
  <2> HIDE DEF n
  <2>6. /\ contents'.queue >= contents.queue /\ contents'.player >= contents.player
        /\ contents'.player = contents.player
    BY <1>1, <2>2, <2>3
  <2> QED
    BY <1>2, <2>2, <2>3, <2>4, <2>6
<1> QED
  BY <1>3, <1>4

\* A handler reads the lists.
LEMMA TakeListsKeeps ==
  ASSUME DashboardInv, NEW n \in notices, TakeLists(n)
  PROVE  DashboardInv'
<1> DEFINE data == [contents EXCEPT !.player = 0]
           new == [n EXCEPT !.at = "taken", !.data = data]
<1>1. /\ contents \in Contents /\ contents.queue \in Nat /\ contents.player \in Nat
      /\ notices \subseteq Notice /\ n \in Notice /\ n.kind = "queue"
      /\ UNCHANGED <<contents, webSockets, pages>>
      /\ 0 \in 0 .. MaxStates
  BY DashboardTypes, DashboardAssumption DEF TakeLists
<1>2. data \in Contents /\ data.player = 0 /\ data.queue = contents.queue
  BY <1>1 DEF Contents
<1>3. notices' = (notices \ {n}) \cup {new}
  BY DEF TakeLists
<1> HIDE DEF data
<1>4. new \in Notice /\ new.kind = "queue" /\ new.at = "taken" /\ new.data = data
  BY <1>1, <1>2 DEF Notice
<1> HIDE DEF new
<1>5. NotAhead(new.data) /\ QueueNews(new)
  BY <1>1, <1>2, <1>4 DEF NotAhead, QueueNews
<1>6. NoticesSound'
  BY <1>1, <1>3, <1>5 DEF DashboardInv, NoticesSound, NotAhead
<1>7. DashboardTypeOK'
  BY <1>1, <1>3, <1>4 DEF DashboardInv, DashboardTypeOK
<1>8. ASSUME NEW p \in Page
      PROVE  PageSound(pages[p])' /\ NewsComes(pages[p])' /\ PageInTime(pages[p])'
  <2>1. PageSound(pages[p]) /\ NewsComes(pages[p]) /\ PageInTime(pages[p]) /\ pages'[p] = pages[p]
    BY <1>1 DEF DashboardInv
  <2>2. PageSound(pages[p])' /\ PageInTime(pages[p])'
    BY <1>1, <2>1 DEF PageSound, PageInTime, NotAhead, Registered
  <2>3. (\E m \in notices : QueueNews(m)) => \E m \in notices' : QueueNews(m)'
    BY <1>1, <1>3, <1>5 DEF QueueNews
  <2>4. (\E m \in notices : PlayerNews(m)) => \E m \in notices' : PlayerNews(m)'
    BY <1>1, <1>3 DEF PlayerNews
  <2>5. NewsComes(pages[p])'
    BY <1>1, <2>1, <2>3, <2>4 DEF NewsComes
  <2> QED
    BY <2>2, <2>5
<1> QED
  BY <1>6, <1>7, <1>8 DEF DashboardInv

\* What a page is that has taken a message, or has missed it.
LEMMA PageAfterMessage ==
  ASSUME DashboardInv, NEW n \in notices, n.at = "taken", NEW p \in Page, NEW new,
         \/ new = Takes(pages[p], n)
         \/ new = [pages[p] EXCEPT !.missed = TRUE]
         \/ new = pages[p] /\ pages[p].at \notin Linked,
         notices' = notices \ {n}, UNCHANGED contents
  PROVE  /\ PageSound(new) /\ NotAhead(new.told) /\ NotAhead(new.snapshot)
         /\ new.at = pages[p].at /\ new.link = pages[p].link
         /\ new.at \in Linked /\ ~new.missed =>
              /\ \/ new.at = "registered" \/ new.told.queue = contents.queue
                 \/ new.at = "writing" /\ new.snapshot.queue = contents.queue
                 \/ \E m \in notices' : QueueNews(m)
              /\ \/ new.at = "registered" \/ new.told.player = contents.player
                 \/ new.at = "writing" /\ new.snapshot.player = contents.player
                 \/ \E m \in notices' : PlayerNews(m)
<1> DEFINE page == pages[p]
<1>1. /\ PageSound(page) /\ NewsComes(page) /\ PageInTime(page) /\ page \in PageState
      /\ contents.queue \in Nat /\ contents.player \in Nat /\ n \in Notice /\ n.data \in Contents
      /\ NotAhead(n.data) /\ n.data.queue \in Nat /\ n.data.player \in Nat
      /\ n.kind \in {"queue", "player"}
  BY DashboardTypes, ContentsFacts DEF DashboardInv, NoticesSound
<1>2. /\ page.told.queue \in Nat /\ page.told.player \in Nat
  <2>1. page.told \in [queue : 0 .. MaxChanges, player : 0 .. MaxStates]
    BY <1>1 DEF PageState
  <2> QED
    BY <2>1, DashboardAssumption
<1>3. CASE new = [page EXCEPT !.missed = TRUE]
  <2>1. /\ new \in PageState /\ new.at = page.at /\ new.link = page.link /\ new.missed
        /\ new.told = page.told /\ new.snapshot = page.snapshot /\ new.attempts = page.attempts
        /\ new.last = page.last /\ new.shown = page.shown /\ new.ref = page.ref
        /\ new.due = page.due /\ new.hasty = page.hasty
    BY <1>1, <1>3 DEF PageState
  <2> QED
    BY <1>1, <2>1 DEF PageSound, PageInTime
<1>4. CASE new = page /\ page.at \notin Linked
  BY <1>1, <1>4 DEF PageInTime
<1>5. CASE new = Takes(page, n)
  <2>1. /\ PageSound(new) /\ new.at = page.at /\ new.link = page.link
        /\ new.snapshot = page.snapshot /\ new.missed = page.missed
        /\ new.told.queue = AtLeast(page.told.queue, n.data.queue)
        /\ new.told.player = AtLeast(page.told.player, n.data.player)
    BY <1>1, <1>5, TakesFacts DEF SameLink
  <2>2. NotAhead(new.told) /\ NotAhead(new.snapshot)
    BY <1>1, <1>2, <2>1 DEF PageInTime, NotAhead, AtLeast
  <2>3. page.told.queue = contents.queue \/ QueueNews(n) => new.told.queue = contents.queue
    BY <1>1, <1>2, <2>1 DEF PageInTime, NotAhead, AtLeast, QueueNews
  <2>4. page.told.player = contents.player \/ PlayerNews(n) => new.told.player = contents.player
    BY <1>1, <1>2, <2>1 DEF PageInTime, NotAhead, AtLeast, PlayerNews
  <2>5. \A m \in notices : m = n \/ m \in notices'
    OBVIOUS
  <2> QED
    BY <1>1, <2>1, <2>2, <2>3, <2>4, <2>5 DEF NewsComes
<1> QED
  BY <1>3, <1>4, <1>5

\* Dashboards are told.
LEMMA SendsKeep ==
  ASSUME DashboardInv, NEW n \in notices,
         \/ \E failing \in SUBSET Stale : SendToWebsockets(n, failing)
         \/ \E p \in Page, before \in SUBSET Page : SendPanics(n, p, before)
  PROVE  DashboardInv'
<1>1. /\ contents \in Contents /\ n.at = "taken" /\ notices' = notices \ {n} /\ UNCHANGED contents
      /\ notices \subseteq Notice /\ webSockets \in [SocketNo -> {"unused", "served", "deserted", "gone"}]
  BY DashboardTypes DEF SendToWebsockets, SendPanics
<1>2. /\ webSockets' \in [SocketNo -> {"unused", "served", "deserted", "gone"}]
      /\ \A l \in Registered : l \in Registered' \/ l \in Stale
  <2>1. ASSUME NEW failing \in SUBSET Stale, SendToWebsockets(n, failing)
        PROVE  /\ webSockets' \in [SocketNo -> {"unused", "served", "deserted", "gone"}]
               /\ \A l \in Registered : l \in Registered' \/ l \in Stale
    BY <1>1, <2>1 DEF SendToWebsockets, Registered
  <2>2. ASSUME NEW p \in Page, NEW before \in SUBSET Page, SendPanics(n, p, before)
        PROVE  UNCHANGED webSockets
    BY <2>2 DEF SendPanics
  <2> QED
    BY <1>1, <2>1, <2>2 DEF Registered
<1>3. ASSUME NEW p \in Page
      PROVE  /\ pages[p].at \in Linked => pages[p].link \in Registered /\ pages[p].link \notin Stale
             /\ OnLink(p, Registered) <=> pages[p].at \in Linked
  BY DEF DashboardInv, PageInTime, Stale, OnLink, Linked
<1>4. /\ DOMAIN pages' = Page /\ pages' = [p \in Page |-> pages'[p]]
      /\ \A p \in Page : \/ pages'[p] = Takes(pages[p], n)
                        \/ pages'[p] = [pages[p] EXCEPT !.missed = TRUE]
                        \/ (pages'[p] = pages[p] /\ pages[p].at \notin Linked)
  <2>1. ASSUME NEW failing \in SUBSET Stale, SendToWebsockets(n, failing)
        PROVE  <1>4!1 /\ <1>4!2
    BY <1>3, <2>1 DEF SendToWebsockets
  <2>2. ASSUME NEW p \in Page, NEW before \in SUBSET Page, SendPanics(n, p, before)
        PROVE  <1>4!1 /\ <1>4!2
    BY <1>3, <2>2 DEF SendPanics
  <2> QED
    BY <2>1, <2>2
<1>5. ASSUME NEW p \in Page
      PROVE  /\ PageSound(pages'[p]) /\ pages'[p] \in PageState
             /\ NewsComes(pages[p])' /\ PageInTime(pages[p])'
  <2> DEFINE new == pages'[p]
  <2>1. /\ PageSound(new) /\ NotAhead(new.told) /\ NotAhead(new.snapshot)
        /\ new.at = pages[p].at /\ new.link = pages[p].link
        /\ new.at \in Linked /\ ~new.missed =>
              /\ \/ new.at = "registered" \/ new.told.queue = contents.queue
                 \/ new.at = "writing" /\ new.snapshot.queue = contents.queue
                 \/ \E m \in notices' : QueueNews(m)
              /\ \/ new.at = "registered" \/ new.told.player = contents.player
                 \/ new.at = "writing" /\ new.snapshot.player = contents.player
                 \/ \E m \in notices' : PlayerNews(m)
    BY <1>1, <1>4, PageAfterMessage
  <2>2. \A m \in notices' : (QueueNews(m) => QueueNews(m)') /\ (PlayerNews(m) => PlayerNews(m)')
    BY <1>1 DEF QueueNews, PlayerNews
  <2>3. NewsComes(pages[p])'
    BY <1>1, <2>1, <2>2 DEF NewsComes
  <2>4. PageInTime(pages[p])'
    BY <1>1, <1>2, <1>3, <2>1 DEF PageInTime, NotAhead
  <2> QED
    BY <2>1, <2>3, <2>4 DEF PageSound
<1>6. DashboardTypeOK'
  BY <1>1, <1>2, <1>4, <1>5 DEF DashboardTypeOK
<1>7. NoticesSound'
  BY <1>1 DEF DashboardInv, NoticesSound, NotAhead
<1>8. \A p \in Page : PageSound(pages[p])'
  BY <1>5 DEF PageSound
<1> QED
  BY <1>5, <1>6, <1>7, <1>8 DEF DashboardInv

\* The server learns that a link is lost.
LEMMA UnregisterKeeps ==
  ASSUME DashboardInv, NEW l \in SocketNo, Unregister(l)
  PROVE  DashboardInv'
<1>1. /\ l \in Stale /\ webSockets' = [webSockets EXCEPT ![l] = "gone"]
      /\ UNCHANGED <<contents, notices, pages>>
      /\ webSockets \in [SocketNo -> {"unused", "served", "deserted", "gone"}]
  BY DashboardTypes DEF Unregister
<1>2. /\ webSockets' \in [SocketNo -> {"unused", "served", "deserted", "gone"}]
      /\ \A x \in Registered : x # l => x \in Registered'
  BY <1>1 DEF Registered
<1>3. DashboardTypeOK' /\ NoticesSound'
  BY <1>1, <1>2 DEF DashboardInv, DashboardTypeOK, NoticesSound, NotAhead
<1>4. ASSUME NEW p \in Page
      PROVE  PageSound(pages[p])' /\ NewsComes(pages[p])' /\ PageInTime(pages[p])'
  <2>1. PageSound(pages[p]) /\ NewsComes(pages[p]) /\ PageInTime(pages[p]) /\ pages'[p] = pages[p]
    BY <1>1 DEF DashboardInv
  <2>2. PageSound(pages[p])' /\ NewsComes(pages[p])'
    BY <1>1, <2>1 DEF PageSound, NewsComes, QueueNews, PlayerNews
  <2>3. pages[p].at \in Linked => pages[p].link # l
    BY <1>1 DEF Stale, OnLink, Linked
  <2> QED
    BY <1>1, <1>2, <2>1, <2>2, <2>3 DEF PageInTime, NotAhead
<1> QED
  BY <1>3, <1>4 DEF DashboardInv

\* The server, a handler or a page takes a step.
LEMMA DashboardStep == DashboardInv /\ [DashboardNext]_dashboardVars => DashboardInv'
<1> SUFFICES ASSUME DashboardInv, [DashboardNext]_dashboardVars
             PROVE  DashboardInv'
  OBVIOUS
<1>1. CASE UNCHANGED dashboardVars
  <2>1. UNCHANGED <<contents, notices, webSockets, pages>>
    BY <1>1 DEF dashboardVars
  <2> QED
    BY <2>1
    DEF DashboardInv, DashboardTypeOK, NoticesSound, NotAhead, PageSound, NewsComes, QueueNews,
        PlayerNews, PageInTime, Registered
<1> QED
  BY <1>1, ChangesKeep, TakeListsKeeps, SendsKeep, PageSteps, UnregisterKeeps
  DEF DashboardNext, DashboardGoesOn

-----------------------------------------------------------------------------
(* Media files *)

\* The samples of a file: there are some, and a chunk begins where the track changes.
LEMMA FileFacts ==
  ASSUME file \in Files
  PROVE  LET l == file.samples
         IN  /\ Len(l) \in Nat \ {0} /\ DOMAIN l = 1 .. Len(l)
             /\ \A i \in 1 .. Len(l) : /\ l[i].of \in MediaTrack /\ l[i].size \in SampleSize
                                       /\ l[i].size \in Nat \ {0} /\ l[i].begins \in BOOLEAN
             /\ \A i \in 1 .. Len(l) : i = 1 \/ l[i].of # l[i - 1].of => l[i].begins
<1> DEFINE l == file.samples
<1>1. l \in Layouts
  BY DEF Files
<1>2. /\ \E m \in 0 .. MaxInFile : l \in [1 .. m -> [of : MediaTrack, size : SampleSize, begins : BOOLEAN]]
      /\ l # <<>>
      /\ \A i \in DOMAIN l : i = 1 \/ l[i].of # l[i - 1].of => l[i].begins
  BY <1>1 DEF Layouts, BoundedSeq, SeqOf
<1> HIDE DEF l
<1>3. PICK m \in 0 .. MaxInFile :
        l \in [1 .. m -> [of : MediaTrack, size : SampleSize, begins : BOOLEAN]]
  BY <1>2
<1>4. MaxInFile \in Nat /\ SampleSize \subseteq Nat \ {0}
  BY MediaAssumption
<1>5. m \in Nat /\ m # 0 /\ Len(l) = m /\ DOMAIN l = 1 .. m
  <2>1. m \in Nat
    BY <1>4
  <2>2. DOMAIN l = 1 .. m /\ Len(l) = m
    BY <1>3, <2>1
  <2>3. m = 0 => l = <<>>
    BY <1>3
  <2> QED
    BY <1>2, <2>1, <2>2, <2>3
<1>6. \A i \in 1 .. m : /\ l[i].of \in MediaTrack /\ l[i].size \in SampleSize
                        /\ l[i].size \in Nat \ {0} /\ l[i].begins \in BOOLEAN
  BY <1>3, <1>4
<1> QED
  BY <1>2, <1>5, <1>6 DEF l

\* Where the samples of a file lie: one after the other, and all of it inside the file.
LEMMA StartFacts ==
  ASSUME file \in Files
  PROVE  /\ MovieStart \in Nat /\ DataStart \in Nat /\ FileSize \in Nat
         /\ MovieStart + MovieSize <= FileSize /\ MovieSize \in Nat \ {0}
         /\ \A i \in 1 .. Len(file.samples) : SampleStart(i) \in Nat
         /\ \A i \in 1 .. Len(file.samples) : i + 1 <= Len(file.samples) =>
              SampleStart(i + 1) = SampleStart(i) + file.samples[i].size
<1> DEFINE l == file.samples
           N == Len(l)
           s == [i \in DOMAIN l |-> l[i].size]
           B == SizesBefore
<1>1. /\ N \in Nat /\ DOMAIN l = 1 .. N
      /\ \A i \in 1 .. N : l[i].size \in Nat
  BY FileFacts
<1>2. B = Sums(s)
  BY DEF SizesBefore
<1> HIDE DEF B, l, N
<1>3. s \in Seq(Nat) /\ Len(s) = N /\ \A i \in 1 .. N : s[i] = l[i].size
  BY <1>1
<1> HIDE DEF s
<1>4. B \in [0 .. N -> Nat] /\ \A n \in 1 .. N : B[n] = B[n - 1] + s[n]
  BY <1>2, <1>3, SumsFacts
<1>5. /\ MovieSize \in Nat \ {0} /\ file.rest \in Nat /\ file.movieFirst \in BOOLEAN
  BY MediaAssumption DEF Files
<1>6. B[N] \in Nat
  BY <1>1, <1>4
<1>7. DataSize \in Nat
  BY <1>5, <1>6 DEF DataSize, B, N, l
<1>8. /\ MovieStart \in Nat /\ DataStart \in Nat /\ FileSize \in Nat
      /\ MovieStart + MovieSize <= FileSize
  BY <1>5, <1>7 DEF MovieStart, DataStart, FileSize
<1>9. \A i \in 1 .. N : SampleStart(i) = DataStart + 1 + B[i - 1]
  BY DEF SampleStart, B
<1>10. \A i \in 1 .. N : B[i - 1] \in Nat
  BY <1>1, <1>4
<1>11. \A i \in 1 .. N : SampleStart(i) \in Nat
  BY <1>8, <1>9, <1>10
<1>12. ASSUME NEW i \in 1 .. N, i + 1 <= N
       PROVE  SampleStart(i + 1) = SampleStart(i) + l[i].size
  <2>1. i + 1 \in 1 .. N /\ (i + 1) - 1 = i
    BY <1>1, <1>12
  <2>2. SampleStart(i + 1) = DataStart + 1 + B[i] /\ SampleStart(i) = DataStart + 1 + B[i - 1]
    BY <1>9, <2>1
  <2>3. B[i] = B[i - 1] + l[i].size /\ B[i - 1] \in Nat /\ l[i].size \in Nat
    BY <1>1, <1>3, <1>4, <1>10
  <2> QED
    BY <1>8, <2>2, <2>3
<1> QED
  BY <1>5, <1>8, <1>11, <1>12 DEF N, l

\* The samples of a track, in order; one that begins no chunk lies behind the one before.
LEMMA OwnFacts ==
  ASSUME file \in Files, NEW t \in MediaTrack, NEW own, own = SamplesOf(t)
  PROVE  /\ own \in Seq(1 .. Len(file.samples)) /\ Len(own) \in Nat /\ DOMAIN own = 1 .. Len(own)
         /\ \A k \in 1 .. Len(own) : own[k] \in 1 .. Len(file.samples) /\ own[k] \in Nat
         /\ Len(own) > 0 => file.samples[own[1]].begins
         /\ \A k \in 1 .. Len(own) : k + 1 <= Len(own) /\ ~ file.samples[own[k + 1]].begins =>
              own[k + 1] = own[k] + 1
<1> DEFINE l == file.samples
           N == Len(l)
           all == [i \in DOMAIN l |-> i]
           P == {i \in DOMAIN l : l[i].of = t}
<1>1. /\ N \in Nat /\ DOMAIN l = 1 .. N
      /\ \A i \in 1 .. N : i = 1 \/ l[i].of # l[i - 1].of => l[i].begins
  BY FileFacts
<1>2. own = AtPlaces(all, P)
  BY DEF SamplesOf
<1> HIDE DEF l, N
<1>3. all \in Seq(1 .. N) /\ P \in SUBSET (DOMAIN all) /\ \A i \in P : all[i] = i
  BY <1>1
<1> HIDE DEF all
<1>4. \A i \in 1 .. N : i \in P <=> l[i].of = t
  BY <1>1
<1>5. P \subseteq 1 .. N
  BY <1>1
<1> HIDE DEF P
<1>6. /\ own \in Seq(1 .. N) /\ Len(own) \in Nat /\ DOMAIN own = 1 .. Len(own) /\ Ascends(own)
      /\ \A k \in 1 .. Len(own) : own[k] \in P /\ own[k] \in Nat
      /\ \A i \in P : \E k \in 1 .. Len(own) : own[k] = i
      /\ \A a, b \in 1 .. Len(own) : own[a] < own[b] => a < b
  BY <1>2, <1>3, PlacesInOrder
<1>7. ASSUME NEW k \in 1 .. Len(own), ~ l[own[k]].begins
      PROVE  k > 1 /\ own[k] = own[k - 1] + 1
  <2> DEFINE i == own[k]
  <2>1. i \in 1 .. N /\ l[i].of = t
    BY <1>4, <1>5, <1>6
  <2>2. i # 1 /\ l[i].of = l[i - 1].of
    BY <1>1, <1>7, <2>1
  <2>3. i - 1 \in 1 .. N /\ i - 1 < i
    BY <1>1, <2>1, <2>2
  <2> HIDE DEF i
  <2>4. PICK j \in 1 .. Len(own) : own[j] = i - 1
    BY <1>4, <1>6, <2>1, <2>2, <2>3
  <2>5. own[j] < own[k]
    BY <2>3, <2>4 DEF i
  <2>6. j < k
    BY <1>6, <2>5
  <2>7. k - 1 \in 1 .. Len(own) /\ k - 1 < k /\ j <= k - 1 /\ k \in Nat /\ j \in Nat
    BY <1>6, <2>6
  <2>8. own[k - 1] < i
    BY <1>6, <2>7 DEF Ascends, i
  <2>9. j < k - 1 => own[j] < own[k - 1]
    BY <1>6, <2>7 DEF Ascends
  <2>10. own[k - 1] \in Nat /\ i \in Nat
    BY <1>6, <2>7 DEF i
  <2>11. j = k - 1
    BY <2>4, <2>7, <2>8, <2>9, <2>10
  <2> QED
    BY <2>4, <2>7, <2>10, <2>11 DEF i
<1>8. Len(own) > 0 => l[own[1]].begins
  <2> SUFFICES ASSUME Len(own) > 0, ~ l[own[1]].begins PROVE FALSE
    OBVIOUS
  <2>1. 1 \in 1 .. Len(own)
    BY <1>6
  <2> QED
    BY <1>7, <2>1
<1>9. ASSUME NEW k \in 1 .. Len(own), k + 1 <= Len(own), ~ l[own[k + 1]].begins
      PROVE  own[k + 1] = own[k] + 1
  <2>1. k + 1 \in 1 .. Len(own) /\ (k + 1) - 1 = k
    BY <1>6, <1>9
  <2> QED
    BY <1>7, <1>9, <2>1
<1>10. \A k \in 1 .. Len(own) : own[k] \in 1 .. N
  BY <1>5, <1>6
<1> QED
  BY <1>6, <1>8, <1>9, <1>10 DEF N, l

\* With which of its samples the chunks of a track begin, and with which the one behind a chunk.
Begins(t) == LET own == SamplesOf(t)
             IN  AtPlaces([k \in DOMAIN own |-> k], {k \in DOMAIN own : file.samples[own[k]].begins})
NextBegins(firsts, c, m) == IF c < Len(firsts) THEN firsts[c + 1] ELSE m + 1

\* The chunks of a track begin with samples of it in order, the first with the first one.
LEMMA BeginsFacts ==
  ASSUME file \in Files, NEW t \in MediaTrack, NEW own, own = SamplesOf(t),
         NEW firsts, firsts = Begins(t)
  PROVE  /\ firsts \in Seq(1 .. Len(own)) /\ Len(firsts) \in Nat /\ DOMAIN firsts = 1 .. Len(firsts)
         /\ \A c \in 1 .. Len(firsts) : firsts[c] \in 1 .. Len(own)
         /\ \A b, c \in 1 .. Len(firsts) : b < c => firsts[b] < firsts[c]
         /\ IF Len(own) = 0 THEN Len(firsts) = 0 ELSE Len(firsts) > 0 /\ firsts[1] = 1
         /\ \A k \in 1 .. Len(own) :
              file.samples[own[k]].begins => \E c \in 1 .. Len(firsts) : firsts[c] = k
<1> DEFINE m == Len(own)
           all == [k \in DOMAIN own |-> k]
           P == {k \in DOMAIN own : file.samples[own[k]].begins}
<1>1. m \in Nat /\ DOMAIN own = 1 .. m /\ (m > 0 => file.samples[own[1]].begins)
  BY OwnFacts
<1>2. firsts = AtPlaces(all, P)
  BY DEF Begins
<1> HIDE DEF m
<1>3. all \in Seq(1 .. m) /\ P \in SUBSET (DOMAIN all) /\ \A i \in P : all[i] = i
  BY <1>1
<1>4. /\ P \subseteq 1 .. m /\ (m > 0 => 1 \in P)
      /\ \A k \in 1 .. m : file.samples[own[k]].begins => k \in P
  BY <1>1
<1> HIDE DEF all, P
<1>5. /\ firsts \in Seq(1 .. m) /\ Len(firsts) \in Nat /\ DOMAIN firsts = 1 .. Len(firsts)
      /\ Ascends(firsts)
      /\ \A k \in 1 .. Len(firsts) : firsts[k] \in P /\ firsts[k] \in Nat
      /\ \A i \in P : \E k \in 1 .. Len(firsts) : firsts[k] = i
      /\ \A a, b \in 1 .. Len(firsts) : firsts[a] < firsts[b] => a < b
  BY <1>2, <1>3, PlacesInOrder
<1>6. \A c \in 1 .. Len(firsts) : firsts[c] \in 1 .. m
  BY <1>4, <1>5
<1>7. ASSUME m = 0
      PROVE  Len(firsts) = 0
  <2>1. ~ (1 \in 1 .. Len(firsts))
    BY <1>6, <1>7
  <2> QED
    BY <1>5, <2>1
<1>8. ASSUME m # 0
      PROVE  Len(firsts) > 0 /\ firsts[1] = 1
  <2>1. 1 \in P
    BY <1>1, <1>4, <1>8
  <2>2. PICK c \in 1 .. Len(firsts) : firsts[c] = 1
    BY <1>5, <2>1
  <2>3. 1 \in 1 .. Len(firsts) /\ c \in Nat
    BY <1>5, <2>2
  <2>4. firsts[1] \in 1 .. m /\ (1 < c => firsts[1] < firsts[c])
    BY <1>5, <1>6, <2>3 DEF Ascends
  <2>5. c = 1
    BY <2>2, <2>3, <2>4
  <2> QED
    BY <1>5, <2>2, <2>3, <2>5
<1>9. \A b, c \in 1 .. Len(firsts) : b < c => firsts[b] < firsts[c]
  BY <1>5 DEF Ascends
<1>10. \A k \in 1 .. m :
         file.samples[own[k]].begins => \E c \in 1 .. Len(firsts) : firsts[c] = k
  BY <1>4, <1>5
<1> QED
  BY <1>5, <1>6, <1>7, <1>8, <1>9, <1>10 DEF m

\* Behind the first sample of a chunk none begins a chunk until the next one.
LEMMA ChunkSpans ==
  ASSUME NEW m \in Nat, NEW firsts \in Seq(1 .. m), Len(firsts) \in Nat,
         \A b, c \in 1 .. Len(firsts) : b < c => firsts[b] < firsts[c],
         NEW c \in 1 .. Len(firsts)
  PROVE  /\ NextBegins(firsts, c, m) \in firsts[c] + 1 .. m + 1
         /\ NextBegins(firsts, c, m) - firsts[c] \in Nat
         /\ \A d \in 1 .. Len(firsts) :
              ~ (firsts[c] < firsts[d] /\ firsts[d] < NextBegins(firsts, c, m))
<1>1. \A d \in 1 .. Len(firsts) : firsts[d] \in 1 .. m /\ firsts[d] \in Nat
  OBVIOUS
<1>2. CASE c < Len(firsts)
  <2>1. c + 1 \in 1 .. Len(firsts) /\ c < c + 1 /\ NextBegins(firsts, c, m) = firsts[c + 1]
    BY <1>2 DEF NextBegins
  <2>2. firsts[c] < firsts[c + 1] /\ firsts[c + 1] \in 1 .. m /\ firsts[c] \in 1 .. m
    BY <1>1, <2>1
  <2>3. ASSUME NEW d \in 1 .. Len(firsts), firsts[c] < firsts[d], firsts[d] < firsts[c + 1]
        PROVE  FALSE
    <3>1. d <= c => firsts[d] <= firsts[c]
      <4>1. d < c \/ d = c \/ d > c
        OBVIOUS
      <4> QED
        BY <1>1, <4>1
    <3>2. d > c => firsts[c + 1] <= firsts[d]
      <4>1. d > c => d = c + 1 \/ c + 1 < d
        OBVIOUS
      <4> QED
        BY <1>1, <2>1, <4>1
    <3>3. d <= c \/ d > c
      OBVIOUS
    <3>4. firsts[d] \in Nat /\ firsts[c] \in Nat /\ firsts[c + 1] \in Nat
      BY <1>1, <2>1
    <3> QED
      BY <2>3, <3>1, <3>2, <3>3, <3>4
  <2> QED
    BY <2>1, <2>2, <2>3
<1>3. CASE ~ (c < Len(firsts))
  <2>1. c = Len(firsts) /\ NextBegins(firsts, c, m) = m + 1 /\ firsts[c] \in 1 .. m
    BY <1>1, <1>3 DEF NextBegins
  <2>2. ASSUME NEW d \in 1 .. Len(firsts), firsts[c] < firsts[d]
        PROVE  FALSE
    <3>1. d < c \/ d = c
      BY <2>1
    <3>2. firsts[d] \in Nat /\ firsts[c] \in Nat
      BY <1>1
    <3>3. d < c => firsts[d] < firsts[c]
      OBVIOUS
    <3> QED
      BY <2>2, <3>1, <3>2, <3>3
  <2> QED
    BY <2>1, <2>2
<1> QED
  BY <1>2, <1>3

\* The list of chunks that differ from the one before says of every chunk how many samples it has.
LEMMA PerChunk ==
  ASSUME NEW n \in Nat, NEW per, NEW E \in SUBSET (1 .. n), n > 0 => 1 \in E,
         \A c \in 1 .. n : c \notin E => per[c] = per[c - 1],
         NEW stsc, \A d \in E : [first |-> d, per |-> per[d]] \in stsc,
         \A e \in stsc : \E d \in E : e = [first |-> d, per |-> per[d]],
         NEW c \in 1 .. n
  PROVE  SamplesPerChunkFor(stsc, c) = per[c]
<1> DEFINE before == {e \in stsc : c >= e.first}
           G == {d \in E : d <= c}
           LastBefore(e) == \A d \in before : d.first <= e.first
<1>1. G \subseteq 0 .. n /\ 1 \in G
  <2>1. n > 0 /\ 1 <= c
    OBVIOUS
  <2>2. 1 \in E
    BY <2>1
  <2>3. \A d \in E : d \in 0 .. n
    OBVIOUS
  <2> QED
    BY <2>1, <2>2, <2>3
<1>2. PICK g \in G : \A d \in G : d <= g
  <2> HIDE DEF G
  <2> QED
    BY <1>1, GreatestNumber
<1>3. \A d \in G : [first |-> d, per |-> per[d]] \in before
  OBVIOUS
<1>4. \A e \in before : \E d \in G : e = [first |-> d, per |-> per[d]]
  OBVIOUS
<1> DEFINE x == [first |-> g, per |-> per[g]]
<1>5. x \in before
  BY <1>3
<1>6. LastBefore(x)
  <2> SUFFICES ASSUME NEW e \in before PROVE e.first <= g
    OBVIOUS
  <2>1. PICK d \in G : e = [first |-> d, per |-> per[d]]
    BY <1>4
  <2> QED
    BY <1>2, <2>1
<1> DEFINE e == CHOOSE e \in before : LastBefore(e)
<1> HIDE DEF x
<1>7. e \in before /\ LastBefore(e)
  BY <1>5, <1>6
<1>8. SamplesPerChunkFor(stsc, c) = e.per
  BY <1>5 DEF SamplesPerChunkFor
<1> HIDE DEF e
<1>9. PICK d \in G : e = [first |-> d, per |-> per[d]]
  BY <1>4, <1>7
<1>10. \A f \in G : f <= d
  <2> SUFFICES ASSUME NEW f \in G PROVE f <= d
    OBVIOUS
  <2>1. [first |-> f, per |-> per[f]].first <= e.first
    BY <1>3, <1>7
  <2> QED
    BY <1>9, <2>1
<1> DEFINE S == {k \in Nat : d + k <= c => per[d + k] = per[d]}
<1>11. d \in Nat /\ d \in 1 .. n /\ d <= c /\ c \in Nat
  BY <1>9
<1>12. 0 \in S
  BY <1>11
<1>13. ASSUME NEW k \in S, k < c - d
       PROVE  k + 1 \in S
  <2>1. d + (k + 1) \in 1 .. n /\ d + (k + 1) <= c /\ ~ (d + (k + 1) <= d) /\ d + k <= c
        /\ (d + (k + 1)) - 1 = d + k
    BY <1>11, <1>13
  <2>2. d + (k + 1) \notin E
    BY <1>10, <2>1
  <2>3. per[d + (k + 1)] = per[d + k]
    BY <2>1, <2>2
  <2>4. per[d + k] = per[d]
    BY <2>1
  <2> QED
    BY <2>3, <2>4
<1>14. c - d \in S
  <2>1. c - d \in Nat
    BY <1>11
  <2>2. S \subseteq Nat
    OBVIOUS
  <2> HIDE DEF S
  <2>3. 0 .. c - d \subseteq S
    BY <1>12, <1>13, <2>1, <2>2, AllUpTo
  <2> QED
    BY <2>1, <2>3
<1>15. per[c] = per[d]
  <2>1. d + (c - d) = c /\ d + (c - d) <= c
    BY <1>11
  <2> QED
    BY <1>14, <2>1
<1> QED
  BY <1>8, <1>9, <1>15

\* The samples lie behind one another but where a chunk begins, and the lists say how long they
\* are, where the chunks begin and how many samples each has.
ListsSay(lists, m, sizes, start, firsts) ==
  /\ m \in Nat /\ sizes \in Seq(Nat) /\ Len(sizes) = m /\ \A k \in 1 .. m : start[k] \in Nat
  /\ firsts \in Seq(1 .. m) /\ Len(firsts) \in Nat
  /\ \A b, c \in 1 .. Len(firsts) : b < c => firsts[b] < firsts[c]
  /\ IF m = 0 THEN Len(firsts) = 0 ELSE Len(firsts) > 0 /\ firsts[1] = 1
  /\ \A k \in 1 .. m : k + 1 <= m =>
       \/ \E c \in 1 .. Len(firsts) : firsts[c] = k + 1
       \/ start[k + 1] = start[k] + sizes[k]
  /\ lists.sizes = sizes
  /\ Len(lists.offsets) = Len(firsts) /\ DOMAIN lists.offsets = 1 .. Len(firsts)
  /\ \A c \in 1 .. Len(firsts) : lists.offsets[c] = start[firsts[c]]
  /\ \A c \in 1 .. Len(firsts) :
       SamplesPerChunkFor(lists.stsc, c) = NextBegins(firsts, c, m) - firsts[c]

\* From such lists the program makes the table of the samples.
LEMMA TableBuilt ==
  ASSUME NEW m, NEW sizes, NEW start, NEW firsts, NEW lists,
         ListsSay(lists, m, sizes, start, firsts)
  PROVE  /\ DOMAIN BuildSampleTable(lists) = 1 .. m
         /\ BuildSampleTable(lists) = [k \in 1 .. m |-> BuildSampleTable(lists)[k]]
         /\ \A k \in 1 .. m : BuildSampleTable(lists)[k] = [offset |-> start[k], size |-> sizes[k]]
<1> SUFFICES
      ASSUME m \in Nat, sizes \in Seq(Nat), Len(sizes) = m, \A k \in 1 .. m : start[k] \in Nat,
             firsts \in Seq(1 .. m), Len(firsts) \in Nat,
             \A b, c \in 1 .. Len(firsts) : b < c => firsts[b] < firsts[c],
             IF m = 0 THEN Len(firsts) = 0 ELSE Len(firsts) > 0 /\ firsts[1] = 1,
             \A k \in 1 .. m : k + 1 <= m =>
               \/ \E c \in 1 .. Len(firsts) : firsts[c] = k + 1
               \/ start[k + 1] = start[k] + sizes[k],
             lists.sizes = sizes,
             Len(lists.offsets) = Len(firsts), DOMAIN lists.offsets = 1 .. Len(firsts),
             \A c \in 1 .. Len(firsts) : lists.offsets[c] = start[firsts[c]],
             \A c \in 1 .. Len(firsts) :
               SamplesPerChunkFor(lists.stsc, c) = NextBegins(firsts, c, m) - firsts[c]
      PROVE  /\ DOMAIN BuildSampleTable(lists) = 1 .. m
             /\ BuildSampleTable(lists) = [k \in 1 .. m |-> BuildSampleTable(lists)[k]]
             /\ \A k \in 1 .. m :
                  BuildSampleTable(lists)[k] = [offset |-> start[k], size |-> sizes[k]]
  BY DEF ListsSay
<1> DEFINE n == Len(firsts)
           next(c) == NextBegins(firsts, c, m)
           per == [c \in DOMAIN lists.offsets |-> SamplesPerChunkFor(lists.stsc, c)]
           upTo == Sums(per)
           before == Sums(sizes)
<1>1. DOMAIN lists.offsets = 1 .. n /\ Len(lists.offsets) = n
  OBVIOUS
<1>2. \A c \in 1 .. n : /\ firsts[c] \in 1 .. m
                       /\ next(c) \in firsts[c] + 1 .. m + 1 /\ next(c) - firsts[c] \in Nat
                       /\ \A d \in 1 .. n : ~ (firsts[c] < firsts[d] /\ firsts[d] < next(c))
  <2> SUFFICES ASSUME NEW c \in 1 .. n
               PROVE  /\ firsts[c] \in 1 .. m
                      /\ next(c) \in firsts[c] + 1 .. m + 1 /\ next(c) - firsts[c] \in Nat
                      /\ \A d \in 1 .. n : ~ (firsts[c] < firsts[d] /\ firsts[d] < next(c))
    OBVIOUS
  <2>1. firsts[c] \in 1 .. m
    OBVIOUS
  <2>2. /\ next(c) \in firsts[c] + 1 .. m + 1 /\ next(c) - firsts[c] \in Nat
        /\ \A d \in 1 .. n : ~ (firsts[c] < firsts[d] /\ firsts[d] < next(c))
    BY ChunkSpans
  <2> QED
    BY <2>1, <2>2
<1>18. \A c \in 1 .. n : next(c) \in Int /\ firsts[c] \in Nat
  BY <1>2
<1>3. per \in Seq(Nat) /\ Len(per) = n /\ \A c \in 1 .. n : per[c] = next(c) - firsts[c]
  <2>1. per = [c \in 1 .. n |-> SamplesPerChunkFor(lists.stsc, c)]
    BY <1>1
  <2>2. \A c \in 1 .. n : per[c] = next(c) - firsts[c]
    BY <2>1
  <2>3. n \in Nat
    OBVIOUS
  <2>4. DOMAIN per = 1 .. n /\ per = [c \in 1 .. n |-> per[c]]
    BY <2>1
  <2>5. \A c \in 1 .. n : per[c] \in Nat
    BY <1>2, <2>2
  <2> HIDE DEF per, next, n
  <2> QED
    BY <2>2, <2>3, <2>4, <2>5
<1>4. \A c \in 1 .. n : next(c) = IF c < n THEN firsts[c + 1] ELSE m + 1
  BY DEF NextBegins
<1> HIDE DEF n, next, per
<1>5. /\ upTo \in [0 .. n -> Nat] /\ upTo[0] = 0
      /\ \A c \in 1 .. n : upTo[c] = upTo[c - 1] + per[c]
  BY <1>3, SumsFacts
<1>6. /\ before \in [0 .. m -> Nat] /\ before[0] = 0
      /\ \A k \in 1 .. m : before[k] = before[k - 1] + sizes[k]
  BY SumsFacts
<1> HIDE DEF upTo, before
<1>7. n \in Nat /\ (m = 0 => n = 0) /\ (m # 0 => n > 0 /\ firsts[1] = 1)
  BY DEF n
<1> DEFINE S == {c \in 0 .. n : c > 0 => upTo[c] = next(c) - 1 /\ upTo[c - 1] = firsts[c] - 1}
<1>8. 0 \in S
  BY <1>7
<1>9. ASSUME NEW c \in S, c < n
      PROVE  c + 1 \in S
  <2>1. c + 1 \in 1 .. n /\ (c + 1) - 1 = c /\ c \in 0 .. n
    BY <1>7, <1>9
  <2>2. upTo[c] = firsts[c + 1] - 1
    <3>1. CASE c = 0
      BY <1>2, <1>5, <1>7, <1>9, <3>1
    <3>2. CASE c > 0
      <4>1. upTo[c] = next(c) - 1 /\ c \in 1 .. n
        BY <2>1, <3>2
      <4> QED
        BY <1>4, <1>9, <4>1
    <3> QED
      BY <2>1, <3>1, <3>2
  <2>3. upTo[c + 1] = upTo[c] + (next(c + 1) - firsts[c + 1])
    BY <1>3, <1>5, <2>1
  <2>4. upTo[c + 1] = next(c + 1) - 1
    <3>1. firsts[c + 1] \in Int /\ next(c + 1) \in Int
      BY <1>2, <2>1
    <3> QED
      BY <2>2, <2>3, <3>1
  <2> QED
    BY <2>1, <2>2, <2>4
<1>10. \A c \in 1 .. n : upTo[c] = next(c) - 1 /\ upTo[c - 1] = firsts[c] - 1
  <2>1. S \subseteq Nat
    BY <1>7
  <2>2. 0 .. n \subseteq S
    <3> HIDE DEF S
    <3> QED
      BY <1>7, <1>8, <1>9, <2>1, AllUpTo
  <2>3. \A c \in 1 .. n : c \in S /\ c > 0
    BY <2>2
  <2> QED
    BY <2>3
<1>11. upTo[n] = m
  <2>1. CASE n = 0
    BY <1>5, <1>7, <2>1
  <2>2. CASE n > 0
    <3>1. n \in 1 .. n /\ ~ (n < n)
      BY <1>7, <2>2
    <3> QED
      BY <1>4, <1>10, <3>1
  <2> QED
    BY <1>7, <2>1, <2>2
<1> DEFINE InChunk(k, c) == upTo[c - 1] < k /\ k <= upTo[c]
<1>12. \A c \in 1 .. n, k \in Int : InChunk(k, c) <=> firsts[c] <= k /\ k < next(c)
  <2> SUFFICES ASSUME NEW c \in 1 .. n, NEW k \in Int
               PROVE  InChunk(k, c) <=> firsts[c] <= k /\ k < next(c)
    OBVIOUS
  <2> DEFINE a == firsts[c]
             b == next(c)
  <2>1. a \in Int /\ b \in Int
    BY <1>2
  <2>2. upTo[c - 1] = a - 1 /\ upTo[c] = b - 1
    BY <1>10
  <2> HIDE DEF a, b
  <2>3. a - 1 < k <=> a <= k
    BY <2>1
  <2>4. k <= b - 1 <=> k < b
    BY <2>1
  <2>5. InChunk(k, c) <=> a <= k /\ k < b
    BY <2>2, <2>3, <2>4
  <2> QED
    BY <2>5 DEF a, b
<1>13. \A k \in 1 .. m : \E c \in 1 .. n : InChunk(k, c)
  <2> SUFFICES ASSUME NEW k \in 1 .. m PROVE \E c \in 1 .. n : InChunk(k, c)
    OBVIOUS
  <2> DEFINE T == {c \in 1 .. n : firsts[c] <= k}
  <2>1. 1 \in T /\ T \subseteq 0 .. n
    BY <1>7
  <2>2. PICK c \in T : \A d \in T : d <= c
    <3> HIDE DEF T
    <3> QED
      BY <1>7, <2>1, GreatestNumber
  <2>3. k < next(c)
    <3>1. CASE c < n
      <4>1. c + 1 \in 1 .. n /\ ~ (c + 1 <= c)
        BY <1>7, <3>1
      <4>2. ~ (firsts[c + 1] <= k)
        BY <2>2, <4>1
      <4>3. firsts[c + 1] \in 1 .. m /\ next(c) = firsts[c + 1]
        BY <1>2, <1>4, <3>1, <4>1
      <4> QED
        BY <4>2, <4>3
    <3>2. CASE ~ (c < n)
      BY <1>4, <3>2
    <3> QED
      BY <3>1, <3>2
  <2>4. InChunk(k, c)
    BY <1>12, <2>3
  <2> QED
    BY <2>4
<1>14. ASSUME NEW k \in 1 .. m, NEW c \in 1 .. n, InChunk(k, c)
       PROVE  start[firsts[c]] + before[k - 1] - before[upTo[c - 1]] = start[k]
  <2> DEFINE f == firsts[c]
             R == {j \in Nat : f + j <= k => start[f] + before[(f + j) - 1] - before[f - 1] = start[f + j]}
  <2>1. f \in 1 .. m /\ f <= k /\ k < next(c) /\ upTo[c - 1] = f - 1 /\ f \in Nat /\ k \in Nat
    <3>1. k \in Int /\ k \in Nat
      OBVIOUS
    <3>2. firsts[c] <= k /\ k < next(c)
      <4> HIDE DEF InChunk
      <4> QED
        BY <1>12, <1>14, <3>1
    <3> QED
      BY <1>2, <1>10, <1>18, <3>1, <3>2
  <2> HIDE DEF f
  <2>2. 0 \in R
    <3>1. before[f - 1] \in Nat /\ start[f] \in Nat /\ f + 0 = f
      BY <1>6, <2>1
    <3> QED
      BY <3>1
  <2>3. ASSUME NEW j \in R, j < k - f
        PROVE  j + 1 \in R
    <3> DEFINE g == f + j
    <3>1. /\ g \in 1 .. m /\ g + 1 \in 1 .. m /\ g + 1 <= m /\ f + j <= k /\ f + (j + 1) = g + 1
          /\ (g + 1) - 1 = g /\ f < g + 1 /\ g + 1 < next(c)
      <4>1. next(c) \in Int
        BY <1>18
      <4>2. \A a, b, z, d, w \in Int : 1 <= a /\ b >= 0 /\ b < z - a /\ z <= d /\ z < w =>
              /\ 1 <= a + b /\ a + b + 1 <= d /\ a + b <= z /\ a + (b + 1) = (a + b) + 1
              /\ ((a + b) + 1) - 1 = a + b /\ a < (a + b) + 1 /\ (a + b) + 1 < w
        OBVIOUS
      <4>3. f \in Int /\ j \in Int /\ k \in Int /\ m \in Int /\ 1 <= f /\ j >= 0 /\ k <= m
        BY <2>1
      <4> QED
        BY <2>1, <2>3, <4>1, <4>2, <4>3
    <3> HIDE DEF g
    <3>2. start[f] + before[g - 1] - before[f - 1] = start[g]
      BY <3>1 DEF g
    <3>3. ~ (\E d \in 1 .. n : firsts[d] = g + 1)
      BY <1>2, <3>1 DEF f
    <3>4. start[g + 1] = start[g] + sizes[g]
      BY <3>1, <3>3 DEF n
    <3>5. before[g] = before[g - 1] + sizes[g]
      BY <1>6, <3>1
    <3>6. /\ start[f] \in Nat /\ start[g] \in Nat /\ before[g - 1] \in Nat /\ before[f - 1] \in Nat
          /\ sizes[g] \in Nat
      <4>1. f - 1 \in 0 .. m
        BY <2>1
      <4>2. g - 1 \in 0 .. m
        BY <3>1
      <4>3. sizes[g] \in Nat
        BY <3>1
      <4> QED
        BY <1>6, <2>1, <3>1, <4>1, <4>2, <4>3
    <3>7. start[f] + before[g] - before[f - 1] = start[g + 1]
      <4> DEFINE a == start[f]
                 b == before[g - 1]
                 d == before[f - 1]
                 z == start[g]
                 x == sizes[g]
      <4>1. a \in Int /\ b \in Int /\ d \in Int /\ z \in Int /\ x \in Int
        <5>1. \A v \in Nat : v \in Int
          OBVIOUS
        <5> QED
          BY <3>6, <5>1, Zenon
      <4>2. a + b - d = z
        BY <3>2
      <4>3. start[g + 1] = z + x /\ before[g] = b + x
        BY <3>4, <3>5
      <4> HIDE DEF a, b, d, z, x
      <4>4. a + (b + x) - d = z + x
        BY <4>1, <4>2
      <4>5. start[f] + before[g] - before[f - 1] = a + before[g] - d
        BY DEF a, d
      <4> QED
        BY <4>3, <4>4, <4>5
    <3> QED
      BY <3>1, <3>7
  <2>4. k - f \in R
    <3>1. k - f \in Nat
      BY <2>1
    <3>2. R \subseteq Nat
      OBVIOUS
    <3> HIDE DEF R
    <3>3. 0 .. k - f \subseteq R
      BY <2>2, <2>3, <3>1, <3>2, AllUpTo
    <3> QED
      BY <3>1, <3>3
  <2>5. f + (k - f) = k /\ f + (k - f) <= k
    BY <2>1
  <2>6. start[f] + before[k - 1] - before[f - 1] = start[k]
    BY <2>4, <2>5
  <2> QED
    BY <2>1, <2>6 DEF f
<1>15. Lesser(Len(lists.sizes), upTo[Len(lists.offsets)]) = m
  BY <1>1, <1>11 DEF Lesser
<1> DEFINE at(k) == CHOOSE c \in 1 .. n : InChunk(k, c)
<1>16. BuildSampleTable(lists) =
         [k \in 1 .. m |-> [offset |-> lists.offsets[at(k)] + before[k - 1] - before[upTo[at(k) - 1]],
                            size |-> lists.sizes[k]]]
  BY <1>1, <1>15 DEF BuildSampleTable, upTo, per, before
<1>17. ASSUME NEW k \in 1 .. m
       PROVE  lists.offsets[at(k)] + before[k - 1] - before[upTo[at(k) - 1]] = start[k]
  <2> DEFINE c == at(k)
  <2>1. c \in 1 .. n /\ InChunk(k, c)
    <3> HIDE DEF InChunk
    <3> QED
      BY <1>13
  <2> HIDE DEF c
  <2>2. lists.offsets[c] = start[firsts[c]]
    BY <2>1 DEF n
  <2> HIDE DEF InChunk
  <2>3. lists.offsets[c] + before[k - 1] - before[upTo[c - 1]] = start[k]
    BY <1>14, <2>1, <2>2
  <2> QED
    BY <2>3 DEF c
<1> HIDE DEF at
<1>19. /\ DOMAIN BuildSampleTable(lists) = 1 .. m
       /\ BuildSampleTable(lists) = [k \in 1 .. m |-> BuildSampleTable(lists)[k]]
       /\ \A k \in 1 .. m : BuildSampleTable(lists)[k] = [offset |-> start[k], size |-> sizes[k]]
  BY <1>16, <1>17
<1> QED
  BY <1>19

\* The lists of a track say where its samples are.
LEMMA ListsAreTrue ==
  ASSUME file \in Files, NEW t \in MediaTrack
  PROVE  /\ BuildSampleTable(TrackLists(t)) = TrueSamples(t)
         /\ Len(TrackLists(t).sizes) = Len(SamplesOf(t))
<1> DEFINE own == SamplesOf(t)
           firsts == Begins(t)
           m == Len(own)
           n == Len(firsts)
           l == file.samples
           sizes == [k \in 1 .. m |-> l[own[k]].size]
           start == [k \in 1 .. m |-> SampleStart(own[k])]
           per == [c \in 1 .. n |-> NextBegins(firsts, c, m) - firsts[c]]
           E == {c \in 1 .. n : ~ file.terse \/ c = 1 \/ per[c] # per[c - 1]}
           stsc == {[first |-> c, per |-> per[c]] : c \in E}
           lists == TrackLists(t)
<1>1. /\ m \in Nat /\ DOMAIN own = 1 .. m
      /\ \A k \in 1 .. m : own[k] \in 1 .. Len(l) /\ own[k] \in Nat
      /\ \A k \in 1 .. m : k + 1 <= m /\ ~ l[own[k + 1]].begins => own[k + 1] = own[k] + 1
  BY OwnFacts
<1>2. /\ firsts \in Seq(1 .. m) /\ n \in Nat /\ DOMAIN firsts = 1 .. n
      /\ \A c \in 1 .. n : firsts[c] \in 1 .. m
      /\ \A b, c \in 1 .. n : b < c => firsts[b] < firsts[c]
      /\ IF m = 0 THEN n = 0 ELSE n > 0 /\ firsts[1] = 1
      /\ \A k \in 1 .. m : l[own[k]].begins => \E c \in 1 .. n : firsts[c] = k
  BY BeginsFacts
<1>3. /\ Len(l) \in Nat
      /\ \A i \in 1 .. Len(l) : l[i].size \in Nat /\ SampleStart(i) \in Nat
      /\ \A i \in 1 .. Len(l) : i + 1 <= Len(l) => SampleStart(i + 1) = SampleStart(i) + l[i].size
  BY FileFacts, StartFacts
<1>4. /\ lists.sizes = [k \in DOMAIN own |-> l[own[k]].size]
      /\ lists.offsets = [c \in DOMAIN firsts |-> SampleStart(own[firsts[c]])]
      /\ lists.stsc =
           {[first |-> c, per |-> NextBegins(firsts, c, m) - firsts[c]] :
              c \in {c \in DOMAIN firsts :
                       ~ file.terse \/ c = 1 \/
                       NextBegins(firsts, c, m) - firsts[c] # NextBegins(firsts, c - 1, m) - firsts[c - 1]}}
  BY DEF TrackLists, Begins, NextBegins
<1>5. TrueSamples(t) = [k \in DOMAIN own |-> [offset |-> SampleStart(own[k]), size |-> l[own[k]].size]]
  BY DEF TrueSamples
<1> HIDE DEF own, firsts, m, l, lists
<1>6. lists.sizes = sizes /\ sizes \in Seq(Nat) /\ Len(sizes) = m
  BY <1>1, <1>3, <1>4
<1>7. /\ Len(lists.offsets) = n /\ DOMAIN lists.offsets = 1 .. n
      /\ \A c \in 1 .. n : lists.offsets[c] = start[firsts[c]]
  BY <1>2, <1>4
<1>8. \A k \in 1 .. m : start[k] \in Nat /\ start[k] = SampleStart(own[k])
  BY <1>1, <1>3
<1>9. ASSUME NEW k \in 1 .. m, k + 1 <= m
      PROVE  (\E c \in 1 .. n : firsts[c] = k + 1) \/ start[k + 1] = start[k] + sizes[k]
  <2>1. k + 1 \in 1 .. m
    BY <1>1, <1>9
  <2>2. CASE l[own[k + 1]].begins
    BY <1>2, <2>1, <2>2
  <2>3. CASE ~ l[own[k + 1]].begins
    <3>1. own[k + 1] = own[k] + 1 /\ own[k] \in 1 .. Len(l) /\ own[k + 1] \in 1 .. Len(l)
      BY <1>1, <1>9, <2>1, <2>3
    <3>2. SampleStart(own[k + 1]) = SampleStart(own[k]) + l[own[k]].size
      <4>1. own[k] + 1 <= Len(l)
        BY <1>3, <3>1
      <4> QED
        BY <1>3, <3>1, <4>1
    <3> QED
      BY <1>8, <2>1, <3>2
  <2> QED
    BY <2>2, <2>3
<1>10. \A c \in 1 .. n : per[c] = NextBegins(firsts, c, m) - firsts[c]
  OBVIOUS
<1>11. \A c \in 1 .. n : c # 1 => c - 1 \in 1 .. n
  BY <1>2
<1> HIDE DEF start, sizes, per
<1>12. lists.stsc = stsc
  <2>1. {c \in DOMAIN firsts :
           ~ file.terse \/ c = 1 \/
           NextBegins(firsts, c, m) - firsts[c] # NextBegins(firsts, c - 1, m) - firsts[c - 1]} = E
    BY <1>2, <1>10, <1>11
  <2>2. \A c \in E : [first |-> c, per |-> NextBegins(firsts, c, m) - firsts[c]] = [first |-> c, per |-> per[c]]
    BY <1>10
  <2>3. lists.stsc = {[first |-> c, per |-> NextBegins(firsts, c, m) - firsts[c]] : c \in E}
    BY <1>4, <2>1
  <2> HIDE DEF E
  <2> QED
    BY <2>2, <2>3
<1>13. \A c \in 1 .. n : SamplesPerChunkFor(lists.stsc, c) = NextBegins(firsts, c, m) - firsts[c]
  <2>1. /\ E \in SUBSET (1 .. n) /\ (n > 0 => 1 \in E)
        /\ \A c \in 1 .. n : c \notin E => per[c] = per[c - 1]
    BY <1>2
  <2>3. /\ \A d \in E : [first |-> d, per |-> per[d]] \in stsc
        /\ \A e \in stsc : \E d \in E : e = [first |-> d, per |-> per[d]]
    OBVIOUS
  <2>4. n \in Nat
    BY <1>2
  <2> HIDE DEF E, stsc, n
  <2>2. ASSUME NEW c \in 1 .. n
        PROVE  SamplesPerChunkFor(stsc, c) = per[c]
    BY <2>1, <2>3, <2>4, PerChunk
  <2> QED
    BY <1>10, <1>12, <2>2
<1>14. /\ TrueSamples(t) = [k \in 1 .. m |-> TrueSamples(t)[k]]
       /\ \A k \in 1 .. m : TrueSamples(t)[k] = [offset |-> start[k], size |-> sizes[k]]
  <2>1. \A k \in 1 .. m : sizes[k] = l[own[k]].size /\ sizes[k] \in Nat
    BY <1>1, <1>3 DEF sizes
  <2>2. TrueSamples(t) = [k \in 1 .. m |-> [offset |-> SampleStart(own[k]), size |-> l[own[k]].size]]
    BY <1>1, <1>5
  <2> QED
    BY <1>8, <2>1, <2>2
<1>15. BuildSampleTable(lists) = TrueSamples(t)
  <2> HIDE DEF E, stsc
  <2>1. /\ \A k \in 1 .. m : start[k] \in Nat
        /\ \A k \in 1 .. m : k + 1 <= m =>
             \/ \E c \in 1 .. Len(firsts) : firsts[c] = k + 1
             \/ start[k + 1] = start[k] + sizes[k]
    BY <1>8, <1>9
  <2> QED
    <3>1. /\ BuildSampleTable(lists) = [k \in 1 .. m |-> BuildSampleTable(lists)[k]]
          /\ \A k \in 1 .. m : BuildSampleTable(lists)[k] = [offset |-> start[k], size |-> sizes[k]]
      <4>1. /\ m \in Nat /\ firsts \in Seq(1 .. m) /\ Len(firsts) \in Nat
            /\ \A b, c \in 1 .. Len(firsts) : b < c => firsts[b] < firsts[c]
            /\ IF m = 0 THEN Len(firsts) = 0 ELSE Len(firsts) > 0 /\ firsts[1] = 1
        BY <1>1, <1>2
      <4>2. /\ lists.sizes = sizes /\ Len(lists.offsets) = Len(firsts)
            /\ DOMAIN lists.offsets = 1 .. Len(firsts)
            /\ \A c \in 1 .. Len(firsts) : lists.offsets[c] = start[firsts[c]]
            /\ \A c \in 1 .. Len(firsts) :
                 SamplesPerChunkFor(lists.stsc, c) = NextBegins(firsts, c, m) - firsts[c]
        BY <1>6, <1>7, <1>13
      <4>3. sizes \in Seq(Nat) /\ Len(sizes) = m
        BY <1>6
      <4> QED
        <5>1. ListsSay(lists, m, sizes, start, firsts)
          BY <2>1, <4>1, <4>2, <4>3 DEF ListsSay
        <5> QED
          BY <5>1, TableBuilt
    <3> QED
      BY <1>14, <3>1
<1> QED
  BY <1>6, <1>15 DEF lists, own, m

\* Where the samples of a track really lie is a list of intervals.
LEMMA TrueFacts ==
  ASSUME file \in Files, NEW t \in MediaTrack
  PROVE  /\ TrueSamples(t) \in Seq(Intervals) /\ Len(TrueSamples(t)) \in Nat
         /\ Len(TrueSamples(t)) = Len(SamplesOf(t))
<1> DEFINE own == SamplesOf(t)
           m == Len(own)
           l == file.samples
<1>1. /\ m \in Nat /\ DOMAIN own = 1 .. m
      /\ \A k \in 1 .. m : own[k] \in 1 .. Len(l)
  BY OwnFacts
<1>2. \A i \in 1 .. Len(l) : l[i].size \in SampleSize /\ SampleStart(i) \in Nat
  BY FileFacts, StartFacts
<1>3. TrueSamples(t) = [k \in DOMAIN own |-> [offset |-> SampleStart(own[k]), size |-> l[own[k]].size]]
  BY DEF TrueSamples
<1> HIDE DEF own, l
<1>4. TrueSamples(t) = [k \in 1 .. m |-> [offset |-> SampleStart(own[k]), size |-> l[own[k]].size]]
  BY <1>1, <1>3
<1>5. \A k \in 1 .. m : [offset |-> SampleStart(own[k]), size |-> l[own[k]].size] \in Intervals
  BY <1>1, <1>2 DEF Intervals
<1> HIDE DEF m
<1>6. TrueSamples(t) \in [1 .. m -> Intervals]
  BY <1>4, <1>5
<1>7. TrueSamples(t) \in Seq(Intervals) /\ Len(TrueSamples(t)) = m
  BY <1>1, <1>6
<1> QED
  BY <1>1, <1>7 DEF m, own

\* The movie atom yields the samples of the longest track of sound, and nothing if no track has
\* any.
LEMMA MovieFacts ==
  ASSUME file \in Files
  PROVE  /\ MovieTable \in Seq(Intervals) /\ Len(MovieTable) \in Nat
         /\ MovieTable # <<>> =>
              \E t \in file.sound : /\ MovieTable = TrueSamples(t)
                                    /\ \A u \in file.sound : Len(TrueSamples(u)) <= Len(TrueSamples(t))
         /\ MovieTable = <<>> => \A t \in file.sound : TrueSamples(t) = <<>>
<1> DEFINE Best(t) == \A u \in MediaTrack : Score(u) <= Score(t)
           best == {t \in MediaTrack : Best(t)}
           b == BestTrack
<1>1. file.sound \subseteq MediaTrack
  BY DEF Files
<1>2. ASSUME NEW t \in MediaTrack
      PROVE  /\ Score(t) = IF t \in file.sound THEN Len(TrueSamples(t)) ELSE 0
             /\ Score(t) \in Nat
  BY ListsAreTrue, TrueFacts DEF Score
<1>3. best # {}
  <2>1. 1 \in MediaTrack /\ 2 \in MediaTrack /\ \A t \in MediaTrack : t = 1 \/ t = 2
    BY DEF MediaTrack
  <2>2. Score(1) \in Nat /\ Score(2) \in Nat
    BY <1>2, <2>1
  <2>3. Best(1) \/ Best(2)
    BY <2>1, <2>2
  <2> QED
    BY <2>1, <2>3
<1>4. b \in best
  <2>1. best \subseteq Nat
    BY DEF MediaTrack
  <2>2. b = CHOOSE t \in best : \A u \in best : t <= u
    BY DEF BestTrack
  <2> HIDE DEF best, b
  <2> QED
    BY <1>3, <2>1, <2>2, LeastNumber
<1> HIDE DEF b
<1>5. b \in MediaTrack /\ \A u \in MediaTrack : Score(u) <= Score(b)
  BY <1>4
<1>6. MovieTable = IF Score(b) = 0 THEN <<>> ELSE TrueSamples(b)
  <2>1. BuildSampleTable(TrackLists(b)) = TrueSamples(b)
    BY <1>5, ListsAreTrue
  <2> QED
    BY <2>1 DEF MovieTable, b
<1>7. MovieTable \in Seq(Intervals) /\ Len(MovieTable) \in Nat
  <2>1. TrueSamples(b) \in Seq(Intervals) /\ Len(TrueSamples(b)) \in Nat
    BY <1>5, TrueFacts
  <2>2. <<>> \in Seq(Intervals) /\ Len(<<>>) \in Nat
    OBVIOUS
  <2> QED
    BY <1>6, <2>1, <2>2
<1>8. ASSUME MovieTable # <<>>
      PROVE  \E t \in file.sound : /\ MovieTable = TrueSamples(t)
                                   /\ \A u \in file.sound : Len(TrueSamples(u)) <= Len(TrueSamples(t))
  <2>1. Score(b) # 0 /\ MovieTable = TrueSamples(b)
    BY <1>6, <1>8
  <2>2. b \in file.sound /\ Score(b) = Len(TrueSamples(b))
    BY <1>2, <1>5, <2>1
  <2>3. \A u \in file.sound : Len(TrueSamples(u)) <= Len(TrueSamples(b))
    BY <1>1, <1>2, <1>5, <2>2
  <2> QED
    BY <2>1, <2>2, <2>3
<1>9. ASSUME MovieTable = <<>>, NEW t \in file.sound
      PROVE  TrueSamples(t) = <<>>
  <2>1. t \in MediaTrack
    BY <1>1
  <2>2. Score(b) = 0
    <3>1. CASE Score(b) # 0
      <4>1. TrueSamples(b) = <<>>
        BY <1>6, <1>9, <3>1
      <4>2. Len(<<>>) = 0
        OBVIOUS
      <4> QED
        BY <1>2, <1>5, <4>1, <4>2
    <3> QED
      BY <3>1
  <2>3. Score(t) = 0
    BY <1>2, <1>5, <2>1, <2>2
  <2>4. Len(TrueSamples(t)) = 0 /\ TrueSamples(t) \in Seq(Intervals)
    BY <1>2, <2>1, <2>3, TrueFacts
  <2> QED
    BY <2>4
<1> QED
  BY <1>7, <1>8, <1>9

\* What a file holds does not change while it is served.
LEMMA FileStays ==
  ASSUME file' = file
  PROVE  /\ MovieTable' = MovieTable /\ MovieStart' = MovieStart /\ FileSize' = FileSize
         /\ \A t : TrueSamples(t)' = TrueSamples(t)
<1>1. SizesBefore' = SizesBefore
  BY DEF SizesBefore
<1>2. DataSize' = DataSize /\ DataStart' = DataStart
  BY <1>1 DEF DataSize, DataStart
<1>3. MovieStart' = MovieStart /\ FileSize' = FileSize
  BY <1>2 DEF MovieStart, FileSize
<1>4. \A i : SampleStart(i)' = SampleStart(i)
  BY <1>1, <1>2 DEF SampleStart
<1>5. ASSUME NEW t
      PROVE  SamplesOf(t)' = SamplesOf(t)
  BY DEF SamplesOf
<1>6. ASSUME NEW t
      PROVE  TrueSamples(t)' = TrueSamples(t)
  <2>1. SamplesOf(t)' = SamplesOf(t)
    BY <1>5
  <2> QED
    BY <1>4, <2>1 DEF TrueSamples
<1>7. ASSUME NEW t
      PROVE  TrackLists(t)' = TrackLists(t) /\ Score(t)' = Score(t)
  <2>1. SamplesOf(t)' = SamplesOf(t)
    BY <1>5
  <2>2. TrackLists(t)' = TrackLists(t)
    BY <1>4, <2>1 DEF TrackLists
  <2> QED
    BY <2>2 DEF Score
<1>8. BestTrack' = BestTrack
  <2>1. \A t : Score(t)' = Score(t)
    BY <1>7
  <2> QED
    BY <2>1 DEF BestTrack
<1>9. MovieTable' = MovieTable
  <2>1. TrackLists(BestTrack)' = TrackLists(BestTrack) /\ Score(BestTrack)' = Score(BestTrack)
    BY <1>7, <1>8
  <2> QED
    BY <2>1 DEF MovieTable
<1> QED
  BY <1>3, <1>6, <1>9

\* The movie atom does not lie in what the first request is answered with.
PastHeader == MovieTable = <<>> \/ (server.honours /\ MovieStart + MovieSize > HeaderProbe)

\* A file that was not found has no sound, or its movie atom lies beyond what was fetched.
NotFound ==
  \/ MovieTable = <<>>
  \/ /\ MovieStart + MovieSize > HeaderProbe /\ server.honours
     /\ ~ (server.sized /\ FileSize <= WholeProbe)
     /\ ~ (server.says /\ FileSize <= TailProbe /\ faults = {})

\* What is known at each stage of the search.
SearchKept ==
  /\ stage \in {"head", "header"} => faults = {}
  /\ stage = "tail" => faults = {} /\ server.says /\ PastHeader
  /\ stage \in {"head", "header", "tail", "whole"} => table = <<>>
  /\ stage = "failed" /\ faults \subseteq {"tail"} => NotFound

\* What is known while samples are fetched.
ReadingKept ==
  /\ table = <<>> \/ table = MovieTable
  /\ stage \in {"reading", "ended"} => table # <<>>
  /\ decoded \in Seq(Intervals) /\ nextIn \in 0 .. Len(table) /\ Len(decoded) <= nextIn
  /\ server.honours => decoded = SubSeq(table, 1, nextIn)
  /\ stage = "ended" => nextIn = Len(table)

MediaInv ==
  /\ file \in Files /\ server \in Servers
  /\ stage \in Stage /\ faults \subseteq Stage \ {"ended", "failed"}
  /\ SearchKept /\ ReadingKept

\* A search begins with nothing found.
LEMMA MediaInitially ==
  ASSUME MediaInit
  PROVE  MediaInv
<1>1. /\ file \in Files /\ server \in Servers
      /\ stage = "head" /\ faults = {} /\ table = <<>> /\ nextIn = 0 /\ decoded = <<>>
  BY DEF MediaInit
<1>2. SearchKept
  BY <1>1 DEF SearchKept
<1>3. ReadingKept
  <2>1. <<>> \in Seq(Intervals) /\ Len(<<>>) = 0
    OBVIOUS
  <2>2. SubSeq(table, 1, nextIn) = <<>>
    BY <1>1, <2>1
  <2> QED
    BY <1>1, <2>1, <2>2 DEF ReadingKept
<1> QED
  BY <1>1, <1>2, <1>3 DEF MediaInv, Stage

\* Nothing of it changes without a step.
LEMMA MediaRests ==
  ASSUME MediaInv, UNCHANGED mediaVars
  PROVE  MediaInv'
<1>1. /\ file' = file /\ server' = server /\ stage' = stage /\ faults' = faults
      /\ table' = table /\ nextIn' = nextIn /\ decoded' = decoded
  BY DEF mediaVars
<1>2. MovieTable' = MovieTable /\ MovieStart' = MovieStart /\ FileSize' = FileSize
  BY <1>1, FileStays
<1>3. PastHeader' = PastHeader /\ NotFound' = NotFound
  BY <1>1, <1>2 DEF PastHeader, NotFound
<1>4. SearchKept'
  BY <1>1, <1>3 DEF MediaInv, SearchKept
<1>5. ReadingKept'
  BY <1>1, <1>2 DEF MediaInv, ReadingKept
<1> QED
  BY <1>1, <1>4, <1>5 DEF MediaInv, Files, Layouts, Servers

\* What the properties of the runs say follows.
LEMMA MediaFollows ==
  ASSUME MediaInv
  PROVE  MediaTypeOK /\ SamplesAreRead /\ PlayableIsFound
<1>1. /\ file \in Files /\ server \in Servers
      /\ stage \in Stage /\ faults \subseteq Stage \ {"ended", "failed"}
      /\ SearchKept /\ ReadingKept
  BY DEF MediaInv
<1>2. /\ MovieTable \in Seq(Intervals) /\ Len(MovieTable) \in Nat
      /\ MovieTable # <<>> =>
           \E t \in file.sound : /\ MovieTable = TrueSamples(t)
                                 /\ \A u \in file.sound : Len(TrueSamples(u)) <= Len(TrueSamples(t))
      /\ MovieTable = <<>> => \A t \in file.sound : TrueSamples(t) = <<>>
  BY <1>1, MovieFacts
<1>3. table \in Seq(Intervals)
  BY <1>1, <1>2 DEF ReadingKept
<1>4. MediaTypeOK
  BY <1>1, <1>3 DEF MediaTypeOK, ReadingKept
<1>5. ASSUME server.honours, table # <<>>
      PROVE  \E t \in file.sound :
               /\ \A u \in file.sound : Len(TrueSamples(u)) <= Len(TrueSamples(t))
               /\ IsPrefix(decoded, TrueSamples(t))
               /\ stage = "ended" => decoded = TrueSamples(t)
  <2>1. /\ table = MovieTable /\ decoded = SubSeq(table, 1, nextIn) /\ nextIn \in 0 .. Len(table)
        /\ stage = "ended" => nextIn = Len(table)
    BY <1>1, <1>5 DEF ReadingKept
  <2>2. PICK t \in file.sound : /\ MovieTable = TrueSamples(t)
                                /\ \A u \in file.sound : Len(TrueSamples(u)) <= Len(TrueSamples(t))
    BY <1>2, <1>5, <2>1
  <2>3. Len(table) \in Nat
    BY <1>2, <2>1
  <2>4. IsPrefix(decoded, table)
    <3>1. decoded \in Seq(Intervals) /\ Len(decoded) = nextIn /\ \A i \in 1 .. nextIn : decoded[i] = table[i]
      BY <1>3, <2>1, <2>3
    <3>2. SubSeq(decoded, 1, Len(decoded)) = SubSeq(table, 1, Len(decoded))
      BY <1>3, <2>1, <2>3, <3>1
    <3> QED
      BY <2>1, <3>1, <3>2 DEF IsPrefix
  <2>5. stage = "ended" => decoded = table
    <3>1. SubSeq(table, 1, Len(table)) = table
      BY <1>3, <2>3
    <3> QED
      BY <2>1, <3>1
  <2> QED
    BY <2>1, <2>2, <2>4, <2>5
<1>6. SamplesAreRead
  BY <1>5 DEF SamplesAreRead
<1>7. PlayableIsFound
  BY <1>1, <1>2 DEF PlayableIsFound, SearchKept, NotFound
<1> QED
  BY <1>4, <1>6, <1>7

\* A request that finds the movie yields its table, and one that does not was not answered with
\* all of it or there is nothing in it.
LEMMA WalkFacts ==
  ASSUME file \in Files, NEW from, NEW to, NEW got, got = <<from, to>>, NEW otherwise,
         Walk(got, otherwise)
  PROVE  \/ table' = MovieTable /\ MovieTable # <<>> /\ stage' = "reading"
         \/ /\ table' = <<>> /\ stage' = otherwise
            /\ MovieTable # <<>> /\ from = 0 => ~ (0 <= MovieStart /\ MovieStart + MovieSize <= to)
<1>1. PICK found \in WalkFinds(got) :
        IF found /\ MovieTable # <<>>
          THEN table' = MovieTable /\ stage' = "reading"
          ELSE table' = <<>> /\ stage' = otherwise
  BY DEF Walk
<1>2. got[1] = from /\ got[2] = to
  OBVIOUS
<1>3. from = 0 => found = (0 <= MovieStart /\ MovieStart + MovieSize <= to)
  BY <1>1, <1>2 DEF WalkFinds
<1> QED
  BY <1>1, <1>3

\* A step of the search alone keeps what is known, if it finds the table or knows as much of the
\* next stage.
LEMMA SearchMoves ==
  ASSUME MediaInv, stage \in {"head", "header", "tail", "whole"},
         UNCHANGED <<file, server, nextIn, decoded>>,
         \/ table' = MovieTable /\ MovieTable # <<>> /\ stage' = "reading"
         \/ table' = <<>> /\ stage' \in {"header", "tail", "whole", "failed"},
         faults' \subseteq Stage \ {"ended", "failed"},
         stage' = "header" => faults' = {},
         stage' = "tail" => faults' = {} /\ server.says /\ PastHeader,
         stage' = "failed" /\ faults' \subseteq {"tail"} => NotFound'
  PROVE  MediaInv'
<1>1. /\ file' = file /\ server' = server /\ nextIn' = nextIn /\ decoded' = decoded
      /\ file \in Files /\ server \in Servers /\ SearchKept /\ ReadingKept
  BY DEF MediaInv
<1>2. MovieTable' = MovieTable /\ MovieStart' = MovieStart /\ FileSize' = FileSize
  BY <1>1, FileStays
<1>3. PastHeader' = PastHeader
  BY <1>1, <1>2 DEF PastHeader
<1>4. stage' \in Stage /\ stage' # "ended"
  BY DEF Stage
<1>5. SearchKept'
  BY <1>1, <1>3 DEF SearchKept
<1>6. nextIn = 0 /\ decoded = <<>>
  <2>1. table = <<>> /\ Len(<<>>) = 0
    BY <1>1 DEF SearchKept
  <2>2. nextIn \in 0 .. 0 /\ decoded \in Seq(Intervals) /\ Len(decoded) <= nextIn
    BY <1>1, <2>1 DEF ReadingKept
  <2>3. nextIn = 0
    BY <2>2
  <2>4. Len(decoded) \in Nat /\ Len(decoded) <= 0
    BY <2>2, <2>3
  <2> QED
    BY <2>2, <2>3, <2>4
<1>7. table' \in Seq(Intervals) /\ Len(table') \in Nat
  <2>1. MovieTable \in Seq(Intervals) /\ Len(MovieTable) \in Nat
    BY <1>1, MovieFacts
  <2>2. <<>> \in Seq(Intervals) /\ Len(<<>>) \in Nat
    OBVIOUS
  <2>3. table' = MovieTable \/ table' = <<>>
    OBVIOUS
  <2> QED
    BY <2>1, <2>2, <2>3
<1>8. SubSeq(table', 1, 0) = <<>>
  BY <1>7
<1>9. ReadingKept'
  <2>1. table' = <<>> \/ table' = MovieTable'
    BY <1>2
  <2>2. stage' \in {"reading", "ended"} => table' # <<>>
    BY <1>4
  <2>3. /\ decoded' \in Seq(Intervals) /\ nextIn' \in 0 .. Len(table') /\ Len(decoded') <= nextIn'
    BY <1>1, <1>6, <1>7
  <2>4. server'.honours => decoded' = SubSeq(table', 1, nextIn')
    BY <1>1, <1>6, <1>8
  <2> QED
    BY <1>4, <2>1, <2>2, <2>3, <2>4 DEF ReadingKept, Intervals
<1> QED
  BY <1>1, <1>4, <1>5, <1>9 DEF MediaInv, Files, Layouts, Servers

\* The length is asked for.
LEMMA AskKeeps ==
  ASSUME MediaInv, AskLength
  PROVE  MediaInv'
<1>1. /\ stage = "head" /\ faults = {} /\ table = <<>> /\ faults \subseteq Stage \ {"ended", "failed"}
      /\ UNCHANGED <<file, server, nextIn, decoded, table>>
  BY DEF MediaInv, SearchKept, AskLength, RequestFails
<1>2. \/ stage' = "header" /\ faults' = {}
      \/ stage' = "failed" /\ faults' = {"head"}
  BY <1>1 DEF AskLength, RequestFails
<1>3. {"head"} \subseteq Stage \ {"ended", "failed"}
  BY DEF Stage
<1> QED
  BY <1>1, <1>2, <1>3, SearchMoves

\* The first part of the file is read.
LEMMA HeaderKeeps ==
  ASSUME MediaInv, ReadHeader
  PROVE  MediaInv'
<1> DEFINE got == Served(0, Lesser(HeaderProbe, FileSize))
           past == IF server.says THEN "tail" ELSE AfterTail
<1>1. /\ stage = "header" /\ faults = {} /\ table = <<>> /\ file \in Files
      /\ UNCHANGED <<file, server, nextIn, decoded>>
      /\ (Walk(got, past) /\ UNCHANGED faults) \/ RequestFails("failed")
  BY DEF MediaInv, SearchKept, ReadHeader
<1>2. CASE RequestFails("failed")
  <2>1. stage' = "failed" /\ faults' = {"header"} /\ table' = <<>>
    BY <1>1, <1>2 DEF RequestFails
  <2>2. {"header"} \subseteq Stage \ {"ended", "failed"}
    BY DEF Stage
  <2> QED
    BY <1>1, <2>1, <2>2, SearchMoves
<1>3. CASE Walk(got, past) /\ UNCHANGED faults
  <2>1. /\ MovieTable' = MovieTable /\ MovieStart' = MovieStart /\ FileSize' = FileSize
        /\ MovieStart \in Nat /\ FileSize \in Nat /\ MovieStart + MovieSize <= FileSize
        /\ MovieSize \in Nat /\ HeaderProbe \in Nat
    BY <1>1, FileStays, StartFacts, MediaAssumption
  <2> DEFINE to == IF server.honours THEN Lesser(HeaderProbe, FileSize) ELSE FileSize
  <2>2. got = <<0, to>>
    BY DEF Served
  <2> HIDE DEF got
  <2>3. past \in {"tail", "whole", "failed"}
    BY DEF AfterTail
  <2>4. \/ table' = MovieTable /\ MovieTable # <<>> /\ stage' = "reading"
        \/ /\ table' = <<>> /\ stage' = past
           /\ MovieTable # <<>> => ~ (0 <= MovieStart /\ MovieStart + MovieSize <= to)
    <3> HIDE DEF to, past
    <3> QED
      BY <1>1, <1>3, <2>2, WalkFacts
  <2>5. CASE table' = MovieTable /\ MovieTable # <<>> /\ stage' = "reading"
    <3>1. faults' = {} /\ {} \subseteq Stage \ {"ended", "failed"}
      BY <1>1, <1>3
    <3> QED
      BY <1>1, <2>5, <3>1, SearchMoves
  <2>6. CASE /\ table' = <<>> /\ stage' = past
             /\ MovieTable # <<>> => ~ (0 <= MovieStart /\ MovieStart + MovieSize <= to)
    <3>1. PastHeader
      <4>1. MovieTable # <<>> => server.honours /\ MovieStart + MovieSize > HeaderProbe
        BY <2>1, <2>6 DEF Lesser
      <4> QED
        BY <4>1 DEF PastHeader
    <3>2. stage' = "tail" => server.says
      BY <2>6 DEF AfterTail
    <3>3. stage' = "failed" => ~ server.says /\ ~ (server.sized /\ FileSize <= WholeProbe)
      BY <2>6 DEF AfterTail
    <3>4. stage' = "failed" => NotFound'
      BY <1>1, <2>1, <3>1, <3>3 DEF NotFound, PastHeader
    <3>5. stage' \in {"tail", "whole", "failed"}
      BY <2>3, <2>6
    <3>6. faults' = {} /\ {} \subseteq Stage \ {"ended", "failed"}
      BY <1>1, <1>3
    <3> QED
      BY <1>1, <2>6, <3>1, <3>2, <3>4, <3>5, <3>6, SearchMoves
  <2> QED
    BY <2>4, <2>5, <2>6
<1> QED
  BY <1>1, <1>2, <1>3

\* The end of the file is read, or does not come.
LEMMA TailKeeps ==
  ASSUME MediaInv, ReadTail
  PROVE  MediaInv'
<1> DEFINE got == Served(FileSize - Lesser(TailProbe, FileSize), FileSize)
<1>1. /\ stage = "tail" /\ faults = {} /\ table = <<>> /\ server.says /\ PastHeader
      /\ file \in Files /\ server \in Servers
      /\ UNCHANGED <<file, server, nextIn, decoded>>
      /\ (Walk(got, AfterTail) /\ UNCHANGED faults) \/ RequestFails(AfterTail)
  BY DEF MediaInv, SearchKept, ReadTail
<1>2. /\ MovieTable' = MovieTable /\ MovieStart' = MovieStart /\ FileSize' = FileSize
      /\ MovieStart \in Nat /\ FileSize \in Nat /\ MovieStart + MovieSize <= FileSize
      /\ MovieSize \in Nat /\ TailProbe \in Nat
  BY <1>1, FileStays, StartFacts, MediaAssumption
<1>3. AfterTail \in {"whole", "failed"}
  BY DEF AfterTail
<1>4. AfterTail = "failed" => ~ (server.sized /\ FileSize <= WholeProbe)
  BY DEF AfterTail
<1>5. CASE RequestFails(AfterTail)
  <2>1. stage' = AfterTail /\ faults' = {"tail"} /\ table' = <<>>
    BY <1>1, <1>5 DEF RequestFails
  <2>2. {"tail"} \subseteq Stage \ {"ended", "failed"}
    BY DEF Stage
  <2>3. stage' = "failed" => NotFound'
    BY <1>1, <1>2, <1>4, <2>1 DEF NotFound, PastHeader
  <2> QED
    BY <1>1, <1>3, <2>1, <2>2, <2>3, SearchMoves
<1>6. CASE Walk(got, AfterTail) /\ UNCHANGED faults
  <2> DEFINE from == FileSize - Lesser(TailProbe, FileSize)
  <2>1. got = <<from, FileSize>>
    BY <1>1 DEF Served, Servers
  <2> HIDE DEF got
  <2>2. \/ table' = MovieTable /\ MovieTable # <<>> /\ stage' = "reading"
        \/ /\ table' = <<>> /\ stage' = AfterTail
           /\ MovieTable # <<>> /\ from = 0 => ~ (0 <= MovieStart /\ MovieStart + MovieSize <= FileSize)
    <3> HIDE DEF from
    <3> QED
      BY <1>1, <1>6, <2>1, WalkFacts
  <2>3. faults' = {} /\ {} \subseteq Stage \ {"ended", "failed"}
    BY <1>1, <1>6
  <2>4. CASE table' = MovieTable /\ MovieTable # <<>> /\ stage' = "reading"
    BY <1>1, <2>3, <2>4, SearchMoves
  <2>5. CASE /\ table' = <<>> /\ stage' = AfterTail
             /\ MovieTable # <<>> /\ from = 0 => ~ (0 <= MovieStart /\ MovieStart + MovieSize <= FileSize)
    <3>1. MovieTable = <<>> \/ from # 0
      BY <1>2, <2>5
    <3>2. MovieTable = <<>> \/ ~ (FileSize <= TailProbe)
      BY <1>2, <3>1 DEF Lesser
    <3>3. stage' = "failed" => NotFound'
      BY <1>1, <1>2, <1>4, <2>5, <3>2 DEF NotFound, PastHeader
    <3> QED
      BY <1>1, <1>3, <2>3, <2>5, <3>3, SearchMoves
  <2> QED
    BY <2>2, <2>4, <2>5
<1> QED
  BY <1>1, <1>5, <1>6

\* All of the file is read.
LEMMA WholeKeeps ==
  ASSUME MediaInv, ReadWhole
  PROVE  MediaInv'
<1>1. /\ stage = "whole" /\ table = <<>> /\ file \in Files /\ faults \subseteq Stage \ {"ended", "failed"}
      /\ UNCHANGED <<file, server, nextIn, decoded>>
      /\ (Walk(Served(0, FileSize), "failed") /\ UNCHANGED faults) \/ RequestFails("failed")
  BY DEF MediaInv, SearchKept, ReadWhole
<1>2. /\ MovieTable' = MovieTable
      /\ MovieStart \in Nat /\ FileSize \in Nat /\ MovieStart + MovieSize <= FileSize
  BY <1>1, FileStays, StartFacts
<1>3. CASE RequestFails("failed")
  <2>1. stage' = "failed" /\ faults' = faults \cup {"whole"} /\ table' = <<>>
    BY <1>1, <1>3 DEF RequestFails
  <2>2. faults' \subseteq Stage \ {"ended", "failed"} /\ ~ (faults' \subseteq {"tail"})
    BY <1>1, <2>1 DEF Stage
  <2> QED
    BY <1>1, <2>1, <2>2, SearchMoves
<1>4. CASE Walk(Served(0, FileSize), "failed") /\ UNCHANGED faults
  <2>1. Served(0, FileSize) = <<0, FileSize>>
    BY DEF Served
  <2>2. \/ table' = MovieTable /\ MovieTable # <<>> /\ stage' = "reading"
        \/ /\ table' = <<>> /\ stage' = "failed"
           /\ MovieTable # <<>> => ~ (0 <= MovieStart /\ MovieStart + MovieSize <= FileSize)
    BY <1>1, <1>4, <2>1, WalkFacts
  <2>3. faults' \subseteq Stage \ {"ended", "failed"}
    BY <1>1, <1>4
  <2>4. CASE table' = MovieTable /\ MovieTable # <<>> /\ stage' = "reading"
    BY <1>1, <2>3, <2>4, SearchMoves
  <2>5. CASE /\ table' = <<>> /\ stage' = "failed"
             /\ MovieTable # <<>> => ~ (0 <= MovieStart /\ MovieStart + MovieSize <= FileSize)
    <3>1. NotFound'
      BY <1>2, <2>5 DEF NotFound
    <3> QED
      BY <1>1, <2>3, <2>5, <3>1, SearchMoves
  <2> QED
    BY <2>2, <2>4, <2>5
<1> QED
  BY <1>1, <1>3, <1>4

\* A batch ends: it is the samples that lie behind one another, one at least.
LEMMA BatchFacts ==
  ASSUME table \in Seq(Intervals), nextIn \in 0 .. Len(table), nextIn < Len(table)
  PROVE  /\ BatchEnd \in nextIn + 1 .. Len(table)
         /\ \A i \in nextIn + 2 .. BatchEnd :
              table[i].offset = table[i - 1].offset + table[i - 1].size
<1> DEFINE N == Len(table)
           Adjacent(i) == table[i].offset = table[i - 1].offset + table[i - 1].size
           E == {e \in nextIn + 1 .. N : e < N => ~ Adjacent(e + 1)}
           End(e) == /\ \A i \in nextIn + 2 .. e : Adjacent(i)
                     /\ e < N => ~ Adjacent(e + 1)
<1>1. N \in Nat /\ nextIn \in Nat /\ nextIn < N
  OBVIOUS
<1>2. \A e \in nextIn + 1 .. N : (e < N => table[e + 1].offset # table[e].offset + table[e].size)
                                   <=> (e < N => ~ Adjacent(e + 1))
  BY <1>1
<1>3. BatchEnd = CHOOSE e \in nextIn + 1 .. N : /\ \A i \in nextIn + 2 .. e : Adjacent(i)
                                                /\ e < N => table[e + 1].offset # table[e].offset + table[e].size
  BY DEF BatchEnd
<1> HIDE DEF N, Adjacent
<1>4. N \in E /\ E \subseteq Nat
  BY <1>1
<1>5. PICK e \in E : \A d \in E : e <= d
  <2> HIDE DEF E
  <2> QED
    BY <1>4, LeastNumber
<1>6. ASSUME NEW i \in nextIn + 2 .. e
      PROVE  Adjacent(i)
  <2>1. i - 1 \in nextIn + 1 .. N /\ i - 1 < e /\ i - 1 < N /\ (i - 1) + 1 = i
    BY <1>1, <1>5
  <2>2. i - 1 \notin E
    <3> HIDE DEF E
    <3> QED
      BY <1>4, <1>5, <2>1
  <2> QED
    BY <2>1, <2>2
<1>7. e \in nextIn + 1 .. N /\ End(e)
  BY <1>5, <1>6
<1>8. /\ BatchEnd \in nextIn + 1 .. N
      /\ \A i \in nextIn + 2 .. BatchEnd : Adjacent(i)
  <2>1. /\ \A i \in nextIn + 2 .. e : Adjacent(i)
        /\ e < N => table[e + 1].offset # table[e].offset + table[e].size
    BY <1>2, <1>7
  <2> HIDE DEF E, End
  <2> QED
    BY <1>3, <1>7, <2>1
<1> QED
  BY <1>8 DEF N, Adjacent

\* What a sample of a batch is cut from the answer as.
BatchSizes == [i \in 1 .. BatchEnd - nextIn |-> table[nextIn + i].size]
Cut(got, i) == [offset |-> got[1] + Sums(BatchSizes)[i - 1], size |-> BatchSizes[i]]
BatchAnswer == Served(table[nextIn + 1].offset,
                 table[nextIn + 1].offset + Sums(BatchSizes)[Len(BatchSizes)])
There(got) == {i \in DOMAIN BatchSizes : Sums(BatchSizes)[i] <= got[2] - got[1]}

\* The sizes of a batch and their sums.
LEMMA SizesFacts ==
  ASSUME table \in Seq(Intervals), nextIn \in 0 .. Len(table), nextIn < Len(table)
  PROVE  LET n == BatchEnd - nextIn
         IN  /\ n \in Nat \ {0} /\ DOMAIN BatchSizes = 1 .. n /\ Len(BatchSizes) = n
             /\ BatchSizes \in Seq(Nat)
             /\ \A i \in 1 .. n : /\ nextIn + i \in 1 .. Len(table)
                                  /\ BatchSizes[i] = table[nextIn + i].size
                                  /\ BatchSizes[i] \in SampleSize /\ BatchSizes[i] \in Nat
             /\ Sums(BatchSizes) \in [0 .. n -> Nat] /\ Sums(BatchSizes)[0] = 0
             /\ \A i \in 1 .. n : Sums(BatchSizes)[i] = Sums(BatchSizes)[i - 1] + BatchSizes[i]
             /\ \A i \in 1 .. n : Sums(BatchSizes)[i] <= Sums(BatchSizes)[n]
             /\ \A i \in 1 .. Len(table) : table[i].offset \in Nat /\ table[i].size \in Nat
<1> DEFINE n == BatchEnd - nextIn
           s == BatchSizes
           N == Len(table)
<1>1. BatchEnd \in nextIn + 1 .. N /\ N \in Nat /\ nextIn \in Nat
  BY BatchFacts
<1>2. SampleSize \subseteq Nat
  BY MediaAssumption
<1>3. \A i \in 1 .. N : table[i].offset \in Nat /\ table[i].size \in SampleSize /\ table[i].size \in Nat
  <2>1. \A i \in 1 .. N : table[i] \in Intervals
    OBVIOUS
  <2> QED
    BY <1>2, <2>1 DEF Intervals
<1>4. s = [i \in 1 .. n |-> table[nextIn + i].size]
  BY DEF BatchSizes
<1>5. n \in Nat /\ n # 0 /\ \A i \in 1 .. n : nextIn + i \in 1 .. N
  BY <1>1
<1> HIDE DEF s, n, N
<1>6. \A i \in 1 .. n : s[i] = table[nextIn + i].size /\ s[i] \in SampleSize /\ s[i] \in Nat
  BY <1>3, <1>4, <1>5
<1>7. s \in Seq(Nat) /\ Len(s) = n /\ DOMAIN s = 1 .. n
  <2>1. DOMAIN s = 1 .. n /\ s = [i \in 1 .. n |-> s[i]]
    BY <1>4
  <2> QED
    BY <1>5, <1>6, <2>1
<1>8. /\ Sums(s) \in [0 .. n -> Nat] /\ Sums(s)[0] = 0
      /\ \A i \in 1 .. n : Sums(s)[i] = Sums(s)[i - 1] + s[i]
  BY <1>7, SumsFacts
<1>9. ASSUME NEW i \in 1 .. n
      PROVE  Sums(s)[i] <= Sums(s)[n]
  <2>1. i \in 0 .. Len(s) /\ n \in i .. Len(s)
    BY <1>5, <1>7
  <2> QED
    BY <1>7, <2>1, SumsGrow
<1> QED
  BY <1>3, <1>5, <1>6, <1>7, <1>8, <1>9 DEF n, N, s

\* A server that knows ranges answers with the batch, and it is cut into the samples it is.
LEMMA CutsAreTrue ==
  ASSUME table \in Seq(Intervals), nextIn \in 0 .. Len(table), nextIn < Len(table), server.honours
  PROVE  /\ Cardinality(There(BatchAnswer)) = BatchEnd - nextIn
         /\ \A i \in 1 .. BatchEnd - nextIn : Cut(BatchAnswer, i) = table[nextIn + i]
<1> DEFINE n == BatchEnd - nextIn
           N == Len(table)
           s == BatchSizes
           upTo == Sums(s)
           first == table[nextIn + 1].offset
<1>1. /\ n \in Nat /\ n # 0 /\ DOMAIN s = 1 .. n /\ Len(s) = n
      /\ \A i \in 1 .. n : nextIn + i \in 1 .. N /\ s[i] = table[nextIn + i].size /\ s[i] \in Nat
      /\ upTo \in [0 .. n -> Nat] /\ upTo[0] = 0
      /\ \A i \in 1 .. n : upTo[i] = upTo[i - 1] + s[i]
      /\ \A i \in 1 .. n : upTo[i] <= upTo[n]
      /\ \A i \in 1 .. N : table[i].offset \in Nat /\ table[i].size \in Nat
  BY SizesFacts
<1>2. /\ BatchEnd \in nextIn + 1 .. N /\ nextIn \in Nat /\ N \in Nat
      /\ \A i \in nextIn + 2 .. BatchEnd :
           table[i].offset = table[i - 1].offset + table[i - 1].size
  BY BatchFacts
<1>3. BatchAnswer = <<first, first + upTo[n]>>
  BY <1>1 DEF BatchAnswer, Served
<1>4. nextIn + 1 \in 1 .. N /\ first \in Nat /\ upTo[n] \in Nat
  <2>1. nextIn + 1 \in 1 .. N
    BY <1>2
  <2> QED
    BY <1>1, <2>1
<1>5. There(BatchAnswer) = {i \in 1 .. n : upTo[i] <= (first + upTo[n]) - first}
  BY <1>1, <1>3 DEF There
<1>6. \A i \in 1 .. n : Cut(BatchAnswer, i) = [offset |-> first + upTo[i - 1], size |-> s[i]]
  BY <1>3 DEF Cut
<1> HIDE DEF s, upTo, first, N
<1>7. There(BatchAnswer) = 1 .. n
  <2>1. (first + upTo[n]) - first = upTo[n]
    BY <1>4
  <2> QED
    BY <1>1, <1>5, <2>1
<1>8. Cardinality(There(BatchAnswer)) = n
  BY <1>1, <1>7, FS_Interval
<1> DEFINE S == {i \in Nat : i < n => first + upTo[i] = table[nextIn + 1 + i].offset}
<1>9. 0 \in S
  BY <1>1, <1>2, <1>4 DEF first
<1>10. ASSUME NEW i \in S, i < n
       PROVE  i + 1 \in S
  <2> SUFFICES ASSUME i + 1 < n
               PROVE  first + upTo[i + 1] = table[nextIn + 1 + (i + 1)].offset
    OBVIOUS
  <2> DEFINE j == nextIn + 1 + (i + 1)
  <2>1. /\ j \in nextIn + 2 .. BatchEnd /\ j - 1 = nextIn + 1 + i /\ j - 1 = nextIn + (i + 1)
        /\ j - 1 \in 1 .. N /\ i + 1 \in 1 .. n /\ (i + 1) - 1 = i /\ i \in 0 .. n
    BY <1>2
  <2> HIDE DEF j
  <2>2. table[j].offset = table[j - 1].offset + table[j - 1].size
    BY <1>2, <2>1
  <2>3. upTo[i + 1] = upTo[i] + s[i + 1] /\ s[i + 1] = table[j - 1].size
    BY <1>1, <2>1
  <2>4. first + upTo[i] = table[j - 1].offset
    BY <1>10, <2>1
  <2>5. upTo[i] \in Nat /\ table[j - 1].size \in Nat /\ table[j - 1].offset \in Nat
    BY <1>1, <2>1
  <2>6. first + upTo[i + 1] = table[j].offset
    BY <1>4, <2>2, <2>3, <2>4, <2>5
  <2> QED
    BY <2>6 DEF j
<1>11. 0 .. n \subseteq S
  <2>1. S \subseteq Nat
    OBVIOUS
  <2> HIDE DEF S, n
  <2> QED
    BY <1>1, <1>9, <1>10, <2>1, AllUpTo
<1>12. ASSUME NEW i \in 1 .. n
       PROVE  Cut(BatchAnswer, i) = table[nextIn + i]
  <2>1. i - 1 \in 0 .. n /\ i - 1 < n /\ nextIn + 1 + (i - 1) = nextIn + i /\ nextIn + i \in 1 .. N
    BY <1>1, <1>2
  <2>2. i - 1 \in S
    <3> HIDE DEF S
    <3> QED
      BY <1>11, <2>1
  <2>3. first + upTo[i - 1] = table[nextIn + i].offset
    BY <2>1, <2>2
  <2>4. table[nextIn + i] \in Intervals
    BY <2>1 DEF N
  <2>5. table[nextIn + i] = [offset |-> table[nextIn + i].offset, size |-> table[nextIn + i].size]
    BY <2>4 DEF Intervals
  <2> QED
    BY <1>1, <1>6, <2>3, <2>5
<1> QED
  BY <1>8, <1>12

\* A slice of a list goes on with what stands behind it.
LEMMA SliceGoesOn ==
  ASSUME NEW S, NEW s \in Seq(S), NEW m \in 0 .. Len(s), NEW n \in Nat, m + n <= Len(s),
         NEW b \in Seq(S), Len(b) = n, \A i \in 1 .. n : b[i] = s[m + i]
  PROVE  SubSeq(s, 1, m) \o b = SubSeq(s, 1, m + n)
<1> DEFINE a == SubSeq(s, 1, m)
           c == SubSeq(s, 1, m + n)
           e == a \o b
<1>1. Len(s) \in Nat /\ m \in Nat /\ m + n \in Nat
  OBVIOUS
<1>2. a \in Seq(S) /\ Len(a) = m /\ \A i \in 1 .. m : a[i] = s[i]
  BY <1>1
<1>3. c \in Seq(S) /\ Len(c) = m + n /\ \A i \in 1 .. m + n : c[i] = s[i]
  BY <1>1
<1> HIDE DEF a, c
<1>4. e \in Seq(S) /\ Len(e) = Len(a) + Len(b)
      /\ \A i \in 1 .. Len(a) + Len(b) : e[i] = IF i <= Len(a) THEN a[i] ELSE b[i - Len(a)]
  BY <1>2, ConcatProperties
<1> HIDE DEF e
<1>5. ASSUME NEW i \in 1 .. m + n
      PROVE  e[i] = c[i]
  <2>1. e[i] = IF i <= m THEN a[i] ELSE b[i - m]
    BY <1>2, <1>4
  <2>2. CASE i <= m
    BY <1>1, <1>2, <1>3, <2>1, <2>2
  <2>3. CASE ~ (i <= m)
    <3>1. i - m \in 1 .. n /\ m + (i - m) = i
      BY <1>1, <2>3
    <3> QED
      BY <1>3, <2>1, <2>3, <3>1
  <2> QED
    BY <2>2, <2>3
<1>6. e = c
  BY <1>1, <1>2, <1>3, <1>4, <1>5
<1> QED
  BY <1>6 DEF a, c, e

\* A batch is fetched and given to the decoder.
LEMMA BatchKeeps ==
  ASSUME MediaInv, FetchBatch
  PROVE  MediaInv'
<1> DEFINE n == BatchEnd - nextIn
           N == Len(table)
           there == There(BatchAnswer)
           cuts == [i \in 1 .. Cardinality(there) |-> Cut(BatchAnswer, i)]
<1>1. /\ file' = file /\ server' = server /\ table' = table
      /\ stage = "reading" /\ nextIn < N
      /\ file \in Files /\ server \in Servers /\ ReadingKept
      /\ faults \subseteq Stage \ {"ended", "failed"}
  BY DEF MediaInv, FetchBatch
<1>2. /\ table = MovieTable /\ table # <<>> /\ table \in Seq(Intervals) /\ N \in Nat
      /\ decoded \in Seq(Intervals) /\ nextIn \in 0 .. N /\ Len(decoded) <= nextIn
      /\ server.honours => decoded = SubSeq(table, 1, nextIn)
  BY <1>1, MovieFacts DEF ReadingKept
<1>3. MovieTable' = MovieTable
  BY <1>1, FileStays
<1>4. CASE faults' = faults \cup {"reading"} /\ stage' = "failed" /\ UNCHANGED <<decoded, nextIn>>
  <2>1. SearchKept'
    BY <1>4 DEF SearchKept
  <2>2. ReadingKept'
    BY <1>1, <1>2, <1>3, <1>4 DEF ReadingKept
  <2>3. stage' \in Stage /\ faults' \subseteq Stage \ {"ended", "failed"}
    BY <1>1, <1>4 DEF Stage
  <2> QED
    BY <1>1, <2>1, <2>2, <2>3 DEF MediaInv, Files, Layouts, Servers
<1>5. CASE /\ decoded' = decoded \o cuts /\ nextIn' = BatchEnd
           /\ stage' = (IF BatchEnd = N THEN "ended" ELSE "reading") /\ UNCHANGED faults
  <2>1. /\ n \in Nat /\ n # 0 /\ DOMAIN BatchSizes = 1 .. n
        /\ \A i \in 1 .. n : nextIn + i \in 1 .. N /\ BatchSizes[i] \in SampleSize
        /\ Sums(BatchSizes) \in [0 .. n -> Nat]
        /\ \A i \in 1 .. N : table[i].offset \in Nat
        /\ Len(BatchSizes) = n
    BY <1>1, <1>2, SizesFacts
  <2>2. BatchEnd \in nextIn + 1 .. N
    BY <1>1, <1>2, BatchFacts
  <2>3. there \subseteq 1 .. n
    BY <2>1 DEF There
  <2>4. IsFiniteSet(1 .. n) /\ Cardinality(1 .. n) = n
    BY <2>1, FS_Interval
  <2>5. IsFiniteSet(there) /\ Cardinality(there) \in Nat /\ Cardinality(there) <= n
    <3>1. IsFiniteSet(there) /\ Cardinality(there) <= Cardinality(1 .. n)
      BY <2>3, <2>4, FS_Subset
    <3> QED
      BY <2>4, <3>1, FS_CardinalityType
  <2>6. BatchAnswer[1] \in Nat
    <3>1. nextIn + 1 \in 1 .. N
      BY <1>2, <2>2
    <3>2. table[nextIn + 1].offset \in Nat
      BY <2>1, <3>1
    <3> QED
      BY <3>2 DEF BatchAnswer, Served
  <2>7. ASSUME NEW i \in 1 .. Cardinality(there)
        PROVE  Cut(BatchAnswer, i) \in Intervals
    <3>1. i \in 1 .. n /\ i - 1 \in 0 .. n
      BY <2>1, <2>5
    <3>2. Sums(BatchSizes)[i - 1] \in Nat /\ BatchSizes[i] \in SampleSize
      BY <2>1, <3>1
    <3> QED
      BY <2>6, <3>2 DEF Cut, Intervals
  <2> HIDE DEF n
  <2> DEFINE size == Cardinality(there)
  <2>8. cuts \in Seq(Intervals) /\ Len(cuts) = size
    <3>1. cuts = [i \in 1 .. size |-> Cut(BatchAnswer, i)]
      OBVIOUS
    <3>2. size \in Nat
      BY <2>5
    <3>3. \A i \in 1 .. size : Cut(BatchAnswer, i) \in Intervals
      BY <2>7
    <3> HIDE DEF cuts, size
    <3> QED
      BY <3>1, <3>2, <3>3
  <2>9. /\ decoded' \in Seq(Intervals) /\ Len(decoded') = Len(decoded) + size
        /\ Len(decoded') <= nextIn'
    <3>1. size \in Nat /\ size <= n /\ Len(decoded) \in Nat /\ BatchEnd = nextIn + n
      BY <1>2, <2>2, <2>5 DEF n
    <3> HIDE DEF cuts, size
    <3>2. decoded' \in Seq(Intervals) /\ Len(decoded') = Len(decoded) + size
      <4>1. decoded' = decoded \o cuts
        BY <1>5 DEF cuts, size
      <4> QED
        BY <1>2, <2>8, <3>1, <4>1, ConcatProperties
    <3> QED
      BY <1>2, <1>5, <2>1, <3>1, <3>2
  <2>10. ASSUME server.honours
         PROVE  decoded' = SubSeq(table, 1, BatchEnd)
    <3>1. size = n /\ \A i \in 1 .. n : Cut(BatchAnswer, i) = table[nextIn + i]
      BY <1>1, <1>2, <2>10, CutsAreTrue DEF n
    <3>2. cuts = [i \in 1 .. n |-> table[nextIn + i]]
      <4>1. cuts = [i \in 1 .. size |-> Cut(BatchAnswer, i)]
        OBVIOUS
      <4> HIDE DEF cuts, size
      <4> QED
        BY <3>1, <4>1
    <3>3. decoded = SubSeq(table, 1, nextIn)
      BY <1>2, <2>10
    <3>4. BatchEnd = nextIn + n /\ BatchEnd \in 1 .. N /\ nextIn \in Nat
      BY <1>2, <2>2 DEF n
    <3> HIDE DEF cuts, size
    <3>5. SubSeq(table, 1, nextIn) \o [i \in 1 .. n |-> table[nextIn + i]] = SubSeq(table, 1, BatchEnd)
      <4> DEFINE b == [i \in 1 .. n |-> table[nextIn + i]]
      <4>1. b \in Seq(Intervals) /\ Len(b) = n /\ \A i \in 1 .. n : b[i] = table[nextIn + i]
        BY <1>2, <2>1
      <4>2. n \in Nat /\ nextIn + n <= Len(table)
        BY <1>2, <2>1, <3>4
      <4> HIDE DEF b, N
      <4>3. SubSeq(table, 1, nextIn) \o b = SubSeq(table, 1, nextIn + n)
        BY <1>2, <4>1, <4>2, SliceGoesOn DEF N
      <4> QED
        BY <3>4, <4>3 DEF b
    <3> QED
      BY <1>5, <3>2, <3>3, <3>5
  <2>11. ReadingKept'
    <3>1. nextIn' \in 0 .. Len(table')
      BY <1>1, <1>2, <1>5, <2>2
    <3>2. server'.honours => decoded' = SubSeq(table', 1, nextIn')
      BY <1>1, <1>5, <2>10
    <3>3. stage' = "ended" => nextIn' = Len(table')
      BY <1>1, <1>5
    <3>4. table' = MovieTable' /\ table' # <<>>
      BY <1>1, <1>2, <1>3
    <3> QED
      BY <2>9, <3>1, <3>2, <3>3, <3>4 DEF ReadingKept, Intervals
  <2>12. stage' \in {"ended", "reading"}
    BY <1>5
  <2>13. SearchKept'
    BY <2>12 DEF SearchKept
  <2>14. stage' \in Stage /\ faults' \subseteq Stage \ {"ended", "failed"}
    BY <1>1, <1>5, <2>12 DEF Stage
  <2> QED
    BY <1>1, <2>11, <2>13, <2>14 DEF MediaInv, Files, Layouts, Servers
<1>6. \/ /\ decoded' = decoded \o cuts /\ nextIn' = BatchEnd
         /\ stage' = (IF BatchEnd = N THEN "ended" ELSE "reading") /\ UNCHANGED faults
      \/ faults' = faults \cup {"reading"} /\ stage' = "failed" /\ UNCHANGED <<decoded, nextIn>>
  BY DEF FetchBatch, There, Cut, BatchAnswer, BatchSizes
<1> QED
  BY <1>4, <1>5, <1>6

\* Every step keeps what is known.
LEMMA MediaKept ==
  ASSUME MediaInv, MediaNext
  PROVE  MediaInv'
BY AskKeeps, HeaderKeeps, TailKeeps, WholeKeeps, BatchKeeps DEF MediaNext

=============================================================================
