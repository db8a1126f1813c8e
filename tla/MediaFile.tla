------------------------------ MODULE MediaFile ------------------------------
(* How a song in an MP4 file is found and read (Audio/Probe.go, and         *)
(* streamMdatChunked of Audio/Streamer.go): the program looks for the movie *)
(* atom in the first megabyte of the file, then in its end, then in all of  *)
(* it, makes a table of samples from the compressed lists of a track, and   *)
(* fetches the samples in ranges.                                           *)
(*                                                                          *)
(* A file is a header atom of one unit, the movie atom and a data atom that *)
(* holds the samples of all tracks, in chunks of one track.  Bytes are only *)
(* counted; what a sample is known by is the interval where it lies.  What  *)
(* the player does between two fetches, and who stops it, is in Streamer.   *)
EXTENDS Lists

CONSTANTS
  HeaderProbe, TailProbe, WholeProbe,  \* how much is fetched to find the movie
  MovieSize,    \* the size of the movie atom
  SampleSize,   \* sizes of samples
  OtherData,    \* sizes of what else is in the data atom, after the samples
  MaxInFile     \* bound: samples in a file

ASSUME MediaAssumption ==
  /\ {HeaderProbe, TailProbe, WholeProbe, MovieSize} \subseteq Nat \ {0}
  /\ SampleSize \subseteq Nat \ {0} /\ OtherData \subseteq Nat /\ MaxInFile \in Nat

MediaTrack == {1, 2}

VARIABLES
  file,     \* what is served
  server,   \* and how
  stage,    \* how far the program has come
  faults,   \* the stages in which a request has failed
  table,    \* MP4AudioInfo.Samples
  nextIn,   \* sampleIdx, how many samples have been done with
  decoded   \* what the decoder was given, as intervals of the file

mediaVars == <<file, server, stage, faults, table, nextIn, decoded>>

\* The samples of a file, in their order: of which track, how long, and whether a chunk
\* begins, as one does where the track changes.
Layouts ==
  {l \in BoundedSeq([of : MediaTrack, size : SampleSize, begins : BOOLEAN], MaxInFile) :
     /\ l # <<>>
     /\ \A i \in DOMAIN l : i = 1 \/ l[i].of # l[i - 1].of => l[i].begins}

\* A track with sound that can be decoded has an mp4a entry and its ASC.
Files == [movieFirst : BOOLEAN, terse : BOOLEAN, rest : OtherData, samples : Layouts,
          sound : SUBSET MediaTrack]

\* sized: HEAD tells the length.  says, honours: Accept-Ranges, and what is true.
Servers == {s \in [sized : BOOLEAN, says : BOOLEAN, honours : BOOLEAN] : s.says => s.honours}

Lesser(a, b) == IF a < b THEN a ELSE b

SizesBefore == Sums([i \in DOMAIN file.samples |-> file.samples[i].size])

DataSize   == 1 + SizesBefore[Len(file.samples)] + file.rest
FileSize   == 1 + MovieSize + DataSize
MovieStart == IF file.movieFirst THEN 1 ELSE 1 + DataSize
DataStart  == IF file.movieFirst THEN 1 + MovieSize ELSE 1

\* Where sample i lies.
SampleStart(i) == DataStart + 1 + SizesBefore[i - 1]

\* Which samples are of a track.
SamplesOf(t) ==
  AtPlaces([i \in DOMAIN file.samples |-> i], {i \in DOMAIN file.samples : file.samples[i].of = t})

\* Where the samples of a track really lie.
TrueSamples(t) ==
  [k \in DOMAIN SamplesOf(t) |-> LET i == SamplesOf(t)[k]
                                 IN  [offset |-> SampleStart(i), size |-> file.samples[i].size]]

Stage == {"head", "header", "tail", "whole", "reading", "ended", "failed"}
Intervals == [offset : Nat, size : SampleSize]

MediaTypeOK ==
  /\ file \in Files /\ server \in Servers
  /\ faults \subseteq Stage \ {"ended", "failed"} /\ stage \in Stage
  /\ table \in Seq(Intervals) /\ decoded \in Seq(Intervals)
  /\ nextIn \in 0 .. Len(table) /\ Len(decoded) <= nextIn
  /\ stage \in {"reading", "ended"} => table # <<>>

MediaInit ==
  /\ file \in Files /\ server \in Servers
  /\ stage = "head" /\ faults = {} /\ table = <<>> /\ nextIn = 0 /\ decoded = <<>>

-----------------------------------------------------------------------------
(* The lists of a track as the movie atom has them, and the table made of  *)
(* them.                                                                    *)

\* Sizes of all samples, offsets of the chunks of the track, and how many
\* samples a chunk has from which chunk on; a terse file names only changes.
TrackLists(t) ==
  LET own    == SamplesOf(t)
      firsts == AtPlaces([k \in DOMAIN own |-> k],
                         {k \in DOMAIN own : file.samples[own[k]].begins})
      per(c) == (IF c < Len(firsts) THEN firsts[c + 1] ELSE Len(own) + 1) - firsts[c]
  IN  [sizes   |-> [k \in DOMAIN own |-> file.samples[own[k]].size],
       offsets |-> [c \in DOMAIN firsts |-> SampleStart(own[firsts[c]])],
       stsc    |-> {[first |-> c, per |-> per(c)] :
                      c \in {c \in DOMAIN firsts : ~ file.terse \/ c = 1 \/ per(c) # per(c - 1)}}]

\* Slip: an entry counts only from the chunk after its first one.
SamplesPerChunkAfter(stsc, chunk) ==
  LET before == {e \in stsc : chunk > e.first}
  IN  IF before = {} THEN 0 ELSE (CHOOSE e \in before : \A d \in before : d.first <= e.first).per

\* samplesPerChunkFor: the last entry that begins at the chunk or before it.
SamplesPerChunkFor(stsc, chunk) ==
  LET before == {e \in stsc : chunk >= e.first}
  IN  IF before = {} THEN 0 ELSE (CHOOSE e \in before : \A d \in before : d.first <= e.first).per

\* Slip: the place in the chunk is not reset.
BuildSampleTableFlat(lists) ==
  [s \in DOMAIN lists.sizes |->
     [offset |-> lists.offsets[1] + Sums(lists.sizes)[s - 1], size |-> lists.sizes[s]]]

\* buildSampleTable: chunk by chunk, as many samples as it has, as long as there are sizes.
BuildSampleTable(lists) ==
  LET chunks == DOMAIN lists.offsets
      upTo   == Sums([c \in chunks |-> SamplesPerChunkFor(lists.stsc, c)])
      before == Sums(lists.sizes)
      number == Lesser(Len(lists.sizes), upTo[Len(lists.offsets)])
  IN  [s \in 1 .. number |->
         LET c == CHOOSE c \in chunks : upTo[c - 1] < s /\ s <= upTo[c]
         IN  [offset |-> lists.offsets[c] + before[s - 1] - before[upTo[c - 1]],
              size   |-> lists.sizes[s]]]

\* score: how many samples a track has that can be decoded.
Score(t) == IF t \in file.sound THEN Len(TrackLists(t).sizes) ELSE 0

\* parseMoovAudioTrack: the first of the tracks with the best score.
BestTrack ==
  LET best == {t \in MediaTrack : \A u \in MediaTrack : Score(u) <= Score(t)}
  IN  CHOOSE t \in best : \A u \in best : t <= u

MovieTable == IF Score(BestTrack) = 0 THEN <<>> ELSE BuildSampleTable(TrackLists(BestTrack))

-----------------------------------------------------------------------------
(* fetchMP4Info                                                             *)

\* The answer to a range request: a server that does not know ranges sends all.
Served(from, to) == IF server.honours THEN <<from, to>> ELSE <<0, FileSize>>

\* walkTopLevelAtoms reads what it got from its first byte as atoms, and stops at one that is
\* cut off.  What begins inside an atom reads as an atom of any size, which
\* may or may not lead to the movie.
WalkFinds(got) ==
  LET inIt     == got[1] <= MovieStart /\ MovieStart + MovieSize <= got[2]
      boundary == got[1] \in {0, MovieStart, DataStart}
  IN  IF boundary THEN {inIt} ELSE {FALSE, inIt}

\* What is found is merged; the next stage is for when there is nothing yet.
Walk(got, otherwise) ==
  \E found \in WalkFinds(got) :
    IF found /\ MovieTable # <<>>
      THEN table' = MovieTable /\ stage' = "reading"
      ELSE table' = <<>> /\ stage' = otherwise

\* A request that fails, and where the program goes on.
RequestFails(otherwise) ==
  /\ faults' = faults \cup {stage} /\ stage' = otherwise /\ UNCHANGED table

AskLength ==
  /\ stage = "head"
  /\ \/ stage' = "header" /\ UNCHANGED <<table, faults>>
     \/ RequestFails("failed")
  /\ UNCHANGED <<file, server, nextIn, decoded>>

\* All of the file, if it is small.
AfterTail == IF server.sized /\ FileSize <= WholeProbe THEN "whole" ELSE "failed"

ReadHeader ==
  /\ stage = "header"
  /\ \/ /\ Walk(Served(0, Lesser(HeaderProbe, FileSize)),
                IF server.says THEN "tail" ELSE AfterTail)
        /\ UNCHANGED faults
     \/ RequestFails("failed")
  /\ UNCHANGED <<file, server, nextIn, decoded>>

\* Slip: the rest is tried only after a tail that was read.
ReadTailOrFail ==
  /\ stage = "tail"
  /\ \/ /\ Walk(Served(FileSize - Lesser(TailProbe, FileSize), FileSize), AfterTail)
        /\ UNCHANGED faults
     \/ RequestFails("failed")
  /\ UNCHANGED <<file, server, nextIn, decoded>>

\* A tail that does not come is no reason to give up.
ReadTail ==
  /\ stage = "tail"
  /\ \/ /\ Walk(Served(FileSize - Lesser(TailProbe, FileSize), FileSize), AfterTail)
        /\ UNCHANGED faults
     \/ RequestFails(AfterTail)
  /\ UNCHANGED <<file, server, nextIn, decoded>>

ReadWhole ==
  /\ stage = "whole"
  /\ \/ Walk(Served(0, FileSize), "failed") /\ UNCHANGED faults
     \/ RequestFails("failed")
  /\ UNCHANGED <<file, server, nextIn, decoded>>

-----------------------------------------------------------------------------
(* streamMdatChunked                                                        *)

\* Slip: all the samples that are left are one batch.
BatchEndAll == Len(table)

\* The samples from the next one on that lie behind one another.
BatchEnd ==
  CHOOSE e \in nextIn + 1 .. Len(table) :
    /\ \A i \in nextIn + 2 .. e : table[i].offset = table[i - 1].offset + table[i - 1].size
    /\ e < Len(table) => table[e + 1].offset # table[e].offset + table[e].size

\* A batch is fetched and cut into its samples; what the answer is too short for is left out.
FetchBatch ==
  LET sizes  == [i \in 1 .. BatchEnd - nextIn |-> table[nextIn + i].size]
      upTo   == Sums(sizes)
      first  == table[nextIn + 1].offset
      got    == Served(first, first + upTo[Len(sizes)])
      cut(i) == [offset |-> got[1] + upTo[i - 1], size |-> sizes[i]]
      there  == {i \in DOMAIN sizes : upTo[i] <= got[2] - got[1]}
  IN  /\ stage = "reading" /\ nextIn < Len(table)
      /\ \/ /\ decoded' = decoded \o [i \in 1 .. Cardinality(there) |-> cut(i)]
            /\ nextIn' = BatchEnd
            /\ stage' = IF BatchEnd = Len(table) THEN "ended" ELSE "reading"
            /\ UNCHANGED faults
         \/ /\ faults' = faults \cup {"reading"} /\ stage' = "failed"
            /\ UNCHANGED <<decoded, nextIn>>
      /\ UNCHANGED <<file, server, table>>

MediaNext == AskLength \/ ReadHeader \/ ReadTail \/ ReadWhole \/ FetchBatch

MediaSpec == MediaInit /\ [][MediaNext]_mediaVars

-----------------------------------------------------------------------------
(* Properties                                                               *)

\* The decoder gets the samples of the longest track of sound, each from where it lies in the
\* file, in their order and every one, if the server knows ranges; pictures
\* that lie between them are not taken for sound (Audio/Probe.go:290,
\* Audio/Streamer.go:436).
SamplesAreRead ==
  server.honours /\ table # <<>> =>
    \E t \in file.sound :
      /\ \A u \in file.sound : Len(TrueSamples(u)) <= Len(TrueSamples(t))
      /\ IsPrefix(decoded, TrueSamples(t))
      /\ stage = "ended" => decoded = TrueSamples(t)

\* A file with sound whose movie atom is in the header, or which is small enough to be fetched
\* in one go, is found, whatever becomes of the request for its end, when the others are
\* answered (Audio/Probe.go:167).
PlayableIsFound ==
  stage = "failed" /\ faults \subseteq {"tail"} =>
    \/ \A t \in file.sound : TrueSamples(t) = <<>>
    \/ /\ MovieStart + MovieSize > HeaderProbe /\ server.honours
       /\ ~ (server.sized /\ FileSize <= WholeProbe)
       /\ ~ (server.says /\ FileSize <= TailProbe /\ faults = {})
=============================================================================
