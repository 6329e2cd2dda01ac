-------------------------- MODULE LocalMirrorProofs --------------------------
(***************************************************************************)
(* What LocalMirror's run checks on a file of three pages of two bytes,    *)
(* proved for files of any number of pages of any size.                    *)
(***************************************************************************)
EXTENDS LocalMirror, TLAPS

-----------------------------------------------------------------------------
(* The inductive invariant *)

\* The bytes a chunk map says are valid.
Prefix(chunks) == {i \in Bytes : i % page_size < chunks[PageOf(i)]}

\* They are data, and the blob's where the user did nothing.
Right(chunks) ==
    \A i \in Prefix(chunks) : mapping[i] # "none" /\ (i \notin mine \cup unsure => mapping[i] = "blob")

\* What the user wrote is among them, and committed or marked.
Kept(chunks, written) ==
    \A i \in mine : /\ i \in Prefix(chunks) /\ mapping[i] = "user"
                    /\ written[PageOf(i)] \/ remote[i] = "user"

Chunks == [Pages -> 0..page_size]

Index == [saved : {TRUE}, chunk_map : Chunks, written_map : [Pages -> BOOLEAN]]

Progress == [active : {TRUE}, index : 0..PageCount, first : Nat, end : 1..blob_size]

MirrorTypes ==
    /\ opened \in BOOLEAN
    /\ mapping \in [Bytes -> Origins] /\ remote \in [Bytes -> Origins] /\ source \in [Bytes -> Origins]
    /\ chunk_map \in Chunks /\ written_map \in [Pages -> BOOLEAN]
    /\ idx \in {NoIndex, CutIndex} \/ idx \in Index
    /\ reading = NotReading \/ (reading \in Progress /\ opened)
    /\ local_name \in {"own", "clone"} /\ file_name \in {"own", local_name}
    /\ mine \subseteq Bytes /\ kept \subseteq mine /\ mine \cap unsure = {}

\* The mirror that is open.
OpenRight == opened => Right(chunk_map) /\ Kept(chunk_map, written_map)

\* The index knows of the user's bytes it was saved with.
IndexKeeps ==
    \A i \in kept : /\ idx.saved /\ i \in Prefix(idx.chunk_map) /\ mapping[i] = "user"
                    /\ idx.written_map[PageOf(i)] \/ remote[i] = "user"

\* The saved index: of an earlier stage of this mirror, or for the next one.
\* A mirror whose file went to the clone has none.
SavedRight ==
    /\ idx.saved => /\ file_name = "own" /\ Right(idx.chunk_map)
                    /\ opened => \A p \in Pages : idx.chunk_map[p] <= chunk_map[p]
    /\ IndexKeeps
    /\ ~opened => mine = kept

\* A read has seen to the pages before the one it has come to.
ServedSoFar ==
    reading.active =>
        \A i \in Bytes : reading.first * page_size <= i /\ i < reading.end /\ PageOf(i) < reading.index =>
            i \in Prefix(chunk_map)

MirrorInv == MirrorTypes /\ OpenRight /\ SavedRight /\ ServedSoFar /\ CommitKeepsTheRest

-----------------------------------------------------------------------------
(* Pages and bytes *)

\* A byte is where its page and its place in the page say.
LEMMA PageFacts ==
    ASSUME NEW i \in Bytes
    PROVE  /\ i \in Nat /\ i < blob_size /\ PageOf(i) \in Pages /\ PageOf(i) \in Nat
           /\ PageOf(i) * page_size \in Nat /\ PageOf(i) * page_size <= i
           /\ i < PageOf(i) * page_size + page_size
           /\ i % page_size = i - PageOf(i) * page_size
<1>1. page_size \in Nat \ {0} /\ PageCount \in Nat \ {0}
  BY MirrorAssumption
<1>2. blob_size \in Nat
  BY <1>1 DEF blob_size
<1>3. i \in Nat /\ i < blob_size
  BY <1>2 DEF Bytes
<1>4. PageOf(i) \in Nat /\ i % page_size \in 0..(page_size - 1)
  BY <1>1, <1>3 DEF PageOf
<1>5. i = (PageOf(i) * page_size) + (i % page_size)
  BY <1>1, <1>3 DEF PageOf
<1>6. PageOf(i) * page_size \in Nat
  BY <1>1, <1>4
<1>7. PageOf(i) * page_size <= i /\ i < PageOf(i) * page_size + page_size
      /\ i % page_size = i - PageOf(i) * page_size
  BY <1>1, <1>3, <1>4, <1>5, <1>6
<1>8. PageOf(i) < PageCount
  <2>1. \A x, y \in Nat : x <= y => x * page_size <= y * page_size
    BY <1>1
  <2>2. PageCount <= PageOf(i) => PageCount * page_size <= PageOf(i) * page_size
    BY <1>1, <1>4, <2>1
  <2> QED  BY <1>1, <1>2, <1>3, <1>4, <1>6, <1>7, <2>2 DEF blob_size
<1> QED  BY <1>1, <1>3, <1>4, <1>6, <1>7, <1>8 DEF Pages

\* The pages follow one another.
LEMMA PageOrder ==
    ASSUME NEW p \in Nat, NEW q \in Nat
    PROVE  /\ p * page_size \in Nat
           /\ p < q => p * page_size + page_size <= q * page_size
           /\ p <= q => p * page_size <= q * page_size
<1>1. page_size \in Nat \ {0}
  BY MirrorAssumption
<1>2. \A x, y \in Nat : x < y => (x + 1) * page_size <= y * page_size
  BY <1>1
<1>3. (p + 1) * page_size = p * page_size + page_size /\ p * page_size \in Nat
  BY <1>1
<1> QED  BY <1>1, <1>2, <1>3

\* The page of a byte lies before another page as the byte does.
LEMMA PageBefore ==
    ASSUME NEW i \in Bytes, NEW q \in Nat
    PROVE  PageOf(i) < q <=> i < q * page_size
<1>1. /\ i \in Nat /\ PageOf(i) \in Nat /\ PageOf(i) * page_size <= i /\ PageOf(i) * page_size \in Nat
      /\ i < PageOf(i) * page_size + page_size
  BY PageFacts
<1>2. q * page_size \in Nat /\ page_size \in Nat
  BY PageOrder, MirrorAssumption
<1>3. PageOf(i) < q => PageOf(i) * page_size + page_size <= q * page_size
  BY <1>1, PageOrder
<1>4. q <= PageOf(i) => q * page_size <= PageOf(i) * page_size
  BY <1>1, PageOrder
<1> QED  BY <1>1, <1>2, <1>3, <1>4

\* What is valid, by the position of a byte.
LEMMA InPrefix ==
    ASSUME NEW chunks \in Chunks, NEW i \in Bytes
    PROVE  /\ i \in Prefix(chunks) <=> i < PageOf(i) * page_size + chunks[PageOf(i)]
           /\ chunks[PageOf(i)] \in Nat /\ chunks[PageOf(i)] <= page_size
<1>1. /\ i \in Nat /\ PageOf(i) \in Pages /\ PageOf(i) * page_size \in Nat
      /\ i % page_size = i - PageOf(i) * page_size
  BY PageFacts
<1>2. page_size \in Nat
  BY MirrorAssumption
<1>3. chunks[PageOf(i)] \in 0..page_size
  BY <1>1 DEF Chunks
<1>4. chunks[PageOf(i)] \in Nat /\ chunks[PageOf(i)] <= page_size
  BY <1>2, <1>3
<1>5. i % page_size < chunks[PageOf(i)] <=> i < PageOf(i) * page_size + chunks[PageOf(i)]
  BY <1>1, <1>4
<1> QED  BY <1>4, <1>5 DEF Prefix

\* A shorter prefix of every page is part of a longer one.
LEMMA PrefixGrows ==
    ASSUME NEW a \in Chunks, NEW b \in Chunks, \A p \in Pages : a[p] <= b[p]
    PROVE  Prefix(a) \subseteq Prefix(b)
<1> SUFFICES ASSUME NEW i \in Prefix(a) PROVE i \in Prefix(b)
  OBVIOUS
<1>1. i \in Bytes
  BY DEF Prefix
<1>2. PageOf(i) \in Pages /\ i \in Nat /\ PageOf(i) * page_size \in Nat
  BY <1>1, PageFacts
<1>3. /\ i < PageOf(i) * page_size + a[PageOf(i)]
      /\ a[PageOf(i)] \in Nat /\ b[PageOf(i)] \in Nat /\ a[PageOf(i)] <= b[PageOf(i)]
  BY <1>1, <1>2, InPrefix
<1>4. i < PageOf(i) * page_size + b[PageOf(i)]
  BY <1>2, <1>3
<1> QED  BY <1>1, <1>4, InPrefix

\* Nothing is valid in a fresh file.
LEMMA FreshPrefix ==
    /\ [p \in Pages |-> 0] \in Chunks /\ Prefix([p \in Pages |-> 0]) = {}
<1>1. [p \in Pages |-> 0] \in Chunks
  BY MirrorAssumption DEF Chunks
<1>2. ASSUME NEW i \in Bytes
      PROVE  i \notin Prefix([p \in Pages |-> 0])
  <2>1. PageOf(i) \in Pages /\ i \in Nat /\ PageOf(i) * page_size \in Nat /\ PageOf(i) * page_size <= i
    BY PageFacts
  <2>2. i \in Prefix([p \in Pages |-> 0]) <=> i < PageOf(i) * page_size + 0
    BY <1>1, <2>1, InPrefix
  <2> QED  BY <2>1, <2>2
<1> QED  BY <1>1, <1>2 DEF Prefix

-----------------------------------------------------------------------------
(* Opening and closing *)

\* An opened file takes its maps from the index, which are right, or empty
\* ones.
LEMMA OpenStep ==
    ASSUME MirrorInv, Open
    PROVE  MirrorInv'
<1>1. /\ ~opened /\ idx # CutIndex /\ opened' = TRUE
      /\ mapping' = mapping /\ idx' = idx /\ local_name' = local_name /\ file_name' = file_name
      /\ reading' = reading /\ remote' = remote /\ source' = source
      /\ mine' = mine /\ kept' = kept /\ unsure' = unsure /\ ragged' = ragged
      /\ chunk_map' = IF idx.saved THEN idx.chunk_map ELSE [p \in Pages |-> 0]
      /\ written_map' = IF idx.saved THEN idx.written_map ELSE [p \in Pages |-> FALSE]
  BY DEF Open, names, history
<1>2. reading = NotReading /\ (idx = NoIndex \/ idx \in Index)
  BY <1>1 DEF MirrorInv, MirrorTypes
<1>3. ~reading.active
  BY <1>2 DEF NotReading
<1>4. CASE idx \in Index
  <2>1. idx.saved /\ idx.chunk_map \in Chunks /\ idx.written_map \in [Pages -> BOOLEAN]
    BY <1>4 DEF Index
  <2>2. chunk_map' = idx.chunk_map /\ written_map' = idx.written_map
    BY <1>1, <2>1
  <2>3. MirrorTypes'
    BY <1>1, <1>2, <2>1, <2>2 DEF MirrorInv, MirrorTypes
  <2>4. Right(chunk_map)' /\ Kept(chunk_map, written_map)'
    BY <1>1, <2>1, <2>2 DEF MirrorInv, SavedRight, IndexKeeps, Right, Kept
  <2>5. \A p \in Pages : idx.chunk_map[p] <= idx.chunk_map[p]
    BY <2>1, MirrorAssumption DEF Chunks
  <2>6. SavedRight'
    BY <1>1, <2>1, <2>2, <2>5 DEF MirrorInv, SavedRight, IndexKeeps, Right
  <2> QED  BY <1>1, <1>3, <2>3, <2>4, <2>6 DEF MirrorInv, OpenRight, ServedSoFar, CommitKeepsTheRest
<1>5. CASE idx = NoIndex
  <2>1. ~idx.saved /\ mine = {} /\ kept = {}
    BY <1>1, <1>5 DEF NoIndex, MirrorInv, SavedRight, IndexKeeps
  <2>2. chunk_map' = [p \in Pages |-> 0] /\ written_map' = [p \in Pages |-> FALSE]
    BY <1>1, <2>1
  <2>3. chunk_map' \in Chunks /\ Prefix(chunk_map') = {}
    BY <2>2, FreshPrefix
  <2>4. MirrorTypes'
    BY <1>1, <1>2, <2>2, <2>3 DEF MirrorInv, MirrorTypes
  <2>5. Right(chunk_map)' /\ Kept(chunk_map, written_map)'
    BY <1>1, <2>1, <2>3 DEF Right, Kept
  <2>6. SavedRight'
    BY <1>1, <2>1 DEF SavedRight, IndexKeeps
  <2> QED  BY <1>1, <1>3, <2>4, <2>5, <2>6 DEF MirrorInv, OpenRight, ServedSoFar, CommitKeepsTheRest
<1> QED  BY <1>2, <1>4, <1>5

\* The maps of a mirror that ends are those of a fresh one.
LEMMA MapsEnd ==
    ASSUME NEW S, Ends(S)
    PROVE  chunk_map' \in Chunks /\ written_map' \in [Pages -> BOOLEAN]
BY FreshPrefix DEF Ends

\* A mirror that ends with the index it found leaves the user's bytes the
\* index knows of.
LEMMA EndsStep ==
    ASSUME MirrorInv, opened, Ends(kept), reading' = NotReading, file_name = "own",
           UNCHANGED <<mapping, idx, file_name, remote, source, ragged>>
    PROVE  MirrorInv'
<1>1. /\ opened' = FALSE /\ local_name' = "own" /\ mapping' = mapping
      /\ idx' = idx /\ file_name' = file_name /\ remote' = remote
      /\ source' = source /\ ragged' = ragged
      /\ mine' = kept /\ kept' = kept /\ unsure' = unsure \cup (mine \ kept)
  BY DEF Ends
<1>2. kept \subseteq mine /\ mine \subseteq Bytes /\ mine \cap unsure = {}
  BY DEF MirrorInv, MirrorTypes
<1>3. mine' \cup unsure' = mine \cup unsure /\ mine' \cap unsure' = {}
  BY <1>1, <1>2
<1>4. MirrorTypes'
  BY <1>1, <1>2, <1>3, MapsEnd DEF MirrorInv, MirrorTypes
<1>5. SavedRight'
  BY <1>1, <1>3 DEF MirrorInv, SavedRight, IndexKeeps, Right
<1>6. CommitKeepsTheRest'
  BY <1>1, <1>3 DEF MirrorInv, CommitKeepsTheRest
<1> QED  BY <1>1, <1>4, <1>5, <1>6 DEF MirrorInv, OpenRight, ServedSoFar, NotReading

\* The index saved is that of the mirror, or it is cut off, or it is the one
\* that was there before.
LEMMA CloseStep ==
    ASSUME MirrorInv, Close
    PROVE  MirrorInv'
<1>1. /\ opened /\ ~reading.active /\ file_name = "own"
      /\ mapping' = mapping /\ file_name' = file_name /\ reading' = reading
      /\ remote' = remote /\ source' = source /\ ragged' = ragged
  BY DEF Close
<1>2. reading = NotReading
  BY <1>1 DEF MirrorInv, MirrorTypes, Progress
<1>3. mine \cap unsure = {} /\ mine \subseteq Bytes
  BY DEF MirrorInv, MirrorTypes
<1>4. CASE idx' = Saved(chunk_map, written_map) /\ Ends(mine)
  <2>1. /\ idx' = [saved |-> TRUE, chunk_map |-> chunk_map, written_map |-> written_map]
        /\ opened' = FALSE /\ local_name' = "own"
        /\ mine' = mine /\ kept' = mine /\ unsure' = unsure
    BY <1>4 DEF Ends, Saved
  <2>2. idx' \in Index /\ idx'.saved /\ idx'.chunk_map = chunk_map /\ idx'.written_map = written_map
    BY <2>1 DEF Index, MirrorInv, MirrorTypes
  <2>3. MirrorTypes'
    BY <1>1, <1>2, <1>4, <2>1, <2>2, MapsEnd DEF MirrorInv, MirrorTypes
  <2>4. SavedRight'
    BY <1>1, <2>1, <2>2 DEF MirrorInv, OpenRight, SavedRight, IndexKeeps, Right, Kept
  <2> QED  BY <1>1, <2>1, <2>3, <2>4 DEF MirrorInv, OpenRight, ServedSoFar, CommitKeepsTheRest
<1>5. CASE idx' = CutIndex /\ Ends({})
  <2>1. /\ idx' = CutIndex /\ ~idx'.saved /\ opened' = FALSE /\ local_name' = "own"
        /\ mine' = {} /\ kept' = {} /\ unsure' = unsure \cup mine
    BY <1>5 DEF Ends, CutIndex
  <2>2. MirrorTypes'
    BY <1>1, <1>2, <1>5, <2>1, MapsEnd DEF MirrorInv, MirrorTypes
  <2>3. SavedRight'
    BY <2>1 DEF SavedRight, IndexKeeps
  <2> QED  BY <1>1, <2>1, <2>2, <2>3 DEF MirrorInv, OpenRight, ServedSoFar, CommitKeepsTheRest
<1>6. CASE UNCHANGED idx /\ Ends(kept)
  BY <1>1, <1>2, <1>6, EndsStep
<1> QED  BY <1>4, <1>5, <1>6 DEF Close

\* A crash leaves the index that was there before.
LEMMA CrashStep ==
    ASSUME MirrorInv, Crash
    PROVE  MirrorInv'
BY EndsStep DEF Crash

\* A file that became a clone is closed: the next mirror is that of the
\* source.
LEMMA CloseCloneStep ==
    ASSUME MirrorInv, CloseClone
    PROVE  MirrorInv'
<1>1. /\ opened' = FALSE /\ file_name = "clone" /\ local_name' = "own" /\ file_name' = "own"
      /\ reading' = NotReading /\ mapping' = [i \in Bytes |-> "none"]
      /\ chunk_map' = chunk_map /\ written_map' = written_map /\ idx' = idx
      /\ remote' = source /\ source' = source
      /\ mine' = {} /\ kept' = kept /\ unsure' = {i \in Bytes : source[i] # "blob"}
      /\ ragged' = {PageOf(i) : i \in {i \in Bytes : source[i] = "none"}}
  BY DEF CloseClone
<1>2. ~idx.saved /\ kept = {}
  BY <1>1 DEF MirrorInv, SavedRight, IndexKeeps
<1>3. MirrorTypes'
  BY <1>2, <1>1 DEF MirrorInv, MirrorTypes, Origins
<1>4. SavedRight'
  BY <1>2, <1>1 DEF SavedRight, IndexKeeps
<1>5. CommitKeepsTheRest'
  BY <1>1 DEF CommitKeepsTheRest
<1> QED  BY <1>1, <1>3, <1>4, <1>5 DEF MirrorInv, OpenRight, ServedSoFar, NotReading

\* What the saved index says is part of what the open mirror does.
LEMMA SavedFollows ==
    ASSUME MirrorInv, opened, opened' = opened, idx' = idx, file_name' = file_name, chunk_map' \in Chunks,
           \A q \in Pages : chunk_map[q] <= chunk_map'[q], Right(chunk_map)', Kept(chunk_map, written_map)',
           kept' \subseteq kept, kept' \subseteq mine', \A i \in kept' : remote[i] = "user" => remote'[i] = "user"
    PROVE  SavedRight'
<1>0. IndexKeeps'
  BY DEF MirrorInv, SavedRight, IndexKeeps, Kept
<1> SUFFICES ASSUME idx.saved
             PROVE  /\ file_name' = "own" /\ Right(idx.chunk_map)'
                    /\ \A q \in Pages : idx.chunk_map[q] <= chunk_map'[q]
  BY <1>0 DEF SavedRight
<1>1. idx \in Index /\ chunk_map \in Chunks
  BY DEF MirrorInv, MirrorTypes, NoIndex, CutIndex
<1>2. idx.chunk_map \in Chunks
  BY <1>1 DEF Index
<1>3. file_name = "own" /\ \A q \in Pages : idx.chunk_map[q] <= chunk_map[q]
  BY DEF MirrorInv, SavedRight
<1>4. \A q \in Pages : idx.chunk_map[q] <= chunk_map'[q]
  <2> SUFFICES ASSUME NEW q \in Pages PROVE idx.chunk_map[q] <= chunk_map'[q]
    OBVIOUS
  <2>1. idx.chunk_map[q] \in Int /\ chunk_map[q] \in Int /\ chunk_map'[q] \in Int
    BY <1>1, <1>2, MirrorAssumption DEF Chunks
  <2> QED  BY <1>3, <2>1
<1>5. Prefix(idx.chunk_map) \subseteq Prefix(chunk_map')
  BY <1>2, <1>4, PrefixGrows
<1> QED  BY <1>3, <1>4, <1>5 DEF Right

-----------------------------------------------------------------------------
(* read *)

\* Steps that only move the read, or the names.
LEMMA QuietStep ==
    ASSUME MirrorInv, UNCHANGED <<opened, mirrorVars, idx, file_name, remote, source, mine, kept, unsure, ragged>>,
           local_name' \in {"own", "clone"}, file_name' \in {"own", local_name'},
           reading' = NotReading \/ (reading' \in Progress /\ opened), ServedSoFar'
    PROVE  MirrorInv'
<1>1. /\ opened' = opened /\ mapping' = mapping /\ chunk_map' = chunk_map /\ written_map' = written_map
      /\ idx' = idx /\ file_name' = file_name /\ remote' = remote /\ source' = source
      /\ mine' = mine /\ kept' = kept /\ unsure' = unsure /\ ragged' = ragged
  BY DEF mirrorVars
<1>2. MirrorTypes'
  BY <1>1 DEF MirrorInv, MirrorTypes
<1>3. Right(chunk_map)' <=> Right(chunk_map)
  BY <1>1 DEF Right
<1>4. Kept(chunk_map, written_map)' <=> Kept(chunk_map, written_map)
  BY <1>1 DEF Kept
<1>5. OpenRight'
  BY <1>1, <1>3, <1>4 DEF MirrorInv, OpenRight
<1>6. SavedRight'
  BY <1>1 DEF MirrorInv, SavedRight, IndexKeeps, Right
<1>7. CommitKeepsTheRest'
  BY <1>1 DEF MirrorInv, CommitKeepsTheRest
<1> QED  BY <1>2, <1>5, <1>6, <1>7 DEF MirrorInv

\* A step that leaves the names alone keeps their types.
LEMMA NamesKept ==
    ASSUME MirrorInv, UNCHANGED names
    PROVE  local_name' \in {"own", "clone"} /\ file_name' \in {"own", local_name'} /\ file_name' = file_name
BY DEF MirrorInv, MirrorTypes, names

\* A read starts on the page of its first byte.
LEMMA ReadBeginsStep ==
    ASSUME MirrorInv, NEW off \in 0..blob_size, NEW size \in 0..blob_size, ReadBegins(off, size)
    PROVE  MirrorInv'
<1>1. /\ opened /\ size > 0 /\ off + size <= blob_size
      /\ reading' = [active |-> TRUE, index |-> PageOf(off), first |-> PageOf(off), end |-> off + size]
      /\ UNCHANGED <<opened, mirrorVars, idx, names, remote, source, mine, kept, unsure, ragged>>
  BY DEF ReadBegins, history
<1>2. blob_size \in Nat
  BY MirrorAssumption DEF blob_size
<1>3. off \in Bytes /\ off + size \in 1..blob_size
  BY <1>1, <1>2 DEF Bytes
<1>4. PageOf(off) \in Pages /\ PageOf(off) \in Nat /\ PageOf(off) \in 0..PageCount
  BY <1>3, PageFacts, MirrorAssumption DEF Pages
<1>5. reading' \in Progress /\ reading'.index = PageOf(off) /\ reading'.first = PageOf(off)
  BY <1>1, <1>3, <1>4 DEF Progress
<1>6. ServedSoFar'
  <2> SUFFICES ASSUME NEW i \in Bytes, PageOf(off) * page_size <= i, PageOf(i) < PageOf(off)
               PROVE  FALSE
    BY <1>5 DEF ServedSoFar
  <2>1. i < PageOf(off) * page_size
    BY <1>4, PageBefore
  <2> QED  BY <2>1, <1>4, PageFacts, PageOrder
<1> QED  BY <1>1, <1>5, <1>6, NamesKept, QuietStep

\* What changes when a read moves on to another page.
LEMMA MovesOn ==
    ASSUME NEW r \in Progress, NEW n \in 0..PageCount
    PROVE  LET m == [r EXCEPT !.index = n]
           IN  m \in Progress /\ m.index = n /\ m.first = r.first /\ m.end = r.end
BY DEF Progress

\* The page is there as far as the read goes.
LEMMA ReadHasPage ==
    ASSUME MirrorInv, ReadPage, ~Missing(reading.index, reading.end)
    PROVE  MirrorInv'
<1> DEFINE p == reading.index
           end == reading.end
<1>1. /\ reading.active /\ p * page_size < end /\ reading' = [reading EXCEPT !.index = p + 1]
      /\ UNCHANGED <<opened, mirrorVars, idx, names, remote, source, mine, kept, unsure, ragged>>
  BY DEF ReadPage, history, mirrorVars
<1>2. reading \in Progress /\ opened
  BY <1>1 DEF MirrorInv, MirrorTypes, NotReading
<1>3. p \in 0..PageCount /\ end \in 1..blob_size /\ PageCount \in Nat /\ blob_size \in Nat /\ page_size \in Nat
  BY <1>2, MirrorAssumption DEF Progress, blob_size
<1>4. p \in Nat /\ end \in Nat /\ end <= blob_size /\ p * page_size \in Nat /\ PageCount * page_size = blob_size
  BY <1>3, PageOrder DEF blob_size
<1>5. p < PageCount
  BY <1>1, <1>3, <1>4
<1>6. reading' \in Progress /\ reading'.index = p + 1 /\ reading'.first = reading.first /\ reading'.end = end
  <2>1. p + 1 \in 0..PageCount
    BY <1>3, <1>4, <1>5
  <2> HIDE DEF p, end
  <2> QED  BY <1>1, <1>2, <2>1, MovesOn DEF end
<1>7. chunk_map' = chunk_map /\ chunk_map \in Chunks
  BY <1>1 DEF mirrorVars, MirrorInv, MirrorTypes
<1>8. chunk_map[p] \in Nat /\ chunk_map[p] >= Smaller(page_size, end - p * page_size)
  <2>1. p \in Pages
    BY <1>3, <1>4, <1>5 DEF Pages
  <2>2. chunk_map[p] \in 0..page_size
    BY <1>7, <2>1 DEF Chunks
  <2>3. Smaller(page_size, end - p * page_size) \in Int
    BY <1>3, <1>4 DEF Smaller
  <2> QED  BY <1>3, <2>2, <2>3 DEF Missing
<1>9. ServedSoFar'
  <2> SUFFICES ASSUME NEW i \in Bytes, reading.first * page_size <= i, i < end, PageOf(i) < p + 1
               PROVE  i \in Prefix(chunk_map)
    BY <1>6, <1>7 DEF ServedSoFar
  <2>1. PageOf(i) \in Nat /\ i \in Nat /\ i < PageOf(i) * page_size + page_size
    BY PageFacts
  <2>2. CASE PageOf(i) < p
    BY <1>1, <2>2 DEF MirrorInv, ServedSoFar
  <2>3. CASE PageOf(i) = p
    <3>1. i < p * page_size + Smaller(page_size, end - p * page_size)
      BY <1>3, <1>4, <2>1, <2>3 DEF Smaller
    <3>2. i < p * page_size + chunk_map[p]
      BY <1>3, <1>4, <1>8, <2>1, <3>1 DEF Smaller
    <3> QED  BY <1>7, <2>3, <3>2, InPrefix
  <2> QED  BY <1>4, <2>1, <2>2, <2>3
<1> QED  BY <1>1, <1>2, <1>6, <1>9, NamesKept, QuietStep

\* The rest of the page is fetched, with empty pages behind it: nothing that
\* was valid is touched.
LEMMA ReadFetches ==
    ASSUME MirrorInv, ReadPage, Missing(reading.index, reading.end)
    PROVE  MirrorInv'
<1> DEFINE p == reading.index
           end == reading.end
<1>1. PICK next \in (p + 1)..PageCount :
         /\ FetchStops(p, end, next)
         /\ mapping' = Filled(Range(p * page_size + chunk_map[p], next * page_size), "blob")
         /\ chunk_map' = [q \in Pages |-> IF q \in p..(next - 1) THEN page_size ELSE chunk_map[q]]
         /\ reading' = [reading EXCEPT !.index = next]
  BY DEF ReadPage
<1>2. /\ reading.active /\ opened' = opened /\ written_map' = written_map /\ idx' = idx
      /\ UNCHANGED names /\ remote' = remote /\ source' = source
      /\ mine' = mine /\ kept' = kept /\ unsure' = unsure /\ ragged' = ragged
  BY DEF ReadPage, history
<1>3. reading \in Progress /\ opened
  BY <1>2 DEF MirrorInv, MirrorTypes, NotReading
<1>4. /\ p \in Nat /\ page_size \in Nat /\ PageCount \in Nat /\ next \in Nat /\ p < next /\ next <= PageCount
      /\ p * page_size \in Nat /\ next * page_size \in Nat
  <2>1. p \in 0..PageCount /\ PageCount \in Nat /\ page_size \in Nat
    BY <1>3, MirrorAssumption DEF Progress
  <2>2. p \in Nat /\ next \in Nat /\ p < next /\ next <= PageCount
    BY <1>1, <2>1
  <2> QED  BY <2>1, <2>2, PageOrder
<1>5. reading' \in Progress /\ reading'.index = next /\ reading'.first = reading.first /\ reading'.end = end
  <2>1. next \in 0..PageCount
    BY <1>4
  <2> QED  BY <1>1, <1>3, <2>1, MovesOn
<1>6. chunk_map \in Chunks
  BY DEF MirrorInv, MirrorTypes
<1>7. chunk_map' \in Chunks
  BY <1>1, <1>4, <1>6 DEF Chunks
<1>8. p \in Pages /\ chunk_map[p] \in Nat /\ chunk_map[p] <= page_size
  <2>1. p \in Pages
    BY <1>4 DEF Pages
  <2> QED  BY <1>4, <1>6, <2>1 DEF Chunks
<1> DEFINE F == {i \in Bytes : p * page_size + chunk_map[p] <= i /\ i < next * page_size}
<1>9. mapping' = [i \in Bytes |-> IF i \in F THEN "blob" ELSE mapping[i]]
  BY <1>1, <1>4, <1>8 DEF Filled, Range, Bytes
<1>10. \A q \in Pages : chunk_map[q] <= chunk_map'[q]
  BY <1>1, <1>4, <1>6 DEF Chunks
<1>11. F \cap Prefix(chunk_map) = {}
  <2> SUFFICES ASSUME NEW i \in Bytes, i \in F PROVE i \notin Prefix(chunk_map)
    OBVIOUS
  <2>1. /\ PageOf(i) \in Nat /\ PageOf(i) \in Pages /\ i \in Nat
        /\ PageOf(i) * page_size <= i /\ PageOf(i) * page_size \in Nat
    BY PageFacts
  <2>2. PageOf(i) < next
    BY <1>4, PageBefore
  <2>3. p <= PageOf(i)
    <3>1. ~(i < p * page_size)
      BY <1>4, <1>8, <2>1
    <3> QED  BY <1>4, <2>1, <3>1, PageBefore
  <2>4. CASE PageOf(i) = p
    BY <1>4, <1>6, <1>8, <2>1, <2>4, InPrefix
  <2>5. CASE PageOf(i) # p
    <3>1. PageOf(i) \in (p + 1)..(next - 1)
      BY <1>4, <2>1, <2>2, <2>3, <2>5
    <3>2. chunk_map[PageOf(i)] = 0
      BY <1>1, <3>1 DEF FetchStops
    <3> QED  BY <1>6, <2>1, <3>2, InPrefix
  <2> QED  BY <2>4, <2>5
<1>12. Prefix(chunk_map') \subseteq Prefix(chunk_map) \cup F
  <2> SUFFICES ASSUME NEW i \in Bytes, i \in Prefix(chunk_map'), i \notin F PROVE i \in Prefix(chunk_map)
    BY DEF Prefix
  <2>1. /\ PageOf(i) \in Nat /\ PageOf(i) \in Pages /\ i \in Nat
    BY PageFacts
  <2>2. CASE PageOf(i) \in p..(next - 1)
    <3>1. i < next * page_size
      BY <1>4, <2>1, <2>2, PageBefore
    <3>2. i < p * page_size + chunk_map[p]
      BY <1>4, <1>8, <2>1, <3>1
    <3>3. PageOf(i) = p
      <4>1. p * page_size + page_size <= (p + 1) * page_size /\ (p + 1) * page_size \in Nat
        BY <1>4, PageOrder
      <4>2. i < (p + 1) * page_size
        BY <1>4, <1>8, <2>1, <3>2, <4>1
      <4>3. PageOf(i) < p + 1
        BY <1>4, <4>2, PageBefore
      <4> QED  BY <1>4, <2>1, <2>2, <4>3
    <3> QED  BY <1>6, <3>2, <3>3, InPrefix
  <2>3. CASE PageOf(i) \notin p..(next - 1)
    <3>1. chunk_map'[PageOf(i)] = chunk_map[PageOf(i)]
      BY <1>1, <2>1, <2>3
    <3> QED  BY <3>1 DEF Prefix
  <2> QED  BY <2>2, <2>3
<1>13. Prefix(chunk_map) \subseteq Prefix(chunk_map')
  BY <1>6, <1>7, <1>10, PrefixGrows
<1> HIDE DEF F
<1>14. Right(chunk_map) /\ Kept(chunk_map, written_map)
  BY <1>3 DEF MirrorInv, OpenRight
<1>15. Right(chunk_map)'
  <2> SUFFICES ASSUME NEW i \in Prefix(chunk_map')
               PROVE  mapping'[i] # "none" /\ (i \notin mine \cup unsure => mapping'[i] = "blob")
    BY <1>2 DEF Right
  <2>1. i \in Bytes
    BY DEF Prefix
  <2>2. CASE i \in F
    BY <1>9, <2>1, <2>2
  <2>3. CASE i \notin F
    BY <1>9, <1>12, <1>14, <2>1, <2>3 DEF Right
  <2> QED  BY <2>2, <2>3
<1>16. Kept(chunk_map, written_map)'
  <2> SUFFICES ASSUME NEW i \in mine
               PROVE  /\ i \in Prefix(chunk_map') /\ mapping'[i] = "user"
                      /\ written_map[PageOf(i)] \/ remote[i] = "user"
    BY <1>2 DEF Kept
  <2>1. /\ i \in Prefix(chunk_map) /\ mapping[i] = "user"
        /\ written_map[PageOf(i)] \/ remote[i] = "user"
    BY <1>14 DEF Kept
  <2>2. i \in Bytes /\ i \notin F
    BY <1>11, <2>1 DEF Prefix
  <2> QED  BY <1>9, <1>13, <2>1, <2>2
<1>17. SavedRight'
  <2>1. kept' \subseteq kept /\ kept' \subseteq mine' /\ \A i \in kept' : remote[i] = "user" => remote'[i] = "user"
    BY <1>2 DEF MirrorInv, MirrorTypes
  <2> QED  BY <1>2, <1>3, <1>7, <1>10, <1>15, <1>16, <2>1, SavedFollows DEF names
<1>18. ServedSoFar'
  <2> SUFFICES ASSUME NEW i \in Bytes, reading.first * page_size <= i, i < end, PageOf(i) < next
               PROVE  i \in Prefix(chunk_map')
    BY <1>5 DEF ServedSoFar
  <2>1. /\ PageOf(i) \in Nat /\ PageOf(i) \in Pages /\ i \in Nat /\ PageOf(i) * page_size \in Nat
        /\ i < PageOf(i) * page_size + page_size
    BY PageFacts
  <2>2. CASE PageOf(i) < p
    BY <1>2, <1>13, <2>2 DEF MirrorInv, ServedSoFar
  <2>3. CASE p <= PageOf(i)
    <3>1. PageOf(i) \in p..(next - 1)
      BY <1>4, <2>1, <2>3
    <3>2. chunk_map'[PageOf(i)] = page_size
      BY <1>1, <2>1, <3>1
    <3> QED  BY <1>7, <2>1, <3>2, InPrefix
  <2> QED  BY <1>4, <2>1, <2>2, <2>3
<1>19. MirrorTypes'
  <2>1. mapping' \in [Bytes -> Origins]
    BY <1>9 DEF MirrorInv, MirrorTypes, Origins
  <2> QED  BY <1>2, <1>3, <1>5, <1>7, <2>1, NamesKept DEF MirrorInv, MirrorTypes
<1>20. CommitKeepsTheRest'
  BY <1>2 DEF MirrorInv, CommitKeepsTheRest
<1> QED  BY <1>15, <1>16, <1>17, <1>18, <1>19, <1>20 DEF MirrorInv, OpenRight

\* A read that returns or fails leaves the mirror as it is.
LEMMA ReadEnds ==
    ASSUME MirrorInv, ReadFails \/ ReadReturns
    PROVE  MirrorInv'
<1>1. /\ reading' = NotReading
      /\ UNCHANGED <<opened, mirrorVars, idx, names, remote, source, mine, kept, unsure, ragged>>
  BY DEF ReadFails, ReadReturns, history
<1>2. ServedSoFar'
  BY <1>1 DEF ServedSoFar, NotReading
<1> QED  BY <1>1, <1>2, NamesKept, QuietStep

-----------------------------------------------------------------------------
(* write *)

\* The write makes its pages valid as far as it reaches, and fetches what it
\* would leave invalid before it.
LEMMA WriteStep ==
    ASSUME MirrorInv, NEW off \in 0..blob_size, NEW size \in 0..blob_size, Write(off, size)
    PROVE  MirrorInv'
<1> DEFINE end == off + size
           R == Range(off, end)
           P == PageOf(off)
           touched == {p \in Pages : p >= P /\ p * page_size < end}
<1>1. /\ opened /\ ~reading.active /\ size > 0 /\ end <= blob_size
      /\ mapping' = [i \in Bytes |-> IF i \in R THEN "user" ELSE IF i \in Gap(off) THEN "blob" ELSE mapping[i]]
      /\ chunk_map' = [p \in Pages |-> IF p \in touched /\ chunk_map[p] < Reach(p, end)
                                       THEN Reach(p, end) ELSE chunk_map[p]]
      /\ written_map' = [p \in Pages |-> p \in touched \/ written_map[p]]
      /\ mine' = mine \cup R /\ kept' = kept \ R /\ unsure' = unsure \ R
      /\ opened' = opened /\ idx' = idx /\ UNCHANGED names /\ reading' = reading
      /\ remote' = remote /\ source' = source /\ ragged' = ragged
  BY DEF Write
<1>2. blob_size \in Nat /\ page_size \in Nat \ {0} /\ off \in Nat /\ size \in Nat /\ end \in Nat /\ off < end
  BY <1>1, MirrorAssumption DEF blob_size
<1>3. R \subseteq Bytes /\ \A i : i \in R <=> i \in Int /\ off <= i /\ i < end
  BY <1>1, <1>2 DEF Range, Bytes
<1>4. off \in Bytes
  BY <1>2, <1>3
<1>5. P \in Pages /\ P \in Nat /\ P * page_size \in Nat /\ off < P * page_size + page_size
  BY <1>4, PageFacts
<1>6. chunk_map \in Chunks /\ written_map \in [Pages -> BOOLEAN] /\ mapping \in [Bytes -> Origins]
      /\ mine \subseteq Bytes /\ mine \cap unsure = {}
  BY DEF MirrorInv, MirrorTypes
<1> HIDE DEF R, P
<1>7. \A p \in Pages : p \in Nat /\ p * page_size \in Nat /\ chunk_map[p] \in 0..page_size
  BY <1>6, MirrorAssumption, PageOrder DEF Pages, Chunks
<1>8. \A p \in touched : Reach(p, end) \in 0..page_size /\ Reach(p, end) \in Nat
  BY <1>2, <1>7 DEF Reach, Smaller
<1>9. chunk_map' \in Chunks /\ \A p \in Pages : chunk_map[p] <= chunk_map'[p]
  BY <1>1, <1>2, <1>7, <1>8 DEF Chunks
<1>10. \A p \in touched : chunk_map'[p] >= Reach(p, end) /\ chunk_map'[p] \in Nat
  BY <1>1, <1>2, <1>7, <1>8
<1>11. Prefix(chunk_map) \subseteq Prefix(chunk_map')
  BY <1>6, <1>9, PrefixGrows
<1>12. ASSUME NEW i \in R
       PROVE  PageOf(i) \in touched /\ i \in Prefix(chunk_map')
  <2>1. i \in Bytes /\ i \in Int /\ off <= i /\ i < end
    BY <1>3
  <2>2. /\ i \in Nat /\ PageOf(i) \in Pages /\ PageOf(i) \in Nat /\ PageOf(i) * page_size \in Nat
        /\ PageOf(i) * page_size <= i /\ i < PageOf(i) * page_size + page_size
    BY <2>1, PageFacts
  <2>3. PageOf(i) >= P
    <3>1. PageOf(i) < P => i < P * page_size
      BY <1>5, <2>1, PageBefore
    <3>2. P * page_size <= off
      BY <1>4, PageFacts DEF P
    <3> QED  BY <1>2, <1>5, <2>1, <2>2, <3>1, <3>2
  <2>4. PageOf(i) \in touched
    BY <1>2, <2>1, <2>2, <2>3
  <2>5. i < PageOf(i) * page_size + Reach(PageOf(i), end)
    BY <1>2, <2>1, <2>2 DEF Reach, Smaller
  <2>6. i < PageOf(i) * page_size + chunk_map'[PageOf(i)]
    BY <1>8, <1>10, <2>2, <2>4, <2>5
  <2> QED  BY <1>9, <2>1, <2>4, <2>6, InPrefix
<1>13. Gap(off) = {i \in Int : P * page_size + chunk_map[P] <= i /\ i < off}
  BY <1>2, <1>5, <1>7 DEF Gap, Range, P
<1>14. ASSUME NEW i \in Bytes, i \in Gap(off)
       PROVE  i \notin Prefix(chunk_map) /\ i \notin R
  <2>1. i \in Nat /\ P * page_size + chunk_map[P] <= i /\ i < off /\ chunk_map[P] \in 0..page_size
    BY <1>5, <1>7, <1>13, <1>14, PageFacts
  <2>2. PageOf(i) = P
    <3>1. PageOf(i) \in Nat /\ ~(i < P * page_size)
      BY <1>2, <1>5, <2>1, PageFacts
    <3>2. P * page_size + page_size <= (P + 1) * page_size /\ (P + 1) * page_size \in Nat
      BY <1>5, PageOrder
    <3>3. i < (P + 1) * page_size
      BY <1>2, <1>5, <2>1, <3>2
    <3>4. PageOf(i) < P + 1 /\ ~(PageOf(i) < P)
      BY <1>5, <3>1, <3>3, PageBefore
    <3> QED  BY <1>5, <3>1, <3>4
  <2>3. i \notin Prefix(chunk_map)
    BY <1>2, <1>5, <1>6, <2>1, <2>2, InPrefix
  <2> QED  BY <1>2, <1>3, <2>1, <2>3
<1>15. ASSUME NEW i \in Bytes, i \in Prefix(chunk_map'), i \notin R, i \notin Gap(off)
       PROVE  i \in Prefix(chunk_map)
  <2>1. /\ i \in Nat /\ PageOf(i) \in Pages /\ PageOf(i) \in Nat /\ PageOf(i) * page_size \in Nat
        /\ PageOf(i) * page_size <= i
    BY PageFacts
  <2>2. CASE chunk_map'[PageOf(i)] = chunk_map[PageOf(i)]
    BY <1>15, <2>2 DEF Prefix
  <2>3. CASE chunk_map'[PageOf(i)] # chunk_map[PageOf(i)]
    <3>1. PageOf(i) \in touched /\ chunk_map'[PageOf(i)] = Reach(PageOf(i), end)
      BY <1>1, <2>1, <2>3
    <3>2. i < PageOf(i) * page_size + Reach(PageOf(i), end)
      BY <1>9, <1>15, <3>1, InPrefix
    <3>3. i < end
      BY <1>2, <2>1, <3>2 DEF Reach, Smaller
    <3>4. i < off
      BY <1>2, <1>3, <1>15, <2>1, <3>3
    <3>5. PageOf(i) = P
      <4>1. P < PageOf(i) => P * page_size + page_size <= PageOf(i) * page_size
        BY <1>5, <2>1, PageOrder
      <4>2. ~(P < PageOf(i))
        BY <1>2, <1>5, <2>1, <3>4, <4>1
      <4> QED  BY <1>5, <2>1, <3>1, <4>2
    <3>6. i < P * page_size + chunk_map[P]
      BY <1>5, <1>7, <1>13, <1>15, <2>1, <3>4
    <3> QED  BY <1>6, <3>5, <3>6, InPrefix
  <2> QED  BY <2>2, <2>3
<1>16. Right(chunk_map) /\ Kept(chunk_map, written_map)
  BY <1>1 DEF MirrorInv, OpenRight
<1>17. Right(chunk_map)'
  <2> SUFFICES ASSUME NEW i \in Prefix(chunk_map')
               PROVE  mapping'[i] # "none" /\ (i \notin mine' \cup unsure' => mapping'[i] = "blob")
    BY DEF Right
  <2>1. i \in Bytes
    BY DEF Prefix
  <2>2. CASE i \in R
    BY <1>1, <2>1, <2>2
  <2>3. CASE i \notin R /\ i \in Gap(off)
    BY <1>1, <2>1, <2>3
  <2>4. CASE i \notin R /\ i \notin Gap(off)
    <3>1. i \in Prefix(chunk_map) /\ mapping'[i] = mapping[i]
      BY <1>1, <1>15, <2>1, <2>4
    <3> QED  BY <1>1, <1>16, <2>4, <3>1 DEF Right
  <2> QED  BY <2>2, <2>3, <2>4
<1>18. Kept(chunk_map, written_map)'
  <2> SUFFICES ASSUME NEW i \in mine'
               PROVE  /\ i \in Prefix(chunk_map') /\ mapping'[i] = "user"
                      /\ written_map'[PageOf(i)] \/ remote[i] = "user"
    BY <1>1 DEF Kept
  <2>0. i \in Bytes /\ PageOf(i) \in Pages
    BY <1>1, <1>3, <1>6, PageFacts
  <2>1. CASE i \in R
    BY <1>1, <1>12, <2>0, <2>1
  <2>2. CASE i \notin R
    <3>1. i \in mine
      BY <1>1, <2>2
    <3>2. /\ i \in Prefix(chunk_map) /\ mapping[i] = "user"
          /\ written_map[PageOf(i)] \/ remote[i] = "user"
      BY <1>16, <3>1 DEF Kept
    <3>3. mapping'[i] = mapping[i]
      BY <1>1, <1>14, <2>0, <2>2, <3>2
    <3>4. written_map[PageOf(i)] => written_map'[PageOf(i)]
      BY <1>1, <2>0
    <3> QED  BY <1>11, <3>2, <3>3, <3>4
  <2> QED  BY <2>1, <2>2
<1>19. SavedRight'
  <2>1. kept' \subseteq kept /\ kept' \subseteq mine' /\ \A i \in kept' : remote[i] = "user" => remote'[i] = "user"
    BY <1>1 DEF MirrorInv, MirrorTypes
  <2> QED  BY <1>1, <1>9, <1>17, <1>18, <2>1, SavedFollows DEF names
<1>20. MirrorTypes'
  <2>1. mapping' \in [Bytes -> Origins] /\ written_map' \in [Pages -> BOOLEAN]
    BY <1>1, <1>6 DEF Origins
  <2>2. mine' \subseteq Bytes /\ kept' \subseteq mine' /\ mine' \cap unsure' = {}
    BY <1>1, <1>3, <1>6 DEF MirrorInv, MirrorTypes
  <2> QED  BY <1>1, <1>9, <2>1, <2>2, NamesKept DEF MirrorInv, MirrorTypes
<1>21. CommitKeepsTheRest'
  <2>1. mine \cup unsure \subseteq mine' \cup unsure'
    BY <1>1
  <2> QED  BY <1>1, <2>1 DEF MirrorInv, CommitKeepsTheRest
<1>22. ServedSoFar'
  BY <1>1 DEF ServedSoFar
<1> QED  BY <1>17, <1>18, <1>19, <1>20, <1>21, <1>22 DEF MirrorInv, OpenRight

\* A write that fails leaves its bytes, valid or not.
LEMMA WriteFailsStep ==
    ASSUME MirrorInv, NEW off \in 0..blob_size, NEW size \in 0..blob_size, WriteFails(off, size)
    PROVE  MirrorInv'
<1> DEFINE R == Range(off, off + size)
<1>1. /\ opened /\ ~reading.active
      /\ mapping' = [i \in Bytes |-> IF i \in R THEN "user" ELSE mapping[i]]
      /\ unsure' = unsure \cup (R \ mine) /\ mine' = mine /\ kept' = kept
      /\ chunk_map' = chunk_map /\ written_map' = written_map
      /\ opened' = opened /\ idx' = idx /\ UNCHANGED names /\ reading' = reading
      /\ remote' = remote /\ source' = source /\ ragged' = ragged
  BY DEF WriteFails, Filled
<1> HIDE DEF R
<1>2. chunk_map \in Chunks /\ mapping \in [Bytes -> Origins] /\ mine \subseteq Bytes /\ mine \cap unsure = {}
  BY DEF MirrorInv, MirrorTypes
<1>3. Right(chunk_map) /\ Kept(chunk_map, written_map)
  BY <1>1 DEF MirrorInv, OpenRight
<1>4. Right(chunk_map)'
  <2> SUFFICES ASSUME NEW i \in Prefix(chunk_map)
               PROVE  mapping'[i] # "none" /\ (i \notin mine' \cup unsure' => mapping'[i] = "blob")
    BY <1>1 DEF Right
  <2>1. i \in Bytes
    BY DEF Prefix
  <2> QED  BY <1>1, <1>3, <2>1 DEF Right
<1>5. Kept(chunk_map, written_map)'
  BY <1>1, <1>2, <1>3 DEF Kept
<1>6. \A q \in Pages : chunk_map[q] <= chunk_map'[q]
  BY <1>1, <1>2, MirrorAssumption DEF Chunks
<1>7. SavedRight'
  <2>1. kept' \subseteq kept /\ kept' \subseteq mine' /\ \A i \in kept' : remote[i] = "user" => remote'[i] = "user"
    BY <1>1 DEF MirrorInv, MirrorTypes
  <2> QED  BY <1>1, <1>2, <1>4, <1>5, <1>6, <2>1, SavedFollows DEF names
<1>8. MirrorTypes'
  BY <1>1, <1>2, NamesKept DEF MirrorInv, MirrorTypes, Origins
<1>9. CommitKeepsTheRest' /\ ServedSoFar'
  BY <1>1 DEF MirrorInv, CommitKeepsTheRest, ServedSoFar
<1> QED  BY <1>4, <1>5, <1>7, <1>8, <1>9 DEF MirrorInv, OpenRight

-----------------------------------------------------------------------------
(* commit *)

\* The runs that are written back leave the marks of the others, and write
\* what is valid unless the end of a page is not.
LEMMA CommittedStep ==
    ASSUME MirrorInv, opened, NEW stop \in 0..PageCount, Committed(stop),
           mapping' = mapping, chunk_map' = chunk_map, mine' = mine, unsure' = unsure
    PROVE  /\ Right(chunk_map)' /\ Kept(chunk_map, written_map)' /\ CommitKeepsTheRest'
           /\ remote' \in [Bytes -> Origins] /\ written_map' \in [Pages -> BOOLEAN]
<1>1. /\ remote' = [i \in Bytes |-> IF PageOf(i) \in WrittenBack(stop) THEN mapping[i] ELSE remote[i]]
      /\ written_map' = [p \in Pages |-> p \in StillWritten(stop)]
      /\ ragged' = ragged \cup {p \in Pages : p < stop /\ written_map[p] /\ chunk_map[p] < page_size}
  BY DEF Committed
<1>2. /\ mapping \in [Bytes -> Origins] /\ remote \in [Bytes -> Origins] /\ chunk_map \in Chunks
      /\ mine \subseteq Bytes
  BY DEF MirrorInv, MirrorTypes
<1>3. Right(chunk_map) /\ Kept(chunk_map, written_map)
  BY DEF MirrorInv, OpenRight
<1>4. Right(chunk_map)'
  BY <1>3 DEF Right
<1>5. stop \in Nat
  BY MirrorAssumption
<1>6. ASSUME NEW i \in mine
      PROVE  /\ i \in Prefix(chunk_map) /\ mapping[i] = "user"
             /\ written_map'[PageOf(i)] \/ remote'[i] = "user"
  <2>1. i \in Bytes /\ PageOf(i) \in Pages /\ PageOf(i) \in Nat
    BY <1>2, PageFacts
  <2>2. /\ i \in Prefix(chunk_map) /\ mapping[i] = "user"
        /\ written_map[PageOf(i)] \/ remote[i] = "user"
    BY <1>3 DEF Kept
  <2>3. CASE PageOf(i) \in WrittenBack(stop)
    BY <1>1, <2>1, <2>2, <2>3
  <2>4. CASE PageOf(i) \notin WrittenBack(stop)
    <3>1. remote'[i] = remote[i]
      BY <1>1, <2>1, <2>4
    <3>2. written_map[PageOf(i)] => PageOf(i) >= stop
      BY <1>5, <2>1, <2>4 DEF WrittenBack
    <3>3. written_map[PageOf(i)] => written_map'[PageOf(i)]
      BY <1>1, <2>1, <3>2 DEF StillWritten
    <3> QED  BY <2>2, <3>1, <3>3
  <2> QED  BY <2>3, <2>4
<1>7. Kept(chunk_map, written_map)'
  BY <1>6 DEF Kept
<1>8. CommitKeepsTheRest'
  <2> SUFFICES ASSUME NEW i \in Bytes, PageOf(i) \notin ragged'
               PROVE  remote'[i] # "none" /\ (i \notin mine \cup unsure => remote'[i] = "blob")
    BY DEF CommitKeepsTheRest
  <2>1. /\ i \in Nat /\ PageOf(i) \in Pages /\ PageOf(i) * page_size \in Nat
        /\ i < PageOf(i) * page_size + page_size
    BY PageFacts
  <2>2. CASE PageOf(i) \in WrittenBack(stop)
    <3>1. chunk_map[PageOf(i)] \in 0..page_size /\ page_size \in Nat
      BY <1>2, <2>1, MirrorAssumption DEF Chunks
    <3>2. ~(chunk_map[PageOf(i)] < page_size)
      BY <1>1, <2>1, <2>2 DEF WrittenBack
    <3>3. chunk_map[PageOf(i)] = page_size
      BY <3>1, <3>2
    <3>4. i \in Prefix(chunk_map)
      BY <1>2, <2>1, <3>3, InPrefix
    <3>5. remote'[i] = mapping[i]
      BY <1>1, <2>2
    <3> QED  BY <1>3, <3>4, <3>5 DEF Right
  <2>3. CASE PageOf(i) \notin WrittenBack(stop)
    <3>1. remote'[i] = remote[i] /\ PageOf(i) \notin ragged
      BY <1>1, <2>3
    <3> QED  BY <3>1 DEF MirrorInv, CommitKeepsTheRest
  <2> QED  BY <2>2, <2>3
<1>9. remote' \in [Bytes -> Origins] /\ written_map' \in [Pages -> BOOLEAN]
  BY <1>1, <1>2
<1> QED  BY <1>4, <1>7, <1>8, <1>9

\* A commit that stops at any page.
LEMMA CommitStep ==
    ASSUME MirrorInv, NEW stop \in 0..PageCount, Commit(stop)
    PROVE  MirrorInv'
<1>1. /\ opened /\ ~reading.active /\ Committed(stop)
      /\ source' = (IF file_name = "own" THEN remote' ELSE source)
      /\ opened' = opened /\ mapping' = mapping /\ chunk_map' = chunk_map /\ idx' = idx
      /\ UNCHANGED names /\ reading' = reading /\ mine' = mine /\ kept' = kept /\ unsure' = unsure
  BY DEF Commit
<1>2. /\ Right(chunk_map)' /\ Kept(chunk_map, written_map)' /\ CommitKeepsTheRest'
      /\ remote' \in [Bytes -> Origins] /\ written_map' \in [Pages -> BOOLEAN]
  BY <1>1, CommittedStep
<1>3. chunk_map \in Chunks /\ source' \in [Bytes -> Origins]
  BY <1>1, <1>2 DEF MirrorInv, MirrorTypes
<1>4. \A q \in Pages : chunk_map[q] <= chunk_map'[q]
  BY <1>1, <1>3, MirrorAssumption DEF Chunks
<1>5. SavedRight'
  <2>1. kept' \subseteq kept /\ kept' \subseteq mine' /\ kept \subseteq mine /\ mine \subseteq Bytes
    BY <1>1 DEF MirrorInv, MirrorTypes
  <2>2. \A i \in kept' : mapping[i] = "user"
    BY <1>1, <2>1 DEF MirrorInv, OpenRight, Kept
  <2>3. \A i \in kept' : remote[i] = "user" => remote'[i] = "user"
    BY <1>1, <2>1, <2>2 DEF Committed
  <2> QED  BY <1>1, <1>2, <1>3, <1>4, <2>1, <2>3, SavedFollows DEF names
<1>6. MirrorTypes'
  BY <1>1, <1>2, <1>3, NamesKept DEF MirrorInv, MirrorTypes
<1>7. ServedSoFar'
  BY <1>1 DEF ServedSoFar
<1> QED  BY <1>2, <1>5, <1>6, <1>7 DEF MirrorInv, OpenRight

\* A commit to a clone, which starts with the data of its source.
LEMMA CloneAndCommitStep ==
    ASSUME MirrorInv, NEW stop \in 0..PageCount, CloneAndCommit(stop)
    PROVE  MirrorInv'
<1>1. /\ opened /\ ~reading.active /\ Committed(stop)
      /\ local_name' = "clone" /\ file_name' = "clone" /\ idx' = NoIndex /\ kept' = {}
      /\ opened' = opened /\ mapping' = mapping /\ chunk_map' = chunk_map
      /\ source' = source /\ reading' = reading /\ mine' = mine /\ unsure' = unsure
  BY DEF CloneAndCommit
<1>2. /\ Right(chunk_map)' /\ Kept(chunk_map, written_map)' /\ CommitKeepsTheRest'
      /\ remote' \in [Bytes -> Origins] /\ written_map' \in [Pages -> BOOLEAN]
  BY <1>1, CommittedStep
<1>3. MirrorTypes'
  BY <1>1, <1>2 DEF MirrorInv, MirrorTypes
<1>4. SavedRight'
  BY <1>1 DEF SavedRight, IndexKeeps, NoIndex
<1>5. ServedSoFar'
  BY <1>1 DEF ServedSoFar
<1> QED  BY <1>2, <1>3, <1>4, <1>5 DEF MirrorInv, OpenRight

\* The clone exists but the file could not be renamed to it.
LEMMA RenameFailsStep ==
    ASSUME MirrorInv, RenameFails
    PROVE  MirrorInv'
<1>1. /\ ~reading.active /\ local_name = "own" /\ local_name' = "clone" /\ reading' = reading
      /\ UNCHANGED <<opened, mirrorVars, idx, file_name, remote, source, mine, kept, unsure, ragged>>
  BY DEF RenameFails, history
<1>2. file_name' \in {"own", local_name'}
  BY <1>1 DEF MirrorInv, MirrorTypes
<1>3. reading = NotReading \/ (reading \in Progress /\ opened)
  BY DEF MirrorInv, MirrorTypes
<1>4. ServedSoFar'
  BY <1>1 DEF ServedSoFar
<1> QED  BY <1>1, <1>2, <1>3, <1>4, QuietStep

-----------------------------------------------------------------------------
(* The invariant holds, and what follows from it *)

\* The invariant holds of a file that was never opened.
LEMMA MirrorInitInv == Init => MirrorInv
<1> SUFFICES ASSUME Init PROVE MirrorInv
  OBVIOUS
<1>1. /\ opened = FALSE /\ mapping = [i \in Bytes |-> "none"] /\ chunk_map = [p \in Pages |-> 0]
      /\ written_map = [p \in Pages |-> FALSE] /\ idx = NoIndex /\ local_name = "own" /\ file_name = "own"
      /\ reading = NotReading /\ remote = [i \in Bytes |-> "blob"] /\ source = remote
      /\ mine = {} /\ kept = {} /\ unsure = {}
  BY DEF Init
<1>2. MirrorTypes
  BY <1>1, FreshPrefix DEF MirrorTypes, Origins
<1> QED  BY <1>1, <1>2 DEF MirrorInv, OpenRight, SavedRight, IndexKeeps, ServedSoFar, CommitKeepsTheRest,
                        NoIndex, NotReading

\* Every call on the file, and a crash, preserves it.
LEMMA MirrorNextInv == MirrorInv /\ [Next]_vars => MirrorInv'
<1> SUFFICES ASSUME MirrorInv, [Next]_vars PROVE MirrorInv'
  OBVIOUS
<1>1. CASE Open  BY <1>1, OpenStep
<1>2. CASE Close  BY <1>2, CloseStep
<1>3. CASE Crash  BY <1>3, CrashStep
<1>4. CASE CloseClone  BY <1>4, CloseCloneStep
<1>5. ASSUME NEW off \in 0..blob_size, NEW size \in 0..blob_size, ReadBegins(off, size)
      PROVE  MirrorInv'
  BY <1>5, ReadBeginsStep
<1>11. ASSUME NEW off \in 0..blob_size, NEW size \in WriteSizes, Write(off, size) \/ WriteFails(off, size)
       PROVE  MirrorInv'
  <2>1. off \in Nat /\ size \in Nat /\ blob_size \in Nat
    BY MirrorAssumption DEF blob_size
  <2>2. size \in 0..blob_size
    BY <1>11, <2>1 DEF Write, WriteFails
  <2> QED  BY <1>11, <2>2, WriteStep, WriteFailsStep
<1>6. CASE ReadPage  BY <1>6, ReadHasPage, ReadFetches
<1>7. CASE ReadFails \/ ReadReturns  BY <1>7, ReadEnds
<1>8. ASSUME NEW stop \in 0..PageCount, Commit(stop) \/ CloneAndCommit(stop)
      PROVE  MirrorInv'
  BY <1>8, CommitStep, CloneAndCommitStep
<1>9. CASE RenameFails  BY <1>9, RenameFailsStep
<1>10. CASE UNCHANGED vars
  <2>1. /\ reading' = reading /\ UNCHANGED names
        /\ UNCHANGED <<opened, mirrorVars, idx, file_name, remote, source, mine, kept, unsure, ragged>>
    BY <1>10 DEF vars, history, names
  <2>2. reading = NotReading \/ (reading \in Progress /\ opened)
    BY DEF MirrorInv, MirrorTypes
  <2>3. ServedSoFar'
    BY <2>1 DEF MirrorInv, ServedSoFar, mirrorVars
  <2> QED  BY <2>1, <2>2, <2>3, NamesKept, QuietStep
<1> QED  BY <1>1, <1>2, <1>3, <1>4, <1>5, <1>6, <1>7, <1>8, <1>9, <1>10, <1>11 DEF Next

\* The valid part of the file is right at all times (read, write, the index).
THEOREM ValidPartRight == Spec => []ValidPrefixRight
<1>1. MirrorInv => ValidPrefixRight
  <2> SUFFICES ASSUME MirrorInv PROVE ValidPrefixRight
    OBVIOUS
  <2>1. MirrorTypeOK
    <3>1. idx.saved => idx.chunk_map \in Chunks /\ idx.written_map \in [Pages -> BOOLEAN]
      <4>1. idx.saved => idx \in Index
        BY DEF MirrorInv, MirrorTypes, NoIndex, CutIndex
      <4> QED  BY <4>1 DEF Index
    <3>2. reading.active => reading.index \in 0..PageCount /\ reading.end \in 1..blob_size
      <4>1. reading.active => reading \in Progress
        BY DEF MirrorInv, MirrorTypes, NotReading
      <4> QED  BY <4>1 DEF Progress
    <3> QED  BY <3>1, <3>2 DEF MirrorInv, MirrorTypes, MirrorTypeOK, Chunks
  <2>2. ASSUME opened, NEW i \in Bytes, Valid(i)
        PROVE  /\ i \in mine => mapping[i] = "user"
               /\ i \notin mine \cup unsure => mapping[i] = "blob"
               /\ mapping[i] # "none"
    <3>1. i \in Prefix(chunk_map)
      BY <2>2 DEF Valid, Prefix
    <3> QED  BY <2>2, <3>1 DEF MirrorInv, OpenRight, Right, Kept
  <2> QED  BY <2>1, <2>2 DEF ValidPrefixRight
<1> QED  BY <1>1, MirrorInitInv, MirrorNextInv, PTL DEF Spec

\* A read returns bytes of the valid part only.
THEOREM ReadsAlwaysServeValid == Spec => []ReadsServeValid
<1>1. MirrorInv => ReadsServeValid
  <2> SUFFICES ASSUME MirrorInv, reading.active, reading.index * page_size >= reading.end,
                      NEW i \in Range(reading.first * page_size, reading.end)
               PROVE  Valid(i)
    BY DEF ReadsServeValid
  <2>1. reading \in Progress
    BY DEF MirrorInv, MirrorTypes, NotReading
  <2>2. /\ reading.index \in Nat /\ reading.end \in Nat /\ reading.end <= blob_size /\ blob_size \in Nat
        /\ reading.first \in Nat
    BY <2>1, MirrorAssumption DEF Progress, blob_size
  <2>3. reading.first * page_size \in Nat /\ reading.index * page_size \in Nat
    BY <2>2, PageOrder
  <2>4. i \in Nat /\ reading.first * page_size <= i /\ i < reading.end /\ i < reading.index * page_size
    BY <2>2, <2>3 DEF Range
  <2>5. i \in Bytes
    BY <2>2, <2>4 DEF Bytes
  <2>6. PageOf(i) < reading.index
    BY <2>2, <2>4, <2>5, PageBefore
  <2>7. i \in Prefix(chunk_map)
    BY <2>4, <2>5, <2>6 DEF MirrorInv, ServedSoFar
  <2> QED  BY <2>7 DEF Prefix, Valid
<1> QED  BY <1>1, MirrorInitInv, MirrorNextInv, PTL DEF Spec

\* What the user wrote is in the blob or will be written by the next commit;
\* after a crash this is so of what the index that was saved last knows of.
THEOREM UserBytesNeverForgotten == Spec => []UserBytesCommitted
<1>1. MirrorInv => UserBytesCommitted
  <2> SUFFICES ASSUME MirrorInv, NEW i \in mine
               PROVE  Marked(PageOf(i)) \/ remote[i] = "user"
    BY DEF UserBytesCommitted
  <2>1. CASE opened
    BY <2>1 DEF MirrorInv, OpenRight, Kept, Marked
  <2>2. CASE ~opened
    BY <2>2 DEF MirrorInv, SavedRight, IndexKeeps, Marked
  <2> QED  BY <2>1, <2>2
<1> QED  BY <1>1, MirrorInitInv, MirrorNextInv, PTL DEF Spec

\* A commit changes nothing but what the user wrote, on pages valid to the end.
THEOREM CommitsKeepTheRest == Spec => []CommitKeepsTheRest
<1>1. MirrorInv => CommitKeepsTheRest
  BY DEF MirrorInv
<1> QED  BY <1>1, MirrorInitInv, MirrorNextInv, PTL DEF Spec

=============================================================================
