----------------------------- MODULE LocalMirror -----------------------------
(***************************************************************************)
(* The local mirror of an open file of blob-fuse                           *)
(* (bindings/blob-fuse/local_mirror.hpp): a mapped file in /tmp that holds *)
(* a prefix of every page, fetched from the blob as it is needed or        *)
(* written by the user, and an index of these prefixes that is saved when  *)
(* the file is closed.  The daemon serves one request at a time, and the   *)
(* file is open once.                                                      *)
(*                                                                         *)
(* Every copy keeps a byte's position, so a byte is known by where it      *)
(* comes from: "blob", the version the file shows; "user", a write through *)
(* the file; "none", the fresh temporary file.                             *)
(***************************************************************************)
EXTENDS Integers, FiniteSets

CONSTANTS
    PageCount,      \* pages of the version the file shows
    page_size,
    WriteSizes,     \* bound: how many bytes the user writes at once
    MaxWrites,      \* bound: writes of the user
    MaxOpens        \* bound: mirrors of the file, one after the other

ASSUME MirrorAssumption ==
    /\ PageCount \in Nat \ {0} /\ page_size \in Nat \ {0}
    /\ WriteSizes \subseteq Nat /\ MaxWrites \in Nat /\ MaxOpens \in Nat

VARIABLES
    opened,         \* is there a mirror?
    mapping,        \* the temporary file, byte by byte
    chunk_map,      \* page -> length of the prefix that is valid
    written_map,    \* page -> has it been written since the last commit?
    idx,            \* the saved maps, if there are any
    local_name,     \* the name the mirror takes its file to have: "own" or "clone"
    file_name,      \* the name it has
    reading,        \* read in its loop: the range and the page it has come to
    remote,         \* what the handler's blob holds
    source,         \* what the blob the file belongs to holds
    writes, opens,  \* writes of the user and mirrors so far
    mine,           \* history: bytes the user wrote, and no crash took from the index
    kept,           \* history: those of them the saved index knows of as they are now
    unsure,         \* history: bytes of writes that failed or that a crash took
    ragged          \* history: pages committed with an invalid end

mirrorVars == <<mapping, chunk_map, written_map>>
history == <<writes, mine, kept, unsure, ragged>>
names == <<local_name, file_name>>
vars == <<opened, opens, mirrorVars, idx, names, reading, remote, source, history>>

blob_size == PageCount * page_size
Pages == 0..(PageCount - 1)
Bytes == 0..(blob_size - 1)
Range(from, to) == from..(to - 1)
PageOf(i) == i \div page_size
NoIndex == [saved |-> FALSE]
CutIndex == [saved |-> FALSE, cut |-> TRUE]
NotReading == [active |-> FALSE]
Smaller(a, b) == IF a < b THEN a ELSE b

Init ==
    /\ opened = FALSE
    /\ mapping = [i \in Bytes |-> "none"]
    /\ chunk_map = [p \in Pages |-> 0]
    /\ written_map = [p \in Pages |-> FALSE]
    /\ idx = NoIndex
    /\ local_name = "own" /\ file_name = "own"
    /\ reading = NotReading
    /\ remote = [i \in Bytes |-> "blob"]
    /\ source = remote
    /\ writes = 0 /\ opens = 0 /\ mine = {} /\ kept = {} /\ unsure = {} /\ ragged = {}

\* The mapping once the bytes of S hold what comes from origin.
Filled(S, origin) == [i \in Bytes |-> IF i \in S THEN origin ELSE mapping[i]]

-----------------------------------------------------------------------------
(* Opening and closing *)

\* The constructor.  Without an index nothing in the file is valid; one that
\* was cut off makes it throw, and blob_ll_open refuse the file.
Open ==
    /\ ~opened /\ idx # CutIndex
    /\ opened' = TRUE
    /\ opens < MaxOpens /\ opens' = opens + 1
    /\ chunk_map' = IF idx.saved THEN idx.chunk_map ELSE [p \in Pages |-> 0]
    /\ written_map' = IF idx.saved THEN idx.written_map ELSE [p \in Pages |-> FALSE]
    /\ UNCHANGED <<mapping, idx, names, reading, remote, source, history>>

\* Mutant: written_map is not part of the index.
Saved_NoWritten(chunks, written) ==
    [saved |-> TRUE, chunk_map |-> chunks, written_map |-> [p \in Pages |-> FALSE]]

Saved(chunks, written) == [saved |-> TRUE, chunk_map |-> chunks, written_map |-> written]

\* The mirror ends, and its maps with it, and leaves an index that knows of
\* the user's bytes of S: the others may still be in the file or not.
Ends(S) ==
    /\ opened' = FALSE
    /\ chunk_map' = [p \in Pages |-> 0] /\ written_map' = [p \in Pages |-> FALSE]
    /\ local_name' = "own"
    /\ mine' = S /\ kept' = S /\ unsure' = unsure \cup (mine \ S)

\* The destructor saves the index next to local_name.  The next mirror finds
\* the older index instead, if there is one, when that is not the name of the
\* file or the index could not be opened, and one that is cut off when it
\* could not be written after it was truncated.
Close ==
    /\ opened /\ ~reading.active /\ file_name = "own"
    /\ \/ local_name = "own" /\ idx' = Saved(chunk_map, written_map) /\ Ends(mine)
       \/ local_name = "own" /\ idx' = CutIndex /\ Ends({})
       \/ UNCHANGED idx /\ Ends(kept)
    /\ UNCHANGED <<opens, mapping, file_name, reading, remote, source, writes, ragged>>

\* The daemon is killed: the file stays, its index is the one saved last.
Crash ==
    /\ opened /\ file_name = "own"
    /\ reading' = NotReading
    /\ Ends(kept)
    /\ UNCHANGED <<opens, mapping, idx, file_name, remote, source, writes, ragged>>

\* The end of a mirror whose file went to the clone: the next one of this
\* file starts from nothing.
CloseClone ==
    /\ opened /\ file_name = "clone"
    /\ opened' = FALSE
    /\ local_name' = "own" /\ file_name' = "own"
    /\ reading' = NotReading
    /\ mapping' = [i \in Bytes |-> "none"]
    /\ remote' = source
    /\ mine' = {}
    /\ unsure' = {i \in Bytes : source[i] # "blob"}
    /\ ragged' = {PageOf(i) : i \in {i \in Bytes : source[i] = "none"}}
    /\ UNCHANGED <<opens, chunk_map, written_map, idx, source, writes, kept>>

-----------------------------------------------------------------------------
(* read *)

ReadBegins(off, size) ==
    /\ opened /\ ~reading.active
    /\ size > 0 /\ off + size <= blob_size       \* what is left after its cuts
    /\ reading' = [active |-> TRUE, index |-> PageOf(off), first |-> PageOf(off), end |-> off + size]
    /\ UNCHANGED <<opened, opens, mirrorVars, idx, names, remote, source, history>>

\* Mutant: a page counts as present if it is not empty.
Missing_Empty(p, end) == chunk_map[p] = 0

Missing(p, end) == chunk_map[p] < Smaller(page_size, end - p * page_size)

\* Where the remote request for the rest of page p stops: it goes on over
\* the pages behind it as long as they are needed and empty.
FetchStops(p, end, next) ==
    /\ next * page_size < end => chunk_map[next] # 0
    /\ \A q \in (p + 1)..(next - 1) : q * page_size < end /\ chunk_map[q] = 0

\* One pass of the loop: the page is there, or it is fetched with what
\* follows it.
ReadPage ==
    /\ reading.active /\ reading.index * page_size < reading.end
    /\ LET p == reading.index
       IN  IF Missing(p, reading.end)
           THEN \E next \in (p + 1)..PageCount :
                   /\ FetchStops(p, reading.end, next)
                   /\ mapping' = Filled(Range(p * page_size + chunk_map[p], next * page_size), "blob")
                   /\ chunk_map' = [q \in Pages |-> IF q \in p..(next - 1) THEN page_size ELSE chunk_map[q]]
                   /\ reading' = [reading EXCEPT !.index = next]
           ELSE /\ reading' = [reading EXCEPT !.index = p + 1]
                /\ UNCHANGED <<mapping, chunk_map>>
    /\ UNCHANGED <<opened, opens, written_map, idx, names, remote, source, history>>

\* The remote request fails: read returns 0.
ReadFails ==
    /\ reading.active /\ reading.index * page_size < reading.end
    /\ Missing(reading.index, reading.end)
    /\ reading' = NotReading
    /\ UNCHANGED <<opened, opens, mirrorVars, idx, names, remote, source, history>>

ReadReturns ==
    /\ reading.active /\ reading.index * page_size >= reading.end
    /\ reading' = NotReading
    /\ UNCHANGED <<opened, opens, mirrorVars, idx, names, remote, source, history>>

-----------------------------------------------------------------------------
(* write *)

\* Mutant: the gap before the write is not fetched.
Gap_None(off) == {}

\* The bytes between the valid prefix of the first page and the write.
Gap(off) == Range(PageOf(off) * page_size + chunk_map[PageOf(off)], off)

\* How far into page p a write that ends at end reaches.
Reach(p, end) == Smaller(page_size, end - p * page_size)

\* The user's bytes are copied first; then the gap is fetched.
Write(off, size) ==
    /\ opened /\ ~reading.active
    /\ size > 0 /\ off + size <= blob_size
    /\ writes < MaxWrites /\ writes' = writes + 1
    /\ mapping' = [i \in Bytes |-> IF i \in Range(off, off + size) THEN "user"
                                   ELSE IF i \in Gap(off) THEN "blob" ELSE mapping[i]]
    /\ LET end == off + size
           touched == {p \in Pages : p >= PageOf(off) /\ p * page_size < end}
       IN  /\ chunk_map' = [p \in Pages |-> IF p \in touched /\ chunk_map[p] < Reach(p, end)
                                            THEN Reach(p, end) ELSE chunk_map[p]]
           /\ written_map' = [p \in Pages |-> p \in touched \/ written_map[p]]
    /\ mine' = mine \cup Range(off, off + size)
    /\ kept' = kept \ Range(off, off + size)
    /\ unsure' = unsure \ Range(off, off + size)
    /\ UNCHANGED <<opened, opens, idx, names, reading, remote, source, ragged>>

\* The gap cannot be fetched: write returns 0 with its bytes in the file.
WriteFails(off, size) ==
    /\ opened /\ ~reading.active
    /\ size > 0 /\ off + size <= blob_size
    /\ writes < MaxWrites /\ writes' = writes + 1
    /\ Gap(off) # {}
    /\ mapping' = Filled(Range(off, off + size), "user")
    /\ unsure' = unsure \cup (Range(off, off + size) \ mine)
    /\ UNCHANGED <<opened, opens, chunk_map, written_map, idx, names, reading, remote, source, mine, kept, ragged>>

-----------------------------------------------------------------------------
(* commit *)

\* Mutant: the marks of all pages are cleared when commit returns.
StillWritten_None(stop) == {}

\* The pages that stay marked when the run that starts at stop is not
\* written back.
StillWritten(stop) == {p \in Pages : written_map[p] /\ p >= stop}

\* Mutant: a request goes one page beyond its run.
WrittenBack_OneMore(stop) == {p \in Pages : p < stop /\ (written_map[p] \/ (p > 0 /\ written_map[p - 1]))}

\* The pages of the runs before stop.
WrittenBack(stop) == {p \in Pages : p < stop /\ written_map[p]}

\* The runs of written pages before stop are written to the blob, one request
\* for each: all of them, or those before the one whose request failed.
Committed(stop) ==
    /\ stop \in {PageCount} \cup {p \in Pages : written_map[p] /\ (p > 0 => ~written_map[p - 1])}
    /\ remote' = [i \in Bytes |-> IF PageOf(i) \in WrittenBack(stop) THEN mapping[i] ELSE remote[i]]
    /\ written_map' = [p \in Pages |-> p \in StillWritten(stop)]
    /\ ragged' = ragged \cup {p \in Pages : p < stop /\ written_map[p] /\ chunk_map[p] < page_size}

Commit(stop) ==
    /\ opened /\ ~reading.active
    /\ Committed(stop)
    /\ source' = IF file_name = "own" THEN remote' ELSE source
    /\ UNCHANGED <<opened, opens, mapping, chunk_map, idx, names, reading, writes, mine, kept, unsure>>

\* clone_and_commit: the session and the file belong to the clone from now
\* on, and the index of the original is removed.
CloneAndCommit(stop) ==
    /\ opened /\ ~reading.active /\ local_name = "own"
    /\ local_name' = "clone" /\ file_name' = "clone"
    /\ idx' = NoIndex /\ kept' = {}
    /\ Committed(stop)
    /\ UNCHANGED <<opened, opens, mapping, chunk_map, reading, source, writes, mine, unsure>>

\* The file cannot be renamed: the session goes back to its blob, local_name
\* does not.
RenameFails ==
    /\ opened /\ ~reading.active /\ local_name = "own"
    /\ local_name' = "clone"
    /\ UNCHANGED <<opened, opens, mirrorVars, idx, file_name, reading, remote, source, history>>

Next ==
    \/ Open \/ Close \/ Crash \/ CloseClone
    \/ \E off, size \in 0..blob_size : ReadBegins(off, size)
    \/ \E off \in 0..blob_size, size \in WriteSizes : Write(off, size) \/ WriteFails(off, size)
    \/ ReadPage \/ ReadFails \/ ReadReturns
    \/ \E stop \in 0..PageCount : Commit(stop) \/ CloneAndCommit(stop)
    \/ RenameFails

Spec == Init /\ [][Next]_vars

-----------------------------------------------------------------------------
(* Properties *)

Origins == {"none", "blob", "user"}

\* The maps have one entry per page, as long as a page at most, and a read
\* under way is within the file.
MirrorTypeOK ==
    /\ opened \in BOOLEAN
    /\ mapping \in [Bytes -> Origins] /\ remote \in [Bytes -> Origins] /\ source \in [Bytes -> Origins]
    /\ chunk_map \in [Pages -> 0..page_size]
    /\ written_map \in [Pages -> BOOLEAN]
    /\ idx.saved => idx.chunk_map \in [Pages -> 0..page_size] /\ idx.written_map \in [Pages -> BOOLEAN]
    /\ local_name \in {"own", "clone"} /\ file_name \in {"own", local_name}
    /\ reading.active => reading.index \in 0..PageCount /\ reading.end \in 1..blob_size
    /\ kept \subseteq mine /\ mine \cap unsure = {}

Valid(i) == i % page_size < chunk_map[PageOf(i)]

\* The maps have their types, and the valid part of the file holds the last
\* thing the user wrote, and the blob's own bytes where the user wrote nothing: no fetch overwrites a local
\* write, no byte of the fresh file passes for data, whichever fetches
\* failed, and whether the maps are this mirror's or were saved by an earlier
\* one (the fetches of read, the gap of write, the index).
ValidPrefixRight ==
    /\ MirrorTypeOK
    /\ opened => \A i \in Bytes : Valid(i) =>
          /\ i \in mine => mapping[i] = "user"
          /\ i \notin mine \cup unsure => mapping[i] = "blob"
          /\ mapping[i] # "none"

\* When read is about to return, its pages are valid up to the last byte asked for, although its
\* loop takes pages that are partly there, empty and complete in any order.
ReadsServeValid ==
    (reading.active /\ reading.index * page_size >= reading.end) =>
        \A i \in Range(reading.first * page_size, reading.end) : Valid(i)

\* Page p is marked as written, in the mirror or for the next one.
Marked(p) == IF opened THEN written_map[p] ELSE idx.saved /\ idx.written_map[p]

\* A byte the user wrote is either in the blob or on a page that the next
\* commit will write, after commits that failed halfway and across closing
\* and opening the file again (written_map and its place in the index).  A
\* crash, or a close that does not save the index, takes no more from the
\* next commit than what was written since the index was saved last; these
\* bytes the code does lose, and all of them when the index is cut off.
UserBytesCommitted ==
    \A i \in mine : Marked(PageOf(i)) \/ remote[i] = "user"

\* A commit changes nothing but what the user wrote, except on pages it
\* writes back while their end is not valid: these lose it.
CommitKeepsTheRest ==
    \A i \in Bytes : PageOf(i) \notin ragged =>
        remote[i] # "none" /\ (i \notin mine \cup unsure => remote[i] = "blob")
=============================================================================
