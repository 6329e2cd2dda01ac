---------------------------- MODULE VersionedBlob ----------------------------
(***************************************************************************)
(* What BlobSeer promises: a blob is a sequence of snapshots, and snapshot *)
(* v is snapshot v - 1 with the v-th write applied, where writes are       *)
(* numbered in the order their tickets were given.  A snapshot appears     *)
(* once its write and all the earlier ones are complete, and never         *)
(* changes.  A clone starts from a snapshot of its source, which keeps the *)
(* name it was published under: the blob and the version.                  *)
(***************************************************************************)
EXTENDS Integers, Sequences

CONSTANTS
    Pages,               \* page numbers
    Hole,                \* what a page holds that nobody wrote
    Data(_, _, _)        \* Data(id, v, i): the i-th page of write v to blob id

VARIABLES
    snapshots,           \* blob id -> its published snapshots, oldest first
    pending              \* blob id -> the writes after them, in ticket order

vars == <<snapshots, pending>>

Blobs == DOMAIN snapshots

Init ==
    /\ snapshots = << >>
    /\ pending = << >>

\* A snapshot after one more write, the v-th to blob id.
Apply(snapshot, id, v, w) ==
    [id |-> id, version |-> v,
     pages |-> [p \in Pages |-> IF p >= w.offset /\ p < w.offset + w.size
                                THEN Data(id, v, p - w.offset)
                                ELSE snapshot.pages[p]]]

NewBlob(snapshot) ==
    /\ pending' = Append(pending, << >>)
    /\ snapshots' = Append(snapshots, <<snapshot>>)

Create == NewBlob([id |-> Len(snapshots) + 1, version |-> 0, pages |-> [p \in Pages |-> Hole]])

\* Version 0 asks for the latest snapshot, so the first one is cloned only
\* while it is the latest.
Clone ==
    \E id \in Blobs : \E k \in DOMAIN snapshots[id] :
        /\ k > 1 \/ k = Len(snapshots[id])
        /\ NewBlob(snapshots[id][k])

\* A write takes its place behind all the others.
Begin ==
    \E id \in Blobs :
        /\ Len(pending'[id]) = Len(pending[id]) + 1
        /\ \E first \in Pages, last \in Pages :
              /\ first <= last
              /\ pending' = [pending EXCEPT ![id] =
                                Append(@, [offset |-> first, size |-> last - first + 1, done |-> FALSE])]
        /\ UNCHANGED snapshots

\* The snapshots n further writes lead to, one after the other.
Extended(id, n) ==
    LET base == Len(snapshots[id])
        snapshot[k \in 1..(base + n)] ==
            IF k <= base THEN snapshots[id][k]
            ELSE Apply(snapshot[k - 1], id, k - 1, pending[id][k - base])
    IN  snapshot

\* A write completes: it and the complete ones behind it are published,
\* unless an earlier one is still incomplete.
Complete ==
    \E id \in Blobs : \E i \in DOMAIN pending[id] :
        LET marked == [pending[id] EXCEPT ![i].done = TRUE]
        IN  \E n \in 0..Len(marked) :
               /\ \A j \in 1..n : marked[j].done
               /\ n < Len(marked) => ~marked[n + 1].done
               /\ pending' = [pending EXCEPT ![id] = SubSeq(marked, n + 1, Len(marked))]
               /\ snapshots' = [snapshots EXCEPT ![id] = Extended(id, n)]

Next == Create \/ Clone \/ Begin \/ Complete

Spec == Init /\ [][Next]_vars
=============================================================================
