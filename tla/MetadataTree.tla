---------------------------- MODULE MetadataTree ----------------------------
(***************************************************************************)
(* The distributed segment tree that maps a version of a blob to its pages *)
(* (client/range_query.cpp).  Offsets and sizes are in pages: a write is   *)
(* page-aligned (exec_write's ASSERT) and max_size is a power of two times *)
(* the page size.  The DHT is a function from node keys to nodes.  A leaf  *)
(* points to the key of a page; the provider list the client stores under  *)
(* that key is not modelled.  The 32-bit random number that makes page     *)
(* keys unique is named after the ticket of the write.                     *)
(***************************************************************************)
EXTENDS Integers, FiniteSetsExt, Words

query_t == [id : Nat, version : Nat, offset : Nat, size : Nat]

\* query_t(), the empty query.
Empty == [id |-> 0, version |-> 0, offset |-> 0, size |-> 0]

Intersects(a, b) ==
    IF a.offset <= b.offset THEN b.offset < a.offset + a.size ELSE a.offset < b.offset + b.size

RootNode(root) == [id |-> root.id, version |-> root.version, offset |-> 0, size |-> root.size]

\* The node of a given size that holds a page, and the other child of its parent.
Aligned(page, size) == page - (page % size)

Brother(offset, size) == IF offset % (2 * size) = 0 THEN offset + size ELSE offset - size

\* Node sizes below root_size.
Levels(root_size) == {s \in Powers : s < root_size}

\* vmgr_reply::search_list
SearchList(siblings, offset, size) ==
    IF \E q \in siblings : q.offset = offset /\ q.size = size
    THEN CHOOSE q \in siblings : q.offset = offset /\ q.size = size
    ELSE Empty

\* siblings, and those of more that siblings has no node in the place of.
FillIn(siblings, more) ==
    siblings \cup {q \in more : SearchList(siblings, q.offset, q.size) = Empty}

-----------------------------------------------------------------------------
(* Writing.  w is what a writer knows once it has its ticket: its own range *)
(* (id, version, offset, size), the latest published root when the ticket   *)
(* was given, the tree's size, and the ranges in flight before its own.     *)

\* Mutant: the first write in flight that covers a brother is taken for its
\* creator, rather than the last.
ComputeSiblingVersions_First(w, edge) ==
    LET Place(s) == [offset |-> Brother(Aligned(edge, s), s), size |-> s]
        Creators(s) == {v \in DOMAIN w.intervals : Intersects(Place(s), w.intervals[v])}
    IN  {[id |-> w.id, version |-> Min(Creators(s)), offset |-> Place(s).offset, size |-> s] :
             s \in {s \in Levels(w.root_size) : Creators(s) # {}}}

\* compute_sibling_versions: the brothers on the way from an edge leaf to
\* the root that a write in flight will create, in its latest version.
ComputeSiblingVersions(w, edge) ==
    LET Place(s) == [offset |-> Brother(Aligned(edge, s), s), size |-> s]
        Creators(s) == {v \in DOMAIN w.intervals : Intersects(Place(s), w.intervals[v])}
    IN  {[id |-> w.id, version |-> Max(Creators(s)), offset |-> Place(s).offset, size |-> s] :
             s \in {s \in Levels(w.root_size) : Creators(s) # {}}}

\* The nodes on the way from a root to a page, as far as the DHT has them,
\* by size.
Path(dht, root, page) ==
    LET path[s \in Levels(root.size) \cup {root.size}] ==
            IF s = root.size THEN RootNode(root)
            ELSE LET parent == path[2 * s]
                 IN  IF parent \notin DOMAIN dht THEN Empty
                     ELSE IF page < parent.offset + s THEN dht[parent].left ELSE dht[parent].right
    IN  path

\* siblings_callback: the left (or right) brothers of the nodes on the way
\* from the stable root to a leaf.  A node that cannot be fetched ends the
\* walk, and nobody is told.
StableSiblings(dht, root, page, isLeft) ==
    LET path == Path(dht, root, page)
        Parents == {s \in Levels(root.size) : path[2 * s] \in DOMAIN dht}
        GoesLeft(s) == page < path[2 * s].offset + s
    IN  IF isLeft
        THEN {[dht[path[2 * s]].left EXCEPT !.offset = path[2 * s].offset, !.size = s] :
                  s \in {s \in Parents : ~GoesLeft(s)}}
        ELSE {[dht[path[2 * s]].right EXCEPT !.offset = path[2 * s].offset + s, !.size = s] :
                  s \in {s \in Parents : GoesLeft(s)}}

FirstLeaf(w) == [offset |-> w.offset, size |-> 1]

LastLeaf(w) == [offset |-> w.offset + w.size - 1, size |-> 1]

\* "fill in the left siblings from the stable version if we intersect the
\* stable root, or use it directly if not"
LeftSiblings(dht, w) ==
    FillIn(ComputeSiblingVersions(w, FirstLeaf(w).offset),
           IF Intersects(RootNode(w.stable), FirstLeaf(w))
           THEN StableSiblings(dht, w.stable, FirstLeaf(w).offset, TRUE)
           ELSE {RootNode(w.stable)})

\* "fill in the missing right siblings from the stable version"
RightSiblings(dht, w) ==
    FillIn(ComputeSiblingVersions(w, LastLeaf(w).offset),
           IF Intersects(RootNode(w.stable), LastLeaf(w))
           THEN StableSiblings(dht, w.stable, LastLeaf(w).offset, FALSE)
           ELSE {})

Written(w) == w.offset..(w.offset + w.size - 1)

OwnNode(w, offset, size) == [id |-> w.id, version |-> w.version, offset |-> offset, size |-> size]

PageKey(id, version, index) == [id |-> id, version |-> version, index |-> index]

\* The leaves writeRecordLocations puts first.
Leaves(w) ==
    [q \in {OwnNode(w, p, 1) : p \in Written(w)} |->
        [is_leaf |-> TRUE, left |-> PageKey(w.id, w.version, q.offset - w.offset), right |-> Empty]]

\* The nodes it puts next, bottom up: above every node it has written, up to
\* the root.  A child outside the written range is a sibling.
InnerNodes(w, left_siblings, right_siblings) ==
    LET Own == {OwnNode(w, Aligned(p, 2 * s), 2 * s) : p \in Written(w), s \in Levels(w.root_size)}
        Mine(offset, size) == Intersects([offset |-> offset, size |-> size], w)
        Child(offset, size, siblings) ==
            IF Mine(offset, size) THEN OwnNode(w, offset, size) ELSE SearchList(siblings, offset, size)
    IN  [q \in Own |->
            LET half == q.size \div 2
            IN  [is_leaf |-> FALSE,
                 left |-> Child(q.offset, half, left_siblings),
                 right |-> Child(q.offset + half, half, right_siblings)]]

-----------------------------------------------------------------------------
(* Reading. *)

Unreadable == PageKey(0, 0, 0)

\* readRecordLocations and read_callback for one page: the key of the page a
\* version holds there, if every node on the way is in the DHT.
ReadPage(dht, root, page) ==
    IF page >= root.size THEN Unreadable
    ELSE LET leaf == Path(dht, root, page)[1]
         IN  IF leaf \in DOMAIN dht THEN dht[leaf].left ELSE Unreadable
=============================================================================
