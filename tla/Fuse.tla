-------------------------------- MODULE Fuse --------------------------------
(***************************************************************************)
(* The blob-fuse daemon (bindings/blob-fuse/low_level_ops.cpp with         *)
(* object_pool.hpp): files named by blob and version, served with client   *)
(* sessions from a pool, while other clients write.  fuse_session_loop     *)
(* serves one request at a time; a request that needs two calls of the     *)
(* version manager takes two steps.  What a file's mirror does with the    *)
(* bytes is the subject of LocalMirror.                                    *)
(***************************************************************************)
EXTENDS ObjectHandler

CONSTANTS
    Pool,           \* the sessions of the daemon, among the Handlers
    None            \* no request

VARIABLES
    object_map,     \* session of the pool -> is it marked as taken?
    request,        \* the request between its two calls, or None
    files,          \* open files: inode and session
    terminated      \* has an exception left the session loop?

fuseVars == <<object_map, request, files, terminated>>

FuseInit ==
    /\ SessionInit
    /\ object_map = [h \in Pool |-> FALSE]
    /\ request = None
    /\ files = {}
    /\ terminated = FALSE

Inodes == [blob : 1..MaxBlobs, version : 0..MaxTickets]

Serving == request = None /\ ~terminated

\* acquire: the first session in the map that is not marked, which it does
\* not mark.
Acquires(h) ==
    /\ h = CHOOSE g \in Pool : ~object_map[g]
    /\ UNCHANGED object_map

Releases(h) == object_map' = [object_map EXCEPT ![h] = FALSE]

\* blob_stat, for getattr, lookup and readdir, and open, up to get_latest.
\* A directory, version 0, needs no more than that; it cannot be opened.
Begin(kind, ino, h) ==
    /\ Serving
    /\ ino.version = 0 => kind = "stat"
    /\ Acquires(h)
    /\ GetLatest(h, ino.blob)
    /\ request' = IF ino.version = 0 THEN None ELSE [kind |-> kind, ino |-> ino, h |-> h]
    /\ UNCHANGED <<files, terminated>>

\* get_latest fails: ENOENT or EIO.
BeginFails(ino, h) ==
    /\ Serving
    /\ Acquires(h)
    /\ GetLatestFails(h, ino.blob)
    /\ UNCHANGED <<request, files, terminated>>

\* get_size(version): a call only if the session has not cached the version.
GetSize(h, version) ==
    IF version \in DOMAIN version_cache[h] THEN UNCHANGED <<vars, sessionVars>> ELSE LookUp(h, version)

\* The rest of blob_stat.
FinishStat ==
    /\ request # None /\ request.kind = "stat"
    /\ GetSize(request.h, request.ino.version)
    /\ request' = None
    /\ Releases(request.h)
    /\ UNCHANGED <<files, terminated>>

\* The rest of open: the mirror of the file keeps the session until release.
\* An empty file cannot be mapped (EIO), and a blob that does not exist has
\* page size 0, by which the constructor of the mirror divides.
FinishOpen ==
    /\ request # None /\ request.kind = "open"
    /\ GetSize(request.h, request.ino.version)
    /\ request' = None
    /\ LET opened == RootFor(request.h, request.ino.version).current_size > 0
       IN  /\ files' = files \cup {[ino |-> r.ino, h |-> r.h] : r \in {r \in {request} : opened}}
           /\ IF opened THEN UNCHANGED object_map ELSE Releases(request.h)
    /\ terminated' = (latest_root[request.h].page_size = 0)

\* A read or write of a file that makes its mirror fetch from the blob:
\* object_handler::read throws if the version it finds is below the one
\* asked for, and nobody catches that.
Fetch(f) ==
    /\ Serving /\ f \in files
    /\ GetSize(f.h, f.ino.version)
    /\ terminated' = (RootFor(f.h, f.ino.version).version < f.ino.version)
    /\ UNCHANGED <<object_map, request, files>>

Release(f) ==
    /\ Serving /\ f \in files
    /\ files' = files \ {f}
    /\ Releases(f.h)
    /\ UNCHANGED <<vars, sessionVars, request, terminated>>

FuseNext ==
    \/ \E h \in Handlers \ Pool : HandlerNext(h) /\ UNCHANGED fuseVars
    \/ \E h \in Pool, ino \in Inodes :
          (\E kind \in {"stat", "open"} : Begin(kind, ino, h)) \/ BeginFails(ino, h)
    \/ FinishStat \/ FinishOpen
    \/ \E f \in files : Fetch(f) \/ Release(f)

FuseSpec == FuseInit /\ [][FuseNext]_<<vars, sessionVars, fuseVars>>

\* A file shows the version of the blob that its inode names ("Inodes are of
\* the form: |...blob_id...|...version...|", low_level_ops.cpp:4): the root
\* its session would read is that version, once it is published, for blobs
\* that are not clones.
FileShowsItsVersion ==
    \A f \in files : f.ino.blob \in Blobs =>
        LET roots == obj_hash[f.ino.blob].roots
        IN  (roots[1].id = f.ino.blob /\ f.ino.version < Len(roots)) =>
                RootFor(f.h, f.ino.version) = roots[f.ino.version + 1]
=============================================================================
