--------------------------- MODULE NativeObjects ----------------------------
(***************************************************************************)
(* Ownership of native objects by the .NET classes: NativeObject.Dispose   *)
(* and the finalizer, and the DisposeManagedResources and InternalClose of *)
(* DB, Iterator, Snapshot, Options, ReadOptions and Cache.                 *)
(*                                                                         *)
(* One database with the options it was opened with and one object set on  *)
(* those options (a Cache here; Comparator, FilterPolicy, Env and Logger   *)
(* are the same).  The managed heap is a record:                           *)
(*   native      per object: "none", "live" or "freed"                     *)
(*   handle      the objects whose NativeHandle is not zero                *)
(*   iterators, snapshots   the lists of the DB                            *)
(*   uses        per iterator: its ReadOptions                             *)
(*   twice       native objects destroyed more than once                   *)
(*   orphans     iterators and snapshots destroyed after the native DB     *)
(*   closing     how the DB was closed: NULL, "Dispose" or "finalizer"     *)
(***************************************************************************)
EXTENDS Integers, FiniteSetsExt

CONSTANTS Iterators, Snapshots, ReadOptions, NULL

VARIABLES heap,
          roots     \* the objects the application still refers to

vars == <<heap, roots>>

Objects == {"db", "options", "cache"} \cup Iterators \cup Snapshots \cup ReadOptions

Init ==
  /\ heap = [native |-> [o \in Objects |-> IF o = "options" THEN "live" ELSE "none"],
             handle |-> {"options"}, iterators |-> {}, snapshots |-> {},
             uses |-> [i \in Iterators |-> NULL], cached |-> FALSE,
             twice |-> {}, orphans |-> {}, closing |-> NULL]
  /\ roots = {"options"}
-----------------------------------------------------------------------------
(***************************************************************************)
(* The heap after a method.                                                *)
(***************************************************************************)
\* The destroy function of the C API.
Destroy(h, o) ==
  IF h.native[o] = "live" THEN [h EXCEPT !.native[o] = "freed"]
  ELSE [h EXCEPT !.twice = @ \cup {o}]

\* InternalClose, then NativeHandle = Zero.
InternalClose(h, o) ==
  LET d == Destroy(h, o) IN
  [d EXCEPT !.handle = @ \ {o}, !.iterators = @ \ {o}, !.snapshots = @ \ {o},
            !.orphans = IF o \in Iterators \cup Snapshots /\ h.native["db"] # "live"
                        THEN @ \cup {o} ELSE @]

\* A variant that does not look whether the object was disposed of before.
DisposeAgain(h, o) == InternalClose(h, o)

\* Dispose of an object without managed resources of its own.
DisposeLeaf(h, o) == IF o \in h.handle THEN InternalClose(h, o) ELSE h

DisposeIterator(h, i) ==
  IF i \in h.handle THEN InternalClose(DisposeLeaf(h, h.uses[i]), i) ELSE h

DisposeOptions(h) ==
  IF "options" \notin h.handle THEN h
  ELSE InternalClose(IF h.cached THEN DisposeLeaf(h, "cache") ELSE h, "options")

\* DB.DisposeManagedResources up to the options: every iterator and snapshot.
DisposeChildren(h) ==
  LET iterators == FoldSet(LAMBDA i, g : DisposeIterator(g, i), h, h.iterators)
  IN FoldSet(LAMBDA s, g : DisposeLeaf(g, s), iterators, h.snapshots)

DisposeDB(h) ==
  IF "db" \notin h.handle THEN h
  ELSE [InternalClose(DisposeOptions(DisposeChildren(h)), "db")
          EXCEPT !.closing = "Dispose"]

Dispose(h, o) ==
  CASE o = "db" -> DisposeDB(h)
    [] o = "options" -> DisposeOptions(h)
    [] o \in Iterators -> DisposeIterator(h, o)
    [] OTHER -> DisposeLeaf(h, o)
-----------------------------------------------------------------------------
(***************************************************************************)
(* The application.  EnsureNotDisposed guards every call but Dispose.      *)
(***************************************************************************)
Made(h, o) == [h EXCEPT !.native[o] = "live", !.handle = @ \cup {o}]
New(o) == heap.native[o] = "none"
Usable(o) == o \in roots /\ o \in heap.handle

\* Cache.CreateLRU and ReadOptions.Create
Create(o) ==
  /\ New(o) /\ o \in {"cache"} \cup ReadOptions
  /\ heap' = Made(heap, o)
  /\ roots' = roots \cup {o}

\* options.Cache = cache
SetCache ==
  /\ Usable("options") /\ Usable("cache") /\ New("db")
  /\ heap' = [heap EXCEPT !.cached = TRUE]
  /\ UNCHANGED roots

Open ==
  /\ Usable("options") /\ New("db")
  /\ heap' = Made(heap, "db")
  /\ roots' = roots \cup {"db"}

\* The ReadOptions may be those of another iterator.
CreateIterator(i, o) ==
  /\ Usable("db") /\ Usable(o) /\ New(i)
  /\ heap' = [Made(heap, i) EXCEPT !.iterators = @ \cup {i}, !.uses[i] = o]
  /\ roots' = roots \cup {i}

CreateSnapshot(s) ==
  /\ Usable("db") /\ New(s)
  /\ heap' = [Made(heap, s) EXCEPT !.snapshots = @ \cup {s}]
  /\ roots' = roots \cup {s}

CallDispose(o) ==
  /\ o \in roots
  /\ heap' = Dispose(heap, o)
  /\ UNCHANGED roots

\* The application keeps no reference; after ApproximateSize returns early the
\* iterator, the snapshot and the options it made are dropped like this.
Forget(o) ==
  /\ o \in roots
  /\ roots' = roots \ {o}
  /\ UNCHANGED heap

\* What the managed references lead to.
References(o) ==
  CASE o = "db" -> heap.iterators \cup heap.snapshots \cup
                   (IF "db" \in heap.handle THEN {"options"} ELSE {})
    [] o = "options" -> IF heap.cached THEN {"cache"} ELSE {}
    [] o \in Iterators -> {"db"} \cup ({heap.uses[o]} \cap heap.handle)
    [] o \in Snapshots -> {"db"}
    [] OTHER -> {}
Reach(S) == S \cup UNION {References(o) : o \in S}
Reachable == Reach(Reach(Reach(Reach(roots))))

\* The garbage collector runs finalizers in any order: Dispose(false).
Finalize(o) ==
  /\ o \in heap.handle \ Reachable
  /\ heap' = [InternalClose(heap, o) EXCEPT
                !.closing = IF o = "db" THEN "finalizer" ELSE @]
  /\ UNCHANGED roots

Next ==
  \/ SetCache \/ Open
  \/ \E o \in Objects : Create(o) \/ CallDispose(o) \/ Forget(o) \/ Finalize(o)
  \/ \E i \in Iterators, o \in ReadOptions : CreateIterator(i, o)
  \/ \E s \in Snapshots : CreateSnapshot(s)

Spec == Init /\ [][Next]_vars
-----------------------------------------------------------------------------
(***************************************************************************)
(* Properties.                                                             *)
(***************************************************************************)
\* However Dispose calls, shared ReadOptions, nested disposal and finalizers
\* follow each other, no native object is destroyed twice; and DB.Dispose leaves
\* no native iterator, snapshot or options behind and closes the database after
\* them, whatever the application had dropped or disposed of before.
DestroyedOnce ==
  /\ heap.twice = {}
  /\ heap.closing = "Dispose" =>
       /\ heap.orphans = {}
       /\ \A o \in Iterators \cup Snapshots \cup {"options"} : heap.native[o] # "live"

\* doc/index.html deletes the cache after the database: what the options refer
\* to is live as long as the native database is.
PartsOutliveDB ==
  heap.cached /\ heap.native["db"] = "live" => heap.native["cache"] = "live"

\* include/leveldb/db.h: an iterator "should be deleted before this db is
\* deleted", and so should a snapshot, whoever closes the database.
ChildrenBeforeDB == heap.orphans = {}
=============================================================================
