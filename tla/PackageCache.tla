---------------------------- MODULE PackageCache ----------------------------
(***************************************************************************)
(* The on-disk cache of the compiled standard library: load_or_build and   *)
(* prune of src/package.rs, run by every compiler process that finds no    *)
(* installed package.                                                      *)
(*                                                                         *)
(* The processes share nothing but a directory.  For each compiler build   *)
(* it holds at most one package file, at most one lock file, and one       *)
(* partial file per process identifier.  Each file-system call is a step   *)
(* of its own, and a process may die between any two.                      *)
(*                                                                         *)
(* An actor is one call of bundled_std_package: a process makes at most    *)
(* two, one per pre-elaboration setting, since a OnceLock per setting      *)
(* keeps the result.  They may run in two threads of one process, which    *)
(* then have one process identifier.                                       *)
(***************************************************************************)
EXTENDS Naturals, FiniteSets, FiniteSetsExt

CONSTANTS
  Actors,       \* the calls of bundled_std_package
  ProcessOf,    \* actor -> its process
  BuildOf,      \* actor -> the BUILD_ID of its compiler
  KeepOthers,   \* packages of other builds prune keeps (3 in the code)
  MaxCrashes,   \* bound: processes that die
  SlowBuilds,   \* whether a build may take longer than STALE
  Faults,       \* the calls that may fail, of FaultKinds
  NoFile        \* no such file

\* read a file or the directory, make the directory, create the lock, compile
\* the library, write, rename, remove.
FaultKinds == {"open", "dir", "create", "build", "write", "rename", "remove"}

ASSUME CacheAssumption ==
  /\ KeepOthers \in Nat
  /\ MaxCrashes \in Nat
  /\ SlowBuilds \in BOOLEAN
  /\ Faults \subseteq FaultKinds

Processes == {ProcessOf[a] : a \in Actors}
Builds == {BuildOf[a] : a \in Actors}

VARIABLES
  pc,        \* actor -> where it is in load_or_build
  path,      \* build -> the file std-<build>.mojoc names, or NoFile
  lock,      \* build -> the lock file .std-<build>.lock, or NoFile
  partial,   \* <<process, build>> -> the file its partial name names, or NoFile
  file,      \* file -> its content (a file is named by the actor creating it)
  mtime,     \* file -> when it was written last, 0 if never
  handle,    \* actor -> the file its fs::write has open, or NoFile
  mapped,    \* actor -> the file it has mapped, or NoFile
  doomed,    \* actor -> the builds its prune is about to remove
  crashes,   \* how many processes have died
  overruled  \* history: a lock has been removed for being stale

cache == <<pc, path, lock, partial, file, mtime, handle, mapped, doomed, crashes, overruled>>

\* The steps between taking the lock and removing it.
Holding == {"build", "truncate", "write", "rename", "drop_partial",
            "list", "prune", "unlock", "unlock_failed"}
Ended == {"done", "failed", "crashed"}
Steps == {"load", "dir", "acquire", "stat", "break", "private"} \cup Holding \cup Ended

\* The last to truncate a file, and whether it has written it all.
File == [by: Actors, whole: BOOLEAN]

\* A lock file: who created it, and whether it is older than STALE.
LockFile == [owner: Actors, stale: BOOLEAN]

ASSUME NoFileAssumption == NoFile \notin Actors \cup File \cup LockFile

CacheInit ==
  /\ pc = [a \in Actors |-> "load"]
  /\ path = [b \in Builds |-> NoFile]
  /\ lock = [b \in Builds |-> NoFile]
  /\ partial = [n \in Processes \X Builds |-> NoFile]
  /\ file = [i \in Actors |-> NoFile]
  /\ mtime = [i \in Actors |-> 0]
  /\ handle = [a \in Actors |-> NoFile]
  /\ mapped = [a \in Actors |-> NoFile]
  /\ doomed = [a \in Actors |-> {}]
  /\ crashes = 0
  /\ overruled = FALSE

Goto(a, step) == pc' = [pc EXCEPT ![a] = step]

\* Mutant: the partial file's name leaves out the process identifier.
PartialOfBuild(a) == <<CHOOSE p \in Processes : TRUE, BuildOf[a]>>

PartialOf(a) == <<ProcessOf[a], BuildOf[a]>>
Whole(i) == i # NoFile /\ file[i] # NoFile /\ file[i].whole

----------------------------------------------------------------------------
\* File::open, PackageBytes::map and import: a package that reads serves the
\* actor, a missing or unreadable one sends it on to build.
Load(a) ==
  LET i == path[BuildOf[a]] IN
  /\ pc[a] = "load"
  /\ \/ /\ Whole(i)
        /\ mapped' = [mapped EXCEPT ![a] = i]
        /\ Goto(a, "done")
     \/ /\ ~Whole(i) \/ "open" \in Faults
        /\ Goto(a, "dir")
        /\ UNCHANGED mapped
  /\ UNCHANGED <<path, lock, partial, file, mtime, handle, doomed, crashes, overruled>>

\* create_dir_all: without a cache directory the actor builds for itself.
MakeDir(a) ==
  /\ pc[a] = "dir"
  /\ \/ Goto(a, "acquire")
     \/ "dir" \in Faults /\ Goto(a, "private")
  /\ UNCHANGED <<path, lock, partial, file, mtime, handle, mapped, doomed, crashes, overruled>>

\* Mutant: the lock file is opened with create instead of create_new.
AcquireShared(a) ==
  /\ pc[a] = "acquire"
  /\ lock' = [lock EXCEPT ![BuildOf[a]] = [owner |-> a, stale |-> FALSE]]
  /\ Goto(a, "build")
  /\ UNCHANGED <<path, partial, file, mtime, handle, mapped, doomed, crashes, overruled>>

\* OpenOptions::create_new on the lock file.
Acquire(a) ==
  LET b == BuildOf[a] IN
  /\ pc[a] = "acquire"
  /\ \/ /\ lock[b] = NoFile
        /\ lock' = [lock EXCEPT ![b] = [owner |-> a, stale |-> FALSE]]
        /\ Goto(a, "build")
     \/ /\ lock[b] # NoFile
        /\ Goto(a, "stat")
        /\ UNCHANGED lock
     \/ /\ "create" \in Faults
        /\ Goto(a, "private")
        /\ UNCHANGED lock
  /\ UNCHANGED <<path, partial, file, mtime, handle, mapped, doomed, crashes, overruled>>

\* Mutant: a lock is waited for however old it is.
StatNeverStale(a) ==
  /\ pc[a] = "stat"
  /\ Goto(a, "load")
  /\ UNCHANGED <<path, lock, partial, file, mtime, handle, mapped, doomed, crashes, overruled>>

\* The age of the lock file found: a lock that is gone by now, or is not old
\* enough, is waited for.
Stat(a) ==
  LET l == lock[BuildOf[a]] IN
  /\ pc[a] = "stat"
  /\ Goto(a, IF l # NoFile /\ l.stale THEN "break" ELSE "load")
  /\ UNCHANGED <<path, lock, partial, file, mtime, handle, mapped, doomed, crashes, overruled>>

\* remove_file of the lock, whichever one is there now; its failure is ignored.
RemoveLock(b) ==
  \/ lock' = [lock EXCEPT ![b] = NoFile]
  \/ "remove" \in Faults /\ UNCHANGED lock

\* A lock seen to be stale is removed, and the actor tries again at once.
Break(a) ==
  /\ pc[a] = "break"
  /\ RemoveLock(BuildOf[a])
  /\ overruled' = TRUE
  /\ Goto(a, "load")
  /\ UNCHANGED <<path, partial, file, mtime, handle, mapped, doomed, crashes>>

\* Mutant: a failed build returns before the lock is removed.
BuildReturnsEarly(a) ==
  /\ pc[a] = "build"
  /\ \/ Goto(a, "truncate")
     \/ "build" \in Faults /\ Goto(a, "failed")
  /\ UNCHANGED <<path, lock, partial, file, mtime, handle, mapped, doomed, crashes, overruled>>

\* The library is compiled; a failure is kept until the lock is removed.
Build(a) ==
  /\ pc[a] = "build"
  /\ \/ Goto(a, "truncate")
     \/ "build" \in Faults /\ Goto(a, "unlock_failed")
  /\ UNCHANGED <<path, lock, partial, file, mtime, handle, mapped, doomed, crashes, overruled>>

\* Mutant: the package is written at its path, in place.
TruncateInPlace(a) ==
  LET b == BuildOf[a]
      i == IF path[b] = NoFile THEN a ELSE path[b]
  IN
  /\ pc[a] = "truncate"
  /\ path' = [path EXCEPT ![b] = i]
  /\ handle' = [handle EXCEPT ![a] = i]
  /\ file' = [file EXCEPT ![i] = [by |-> a, whole |-> FALSE]]
  /\ Goto(a, "write")
  /\ UNCHANGED <<partial, lock, mtime, mapped, doomed, crashes, overruled>>

\* fs::write opens the partial name: a new file, or the one there truncated.
\* A failed open leaves nothing to rename.
Truncate(a) ==
  LET n == PartialOf(a)
      i == IF partial[n] = NoFile THEN a ELSE partial[n]
  IN
  /\ pc[a] = "truncate"
  /\ \/ /\ partial' = [partial EXCEPT ![n] = i]
        /\ handle' = [handle EXCEPT ![a] = i]
        /\ file' = [file EXCEPT ![i] = [by |-> a, whole |-> FALSE]]
        /\ Goto(a, "write")
     \/ /\ "write" \in Faults
        /\ Goto(a, "list")
        /\ UNCHANGED <<partial, handle, file>>
  /\ UNCHANGED <<path, lock, mtime, mapped, doomed, crashes, overruled>>

\* The modification time of the file written next.
Now == 1 + Max({mtime[i] : i \in Actors})

\* fs::write writes the bytes and closes the file.  The file is whole if no
\* other writer has truncated it meanwhile; a failed write leaves its partial
\* file behind.
Write(a) ==
  LET i == handle[a] IN
  /\ pc[a] = "write"
  /\ handle' = [handle EXCEPT ![a] = NoFile]
  /\ \/ /\ file' = IF file[i].by = a THEN [file EXCEPT ![i].whole = TRUE] ELSE file
        /\ mtime' = [mtime EXCEPT ![i] = Now]
        /\ Goto(a, "rename")
     \/ /\ "write" \in Faults
        /\ Goto(a, "list")
        /\ UNCHANGED <<file, mtime>>
  /\ UNCHANGED <<path, lock, partial, mapped, doomed, crashes, overruled>>

\* fs::rename of the partial file over the package's path.
Rename(a) ==
  LET n == PartialOf(a) IN
  /\ pc[a] = "rename"
  /\ \/ /\ partial[n] # NoFile
        /\ path' = [path EXCEPT ![BuildOf[a]] = partial[n]]
        /\ partial' = [partial EXCEPT ![n] = NoFile]
        /\ Goto(a, "list")
     \/ /\ partial[n] = NoFile \/ "rename" \in Faults
        /\ Goto(a, "drop_partial")
        /\ UNCHANGED <<path, partial>>
  /\ UNCHANGED <<lock, file, mtime, handle, mapped, doomed, crashes, overruled>>

\* remove_file of the partial file a failed rename left.
DropPartial(a) ==
  /\ pc[a] = "drop_partial"
  /\ \/ partial' = [partial EXCEPT ![PartialOf(a)] = NoFile]
     \/ "remove" \in Faults /\ UNCHANGED partial
  /\ Goto(a, "list")
  /\ UNCHANGED <<path, lock, file, mtime, handle, mapped, doomed, crashes, overruled>>

\* The packages of other builds but the KeepOthers written last.
Doomed(b) ==
  LET others == {c \in Builds \ {b} : path[c] # NoFile}
      Newer(c) == {d \in others : mtime[path[d]] > mtime[path[c]]}
  IN {c \in others : Cardinality(Newer(c)) >= KeepOthers}

\* prune reads the directory, then removes file by file.
PruneList(a) ==
  /\ pc[a] = "list"
  /\ \/ doomed' = [doomed EXCEPT ![a] = Doomed(BuildOf[a])]
     \/ "open" \in Faults /\ UNCHANGED doomed
  /\ Goto(a, "prune")
  /\ UNCHANGED <<path, lock, partial, file, mtime, handle, mapped, crashes, overruled>>

PruneRemove(a) ==
  /\ pc[a] = "prune"
  /\ \/ \E b \in doomed[a] :
          /\ \/ path' = [path EXCEPT ![b] = NoFile]
             \/ "remove" \in Faults /\ UNCHANGED path
          /\ doomed' = [doomed EXCEPT ![a] = @ \ {b}]
          /\ UNCHANGED pc
     \/ /\ doomed[a] = {}
        /\ Goto(a, "unlock")
        /\ UNCHANGED <<path, doomed>>
  /\ UNCHANGED <<lock, partial, file, mtime, handle, mapped, crashes, overruled>>

\* remove_file of the lock, whoever created the one that is there; then the
\* bytes just built are imported, or the build's failure returned.
Unlock(a) ==
  /\ pc[a] \in {"unlock", "unlock_failed"}
  /\ RemoveLock(BuildOf[a])
  /\ Goto(a, IF pc[a] = "unlock" THEN "done" ELSE "failed")
  /\ UNCHANGED <<path, partial, file, mtime, handle, mapped, doomed, crashes, overruled>>

\* No usable cache: the package is built and imported for this process alone.
PrivateBuild(a) ==
  /\ pc[a] = "private"
  /\ \/ Goto(a, "done")
     \/ "build" \in Faults /\ Goto(a, "failed")
  /\ UNCHANGED <<path, lock, partial, file, mtime, handle, mapped, doomed, crashes, overruled>>

----------------------------------------------------------------------------
\* A process dies: every file it made stays, and nothing removes its lock.
Crash(p) ==
  /\ crashes < MaxCrashes
  /\ \E a \in Actors : ProcessOf[a] = p /\ pc[a] \notin Ended
  /\ pc' = [a \in Actors |-> IF ProcessOf[a] = p THEN "crashed" ELSE pc[a]]
  /\ mapped' = [a \in Actors |-> IF ProcessOf[a] = p THEN NoFile ELSE mapped[a]]
  /\ handle' = [a \in Actors |-> IF ProcessOf[a] = p THEN NoFile ELSE handle[a]]
  /\ crashes' = crashes + 1
  /\ UNCHANGED <<path, lock, partial, file, mtime, doomed, overruled>>

\* A lock file grows older than STALE: one its builder left, or one whose build
\* is slow.
Age(b) ==
  /\ lock[b] # NoFile
  /\ ~lock[b].stale
  /\ SlowBuilds \/ pc[lock[b].owner] \in Ended
  /\ lock' = [lock EXCEPT ![b] = [owner |-> @.owner, stale |-> TRUE]]
  /\ UNCHANGED <<pc, path, partial, file, mtime, handle, mapped, doomed, crashes, overruled>>

load_or_build(a) ==
  \/ Load(a) \/ MakeDir(a) \/ Acquire(a) \/ Stat(a) \/ Break(a)
  \/ Build(a) \/ Truncate(a) \/ Write(a) \/ Rename(a) \/ DropPartial(a)
  \/ PruneList(a) \/ PruneRemove(a) \/ Unlock(a) \/ PrivateBuild(a)

CacheNext ==
  \/ \E a \in Actors : load_or_build(a)
  \/ \E p \in Processes : Crash(p)
  \/ \E b \in Builds : Age(b)

CacheSpec == CacheInit /\ [][CacheNext]_cache

\* Every live process keeps running, and an abandoned lock grows old.
Fairness ==
  /\ \A a \in Actors : WF_cache(load_or_build(a))
  /\ \A b \in Builds : WF_cache(Age(b))

CacheFairSpec == CacheSpec /\ Fairness

----------------------------------------------------------------------------
\* Types; each call writes at most one package, which bounds mtime.
CacheTypeOK ==
  /\ pc \in [Actors -> Steps]
  /\ path \in [Builds -> Actors \cup {NoFile}]
  /\ lock \in [Builds -> LockFile \cup {NoFile}]
  /\ partial \in [Processes \X Builds -> Actors \cup {NoFile}]
  /\ file \in [Actors -> File \cup {NoFile}]
  /\ mtime \in [Actors -> 0..Cardinality(Actors)]
  /\ handle \in [Actors -> Actors \cup {NoFile}]
  /\ mapped \in [Actors -> Actors \cup {NoFile}]
  /\ doomed \in [Actors -> SUBSET Builds]
  /\ crashes \in 0..MaxCrashes
  /\ overruled \in BOOLEAN

\* The package's path names a whole package at every moment, whatever fails
\* and whoever dies: a reader never finds a package being written.  This is
\* what writing to a partial file and renaming it is for.
CachedComplete == \A b \in Builds : path[b] # NoFile => Whole(path[b])

\* The bytes under a mapping never change: a package already mapped is
\* replaced or removed by name only, never rewritten in place, by a second
\* builder, by prune, or by a process that lost its lock.
MappedStable ==
  [][\A a \in Actors : mapped[a] # NoFile => file'[mapped[a]] = file[mapped[a]]]_cache

\* A lock is only left behind by a builder that died: every way out of a
\* build, a failed one included, removes it.
LockHasHolder ==
  \A b \in Builds : lock[b] # NoFile => pc[lock[b].owner] \in Holding \cup {"crashed"}

\* One process builds a package while any other that needs it waits.
OneBuilder ==
  \A a, c \in Actors :
    (a # c /\ BuildOf[a] = BuildOf[c]) => ~(pc[a] \in Holding /\ pc[c] \in Holding)

\* The lock file excludes, whatever fails and whoever dies, two threads of a
\* process included, until some process has taken a lock for stale: of the
\* callers that found no package, one builds.
LockExcludes == ~overruled => OneBuilder

\* Every call ends: a waiter is served by the builder, takes over from one
\* that failed or died, or builds for itself.
Served == \A a \in Actors : <>(pc[a] \in Ended)
=============================================================================
