------------------------------- MODULE FileStore -------------------------------
(***************************************************************************)
(* The filesystem backend (backend/filesystem/filesystem.go) with several  *)
(* operations under way, in one process or in several that share the root. *)
(* A step is one system call of an operation: between two of them the      *)
(* other operations, a crash or a power loss may change what the next one  *)
(* finds.  Two calls that Go's os package makes in a row are one step here:*)
(* Lstat and rename of os.Rename, unlink and rmdir of os.Remove.           *)
(*                                                                         *)
(* Keys are paths below the root; Ancestors[k] are the keys that are       *)
(* directories on the way to k.  A file is named by the Save that wrote it,*)
(* and its temporary name is unique to it (rand.Text).  Of permission bits *)
(* there are those that somebody gave an Old file, those of a new file     *)
(* (0o644), and those of a directory.                                      *)
(***************************************************************************)
EXTENDS Naturals

CONSTANTS Keys, Ancestors, Ops, Old,
          None, Dir,      \* what a path names besides a file
          Requests,       \* the requests to look at, all of them or some
          Torn,           \* what a reader gets of a file that is not whole
          MaxLosses       \* bound on the power losses

ASSUME AncestorsAssumption == Ancestors \in [Keys -> SUBSET Keys]
ASSUME ValuesAssumption ==
         /\ Old \notin Ops
         /\ None \notin Ops \cup {Old}
         /\ Dir \notin Ops \cup {Old, None}
         /\ Torn \notin Ops \cup {Old, None, Dir}
         /\ \A word \in {"saved", "file exists", "true", "false", "error", "not a directory"} :
              word \notin Ops \cup {Old, None, Torn}
ASSUME RequestsAssumption ==
         Requests \subseteq [Ops -> [kind : {"save", "overwrite", "delete", "exists", "get"},
                                     key : Keys]]
ASSUME MaxLossesAssumption == MaxLosses \in Nat

VARIABLES tree,     \* what each path names: a file, Dir or None
          temps,    \* the Saves whose temporary file is in the directory
          data,     \* how much of each file there is: in memory, or on disk
          bits,     \* the permission bits of each file
          disk,     \* tree and temps as a power loss would leave them
          pc,       \* where each operation is
          request,  \* what it asks
          answer,   \* its answer, or None; the file it has open, for a reader
          losses    \* power losses so far

vars == <<tree, temps, data, bits, disk, pc, request, answer, losses>>
files == <<tree, temps, data>>

Prefixes == UNION {Ancestors[k] : k \in Keys}
Files    == Ops \cup {Old}
Kinds    == {"save", "overwrite", "delete", "exists", "get"}
Saves    == {"save", "overwrite"}
Words    == {"saved", "file exists", "true", "false", "error", "not a directory"}
Answers  == Words \cup {Torn} \cup Files
Steps    == {"idle", "mkdir", "stat", "temp", "copy", "sync", "publish", "cleanup",
             "remove", "read", "done", "crashed"}
Bits     == {"given", "new", "directory"}
Trees    == [Keys -> Files \cup {None, Dir}]

Key(o) == request[o].key
At(o)  == tree[Key(o)]

\* A path can be looked up when its ancestors are directories.  A file among
\* them is ENOTDIR, which errors.Is does not take for ErrNotExist.
Walkable(o) == \A d \in Ancestors[Key(o)] : tree[d] = Dir
NotADir(o)  == \E d \in Ancestors[Key(o)] : tree[d] \in Files
HasFile(o)  == Walkable(o) /\ At(o) \in Files
Missing(o)  == ~NotADir(o) /\ (Walkable(o) => At(o) = None)

WellFormed(t) == \A k \in Keys : /\ t[k] # None => \A d \in Ancestors[k] : t[d] = Dir
                                 /\ t[k] = Dir => k \in Prefixes

Init == /\ tree \in {t \in [Keys -> {Old, None, Dir}] : WellFormed(t)}
        /\ temps = {}
        /\ data = [f \in Files |-> IF f = Old THEN "synced" ELSE "partial"]
        /\ bits = [f \in Files |-> IF f = Old THEN "given" ELSE "new"]
        /\ disk = [tree |-> tree, temps |-> temps]
        /\ pc = [o \in Ops |-> "idle"]
        /\ request \in Requests
        /\ answer = [o \in Ops |-> None]
        /\ losses = 0

Goto(o, step) == /\ pc' = [pc EXCEPT ![o] = step]
                 /\ UNCHANGED <<bits, disk, request, losses>>
Is(o, step, kinds) == pc[o] = step /\ request[o].kind \in kinds
Answer(o, a) == answer' = [answer EXCEPT ![o] = a]
Name(k, f)   == tree' = [tree EXCEPT ![k] = f]

\* The call has yet to reach the step that decides its outcome.
Undecided(o) == pc[o] \in {"idle", "mkdir", "stat", "temp", "copy", "sync", "publish", "remove"}

\* A call returns what it has found, having changed nothing.
Return(o, a) == Answer(o, a) /\ Goto(o, "done") /\ UNCHANGED files

\* Mutant: an early return before the deferred removal is in place.
FailAtOnce(o) == /\ Undecided(o)
                 /\ Answer(o, "error")
                 /\ Goto(o, "done")
                 /\ UNCHANGED files

(***************************************************************************)
(* A call that fails for a reason of its own: a context that has ended, a  *)
(* request that is refused, a body that cannot be read, an I/O error.  The *)
(* deferred calls close and remove the temporary file, if there is one.    *)
(***************************************************************************)
Fail(o) == /\ Undecided(o)
           /\ Answer(o, "error")
           /\ Goto(o, IF o \in temps THEN "cleanup" ELSE "done")
           /\ UNCHANGED files

\* os.MkdirAll, one directory at a time from the top.
Preparing(o) == Is(o, "idle", Saves) \/ pc[o] = "mkdir"

MakeParent(o) == /\ Preparing(o)
                 /\ \E d \in Ancestors[Key(o)] :
                      /\ tree[d] = None
                      /\ \A e \in Ancestors[d] : tree[e] = Dir
                      /\ Name(d, Dir)
                 /\ Goto(o, "mkdir")
                 /\ UNCHANGED <<temps, data, answer>>

ParentsMade(o) == /\ Preparing(o)
                  /\ Walkable(o)
                  /\ Goto(o, IF request[o].kind = "overwrite" THEN "stat" ELSE "temp")
                  /\ UNCHANGED <<files, answer>>

\* Mutant: the bits are looked up, and the temporary file keeps its own.
StatDestinationForgets(o) == /\ pc[o] = "stat"
                             /\ ~NotADir(o)
                             /\ Goto(o, "temp")
                             /\ UNCHANGED <<files, answer>>

(***************************************************************************)
(* The bits of what is to be replaced are looked up.  That it is missing is*)
(* no error.  The temporary file gets them as soon as it is there (Chmod). *)
(***************************************************************************)
StatDestination(o) ==
  /\ pc[o] = "stat"
  /\ ~NotADir(o)
  /\ bits' = [bits EXCEPT ![o] = IF At(o) = Dir THEN "directory"
                                ELSE IF At(o) \in Files THEN bits[At(o)] ELSE "new"]
  /\ pc' = [pc EXCEPT ![o] = "temp"]
  /\ UNCHANGED <<files, disk, request, answer, losses>>

\* Since MkdirAll the directory may have been removed again: then this fails.
CreateTemp(o) == /\ pc[o] = "temp"
                 /\ Walkable(o)
                 /\ temps' = temps \cup {o}
                 /\ Goto(o, "copy")
                 /\ UNCHANGED <<tree, data, answer>>

\* Mutant: a failing body is noted, but the call goes on.
CopyGoesOn(o) == /\ pc[o] = "copy"
                 /\ data' = [data EXCEPT ![o] = "written"]
                 /\ answer' \in {answer, [answer EXCEPT ![o] = "error"]}
                 /\ Goto(o, "sync")
                 /\ UNCHANGED <<tree, temps>>

\* Mutant: the file is published as it was written, without Sync.
CopyUnsynced(o) == /\ pc[o] = "copy"
                   /\ data' = [data EXCEPT ![o] = "written"]
                   /\ Goto(o, "publish")
                   /\ UNCHANGED <<tree, temps, answer>>

Copy(o) == /\ pc[o] = "copy"
           /\ data' = [data EXCEPT ![o] = "written"]
           /\ Goto(o, "sync")
           /\ UNCHANGED <<tree, temps, answer>>

Sync(o) == /\ pc[o] = "sync"
           /\ data' = [data EXCEPT ![o] = "synced"]
           /\ Goto(o, "publish")
           /\ UNCHANGED <<tree, temps, answer>>

\* Mutant: every Save renames, one that must not overwrite as well.
TakenByDirectory(o) == At(o) = Dir

(***************************************************************************)
(* os.Link fails with EEXIST when the name is taken, whatever it names;    *)
(* os.Rename replaces a file, but fails with EEXIST on a directory.        *)
(***************************************************************************)
Taken(o) == IF request[o].kind = "overwrite" THEN At(o) = Dir ELSE At(o) # None

Publish(o) == /\ pc[o] = "publish"
              /\ ~Taken(o)
              /\ Name(Key(o), o)
              /\ temps' = IF request[o].kind = "overwrite" THEN temps \ {o} ELSE temps
              /\ Answer(o, "saved")
              /\ Goto(o, "cleanup")
              /\ UNCHANGED data

Refuse(o) == /\ pc[o] = "publish"
             /\ Taken(o)
             /\ Answer(o, "file exists")
             /\ Goto(o, "cleanup")
             /\ UNCHANGED files

Cleanup(o) == /\ pc[o] = "cleanup"
              /\ temps' = temps \ {o}
              /\ Goto(o, "done")
              /\ UNCHANGED <<tree, data, answer>>

\* Exists, GetOrNil and the Stat with which Delete begins look the path up:
\* a directory is no object.
LooksUp(o, kinds) == Is(o, "idle", kinds) /\ HasFile(o)

NoObject(o) == /\ Is(o, "idle", {"delete", "exists", "get"})
               /\ ~NotADir(o) /\ ~HasFile(o)
               /\ Return(o, "false")

Exists(o) == LooksUp(o, {"exists"}) /\ Return(o, "true")

StartDelete(o) == /\ LooksUp(o, {"delete"})
                  /\ Goto(o, "remove")
                  /\ UNCHANGED <<files, answer>>

\* What the name stands for once the file is open is no matter.
Open(o) == /\ LooksUp(o, {"get"})
           /\ Answer(o, At(o))
           /\ Goto(o, "read")
           /\ UNCHANGED files

\* os.Remove takes a file, and a directory too if nothing is in it; it fails
\* on any other.
Empty(d) == /\ \A k \in Keys : d \in Ancestors[k] => tree[k] = None
            /\ \A o \in temps : d \notin Ancestors[Key(o)]

Remove(o) == /\ pc[o] = "remove"
             /\ Walkable(o)
             /\ At(o) \in Files \/ (At(o) = Dir /\ Empty(Key(o)))
             /\ Name(Key(o), None)
             /\ Answer(o, "true")
             /\ Goto(o, "done")
             /\ UNCHANGED <<temps, data>>

AlreadyRemoved(o) == /\ pc[o] = "remove"
                     /\ Missing(o)
                     /\ Return(o, "false")

\* What a reader gets of a file.
Content(f) == IF data[f] = "partial" THEN Torn ELSE f

ReadFile(o) == /\ pc[o] = "read"
               /\ Return(o, Content(answer[o]))

\* Wherever a path leads through a file, the call fails.
NotADirectory(o) == /\ \/ Preparing(o) \/ pc[o] \in {"stat", "temp", "remove"}
                       \/ Is(o, "idle", {"delete", "exists", "get"})
                    /\ NotADir(o)
                    /\ Return(o, "not a directory")

Operation(o) == \/ MakeParent(o) \/ ParentsMade(o) \/ StatDestination(o) \/ CreateTemp(o)
                \/ Copy(o) \/ Sync(o) \/ Publish(o) \/ Refuse(o) \/ Cleanup(o)
                \/ NoObject(o) \/ Exists(o) \/ StartDelete(o) \/ Remove(o) \/ AlreadyRemoved(o)
                \/ Open(o) \/ ReadFile(o) \/ NotADirectory(o) \/ Fail(o)

-------------------------------------------------------------------------------
(* The world around: processes that die, and the disk behind the tree. *)

Active(o)   == pc[o] \notin {"idle", "done", "crashed"}
LastWord(o) == IF Active(o) /\ answer[o] = None THEN "error" ELSE answer[o]

\* The process dies and its deferred calls do not run.  Without a temporary
\* file to leave behind that is the same as Fail.
Crash(o) == /\ Active(o) /\ o \in temps
            /\ pc' = [pc EXCEPT ![o] = "crashed"]
            /\ Answer(o, LastWord(o))
            /\ UNCHANGED <<files, bits, disk, request, losses>>

\* The file system commits its names; contents are committed by Sync only.
\* What is committed after the last power loss makes no difference.
WriteBack == /\ losses < MaxLosses
             /\ disk # [tree |-> tree, temps |-> temps]
             /\ disk' = [tree |-> tree, temps |-> temps]
             /\ UNCHANGED <<files, bits, pc, request, answer, losses>>

\* Every process dies, uncommitted names are forgotten, and so are contents
\* that were not synced.
PowerLoss == /\ losses < MaxLosses
             /\ losses' = losses + 1
             /\ tree' = disk.tree
             /\ temps' = disk.temps
             /\ data' = [f \in Files |-> IF data[f] = "written" THEN "partial" ELSE data[f]]
             /\ pc' = [o \in Ops |-> IF Active(o) THEN "crashed" ELSE pc[o]]
             /\ answer' = [o \in Ops |-> LastWord(o)]
             /\ UNCHANGED <<bits, disk, request>>

\* Every operation has returned or died; the store itself stays.
Finished == (\A o \in Ops : ~Active(o) /\ pc[o] # "idle") /\ UNCHANGED vars

Next == \/ \E o \in Ops : Operation(o) \/ Crash(o)
        \/ WriteBack
        \/ PowerLoss
        \/ Finished

Spec == Init /\ [][Next]_vars
-------------------------------------------------------------------------------
(***************************************************************************)
(* The state is well typed: an operation has its answer once it is past the*)
(* step that decides it and not before, and what has a name below the root *)
(* is named consistently: a file or a directory lies in a directory.       *)
(***************************************************************************)
TypeOK == /\ tree \in Trees /\ WellFormed(tree)
          /\ temps \subseteq Ops
          /\ data \in [Files -> {"partial", "written", "synced"}]
          /\ bits \in [Files -> Bits]
          /\ disk \in [tree : Trees, temps : SUBSET Ops] /\ WellFormed(disk.tree)
          /\ pc \in [Ops -> Steps]
          /\ request \in [Ops -> [kind : Kinds, key : Keys]]
          /\ answer \in [Ops -> Answers \cup {None}]
          /\ \A o \in Ops : Undecided(o) <=> answer[o] = None
          /\ losses \in 0 .. MaxLosses

(***************************************************************************)
(* Only complete files are published (filesystem.go:115): whatever a name  *)
(* stands for, now or after a power loss, has all of its contents on disk, *)
(* and so has what a reader holds open.                                    *)
(***************************************************************************)
PublishedFilesAreSynced ==
  /\ \A k \in Keys : /\ tree[k] \in Files => data[tree[k]] = "synced"
                     /\ disk.tree[k] \in Files => data[disk.tree[k]] = "synced"
  /\ \A o \in Ops : answer[o] \in Files => data[answer[o]] = "synced"

(***************************************************************************)
(* "Failed saves leave the existing object intact and remove their         *)
(* temporary file" (docs/providers.md:130-131): a Save that has returned,  *)
(* however it ended, has no temporary file, unless the removal itself was  *)
(* undone by a power loss.                                                 *)
(***************************************************************************)
NothingLeftBehind == \A o \in temps : pc[o] = "done" => losses > 0

(***************************************************************************)
(* "Overwrite saves [...] preserve existing file permission bits"          *)
(* (docs/providers.md:132-134): until a Delete of a key has succeeded,     *)
(* whatever becomes of its object leaves its bits alone, however many Saves*)
(* replace it at once and whatever a power loss undoes.  After a Delete a  *)
(* late Rename may bring back the bits of what was deleted.                *)
(***************************************************************************)
Deleted(k) == \E o \in Ops : request[o] = [kind |-> "delete", key |-> k] /\ answer[o] = "true"

OverwritesKeepBits ==
  [][\A k \in Keys : tree[k] \in Files /\ tree'[k] \in Files /\ ~Deleted(k)
       => bits'[tree'[k]] = bits[tree[k]]]_vars

(***************************************************************************)
(* The backend keeps the promise of ObjectStore: concurrent exclusive Saves*)
(* of a key have one winner, readers get an object that was whole at one   *)
(* instant of their call, a failed call changes nothing, a power loss goes *)
(* back to a state the store has been in.                                  *)
(***************************************************************************)
Seen(t) == [k \in Keys |-> IF t[k] \in Files THEN Content(t[k]) ELSE None]

PromisedAnswer == [o \in Ops |-> IF answer[o] = "not a directory" THEN "error" ELSE answer[o]]

Promise == INSTANCE ObjectStore
             WITH objects <- Seen(tree), durable <- Seen(disk.tree), answer <- PromisedAnswer

ImplementsObjectStore == Promise!Spec

-------------------------------------------------------------------------------
(* What is said of the backend and does not hold. *)

(***************************************************************************)
(* "Directories created as parent prefixes are not objects" (filesystem.go:*)
(* 146): a Delete that reports a deletion has deleted an object.           *)
(***************************************************************************)
TrueDeleteMeansObject ==
  [][\A o \in Ops : request[o].kind = "delete" /\ answer[o] # "true" /\ answer'[o] = "true"
                      => At(o) \in Files]_vars

(***************************************************************************)
(* "`GetOrNil` returns a nil reader instead" for a missing object          *)
(* (README.md:68-69), not an error.                                        *)
(***************************************************************************)
MissingIsNoError == \A o \in Ops : request[o].kind = "get" => answer[o] # "not a directory"
================================================================================
