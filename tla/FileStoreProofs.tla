---------------------------- MODULE FileStoreProofs ----------------------------
(***************************************************************************)
(* For any number of operations, keys and power losses: the filesystem     *)
(* backend publishes synced files only, cleans up after itself, keeps the  *)
(* permission bits of what it replaces and the promise of ObjectStore.     *)
(***************************************************************************)
EXTENDS FileStore, TLAPS

-------------------------------------------------------------------------------
(* The inductive invariant.                                                *)

\* A Save has a temporary file from its creation to the end of the call, all of
\* it on disk when the Save is about to publish.  Only a dead process, or a power
\* loss that undid the removal, can have left one besides.
Prepared ==
  \A o \in Ops : /\ pc[o] \in {"copy", "sync", "publish"} => o \in temps
                 /\ pc[o] = "publish" => data[o] = "synced"
                 /\ o \in temps => \/ pc[o] \in {"copy", "sync", "publish", "cleanup", "crashed"}
                                   \/ losses > 0

\* A temporary file keeps the directories above it from being removed.
TempsHaveDirectories ==
  \A o \in Ops : \A d \in Ancestors[Key(o)] :
    /\ o \in temps => tree[d] = Dir
    /\ o \in disk.temps => disk.tree[d] = Dir

\* What has a name, or a reader, is a file whose Save is past publishing.
NamedFilesAreDecided ==
  /\ \A k \in Keys : /\ tree[k] \in Ops => answer[tree[k]] # None
                     /\ disk.tree[k] \in Ops => answer[disk.tree[k]] # None
  /\ \A o \in Ops : answer[o] \in Ops => answer[answer[o]] # None

\* Each step belongs to the calls of some kind; a reader at work has a file
\* open, and what it reads is whole.
Roles ==
  \A o \in Ops :
    /\ pc[o] \in {"mkdir", "stat", "temp", "copy", "sync", "publish"} => request[o].kind \in Saves
    /\ pc[o] = "remove" => request[o].kind = "delete"
    /\ pc[o] = "read" => answer[o] \in Files
    /\ answer[o] # Torn

\* As long as no Delete of a key has succeeded, its object is there for good with
\* the bits it was given, or all its objects have those of new files: this goes
\* for the name, the disk and the Saves that are about to replace it.
Replacing(o, k) == Key(o) = k /\ request[o].kind = "overwrite"
                     /\ pc[o] \in {"temp", "copy", "sync", "publish"}

Given(k) == /\ tree[k] \in Files /\ bits[tree[k]] = "given"
            /\ disk.tree[k] \in Files /\ bits[disk.tree[k]] = "given"
            /\ \A o \in Ops : Replacing(o, k) => bits[o] = "given"

Plain(k) == /\ tree[k] \in Files => bits[tree[k]] = "new"
            /\ disk.tree[k] \in Files => bits[disk.tree[k]] = "new"
            /\ \A o \in Ops : Replacing(o, k) => bits[o] = "new" \/ tree[k] = Dir

BitsAreKept == /\ \A k \in Keys : Deleted(k) \/ Given(k) \/ Plain(k)
               /\ \A o \in Ops : /\ request[o].kind = "save" => bits[o] = "new"
                                 /\ pc[o] = "stat" => request[o].kind = "overwrite"

\* The parts of TypeOK.
Typed == /\ tree \in Trees
         /\ temps \subseteq Ops
         /\ data \in [Files -> {"partial", "written", "synced"}]
         /\ bits \in [Files -> Bits]
         /\ disk \in [tree : Trees, temps : SUBSET Ops]
         /\ pc \in [Ops -> Steps]
         /\ request \in [Ops -> [kind : Kinds, key : Keys]]
         /\ answer \in [Ops -> Answers \cup {None}]
         /\ losses \in Nat /\ losses <= MaxLosses
Decided == \A o \in Ops : Undecided(o) <=> answer[o] = None
Tidy    == WellFormed(tree) /\ WellFormed(disk.tree)

IInv == /\ TypeOK /\ Prepared /\ TempsHaveDirectories /\ NamedFilesAreDecided
        /\ PublishedFilesAreSynced /\ Roles /\ BitsAreKept
-------------------------------------------------------------------------------
(* Type correctness, and what a path can be.                               *)

USE DEF files, Files, Key, At, Goto, Is, Answer, Return

LEMMA Parts == TypeOK <=> Typed /\ Decided /\ Tidy
  BY DEF TypeOK, Typed, Decided, Tidy, Trees

LEMMA InitTypeOK == Init => TypeOK
  <1> SUFFICES ASSUME Init PROVE Typed /\ Decided /\ Tidy
    BY Parts
  <1>1. tree \in Trees /\ disk = [tree |-> tree, temps |-> {}] /\ WellFormed(tree)
    BY DEF Init, Trees
  <1>2. Typed
    BY <1>1, RequestsAssumption, MaxLossesAssumption DEF Init, Typed, Steps, Answers, Kinds, Bits
  <1> QED
    BY <1>1, <1>2 DEF Init, Decided, Undecided, Tidy

LEMMA StepTyped == Typed /\ [Next]_vars => Typed'
  <1> SUFFICES ASSUME Typed, [Next]_vars PROVE Typed'
    OBVIOUS
  <1> USE DEF Typed, Trees, Steps, Answers, Words, Bits
  <1>1. ASSUME NEW o \in Ops, MakeParent(o) PROVE Typed'
    BY <1>1, AncestorsAssumption DEF MakeParent, Preparing, Name
  <1>2. ASSUME NEW o \in Ops, ParentsMade(o) PROVE Typed'
    BY <1>2 DEF ParentsMade, Preparing
  <1>3. ASSUME NEW o \in Ops, StatDestination(o) PROVE Typed'
    BY <1>3 DEF StatDestination
  <1>4. ASSUME NEW o \in Ops, CreateTemp(o) PROVE Typed'
    BY <1>4 DEF CreateTemp
  <1>5. ASSUME NEW o \in Ops, Copy(o) PROVE Typed'
    BY <1>5 DEF Copy
  <1>6. ASSUME NEW o \in Ops, Sync(o) PROVE Typed'
    BY <1>6 DEF Sync
  <1>7. ASSUME NEW o \in Ops, Publish(o) PROVE Typed'
    BY <1>7 DEF Publish, Name, Taken
  <1>8. ASSUME NEW o \in Ops, Refuse(o) PROVE Typed'
    BY <1>8 DEF Refuse
  <1>9. ASSUME NEW o \in Ops, Cleanup(o) PROVE Typed'
    BY <1>9 DEF Cleanup
  <1>10. ASSUME NEW o \in Ops, NoObject(o) PROVE Typed'
    BY <1>10 DEF NoObject
  <1>11. ASSUME NEW o \in Ops, Exists(o) PROVE Typed'
    BY <1>11 DEF Exists, LooksUp
  <1>12. ASSUME NEW o \in Ops, StartDelete(o) PROVE Typed'
    BY <1>12 DEF StartDelete, LooksUp
  <1>13. ASSUME NEW o \in Ops, Remove(o) PROVE Typed'
    BY <1>13 DEF Remove, Name
  <1>14. ASSUME NEW o \in Ops, AlreadyRemoved(o) PROVE Typed'
    BY <1>14 DEF AlreadyRemoved
  <1>15. ASSUME NEW o \in Ops, Open(o) PROVE Typed'
    BY <1>15 DEF Open, LooksUp, HasFile
  <1>16. ASSUME NEW o \in Ops, ReadFile(o) PROVE Typed'
    BY <1>16 DEF ReadFile, Content
  <1>17. ASSUME NEW o \in Ops, NotADirectory(o) PROVE Typed'
    BY <1>17 DEF NotADirectory, Preparing
  <1>18. ASSUME NEW o \in Ops, Fail(o) PROVE Typed'
    BY <1>18 DEF Fail
  <1>19. ASSUME NEW o \in Ops, Crash(o) PROVE Typed'
    BY <1>19 DEF Crash, LastWord, Active
  <1>20. CASE WriteBack
    BY <1>20 DEF WriteBack
  <1>21. CASE PowerLoss
    <2>1. losses' \in Nat /\ losses' <= MaxLosses
      <3>1. losses \in Nat /\ MaxLosses \in Nat /\ losses < MaxLosses /\ losses' = losses + 1
        BY <1>21, MaxLossesAssumption DEF PowerLoss
      <3> QED
        BY ONLY <3>1
    <2>2. tree' \in Trees /\ temps' \subseteq Ops
      BY <1>21 DEF PowerLoss
    <2>3. data' \in [Files -> {"partial", "written", "synced"}]
      BY <1>21 DEF PowerLoss
    <2>4. pc' \in [Ops -> Steps] /\ answer' \in [Ops -> Answers \cup {None}]
      BY <1>21 DEF PowerLoss, LastWord, Active
    <2> QED
      BY <1>21, <2>1, <2>2, <2>3, <2>4 DEF PowerLoss
  <1>22. CASE UNCHANGED vars
    BY <1>22 DEF vars
  <1> QED
    BY <1>1, <1>2, <1>3, <1>4, <1>5, <1>6, <1>7, <1>8, <1>9, <1>10, <1>11, <1>12, <1>13,
       <1>14, <1>15, <1>16, <1>17, <1>18, <1>19, <1>20, <1>21, <1>22 DEF Next,
       Operation, Finished

LEMMA StepDecided == Typed /\ Decided /\ [Next]_vars => Decided'
  <1> SUFFICES ASSUME Typed, Decided, [Next]_vars PROVE Decided'
    OBVIOUS
  <1> USE ValuesAssumption DEF Typed, Decided, Undecided
  <1>1. ASSUME NEW o \in Ops, MakeParent(o) PROVE Decided'
    BY <1>1 DEF MakeParent, Preparing, Name
  <1>2. ASSUME NEW o \in Ops, ParentsMade(o) PROVE Decided'
    BY <1>2 DEF ParentsMade, Preparing
  <1>3. ASSUME NEW o \in Ops, StatDestination(o) PROVE Decided'
    BY <1>3 DEF StatDestination
  <1>4. ASSUME NEW o \in Ops, CreateTemp(o) PROVE Decided'
    BY <1>4 DEF CreateTemp
  <1>5. ASSUME NEW o \in Ops, Copy(o) PROVE Decided'
    BY <1>5 DEF Copy
  <1>6. ASSUME NEW o \in Ops, Sync(o) PROVE Decided'
    BY <1>6 DEF Sync
  <1>7. ASSUME NEW o \in Ops, Publish(o) PROVE Decided'
    BY <1>7 DEF Publish, Name, Taken
  <1>8. ASSUME NEW o \in Ops, Refuse(o) PROVE Decided'
    BY <1>8 DEF Refuse
  <1>9. ASSUME NEW o \in Ops, Cleanup(o) PROVE Decided'
    BY <1>9 DEF Cleanup
  <1>10. ASSUME NEW o \in Ops, NoObject(o) PROVE Decided'
    BY <1>10 DEF NoObject
  <1>11. ASSUME NEW o \in Ops, Exists(o) PROVE Decided'
    BY <1>11 DEF Exists, LooksUp
  <1>12. ASSUME NEW o \in Ops, StartDelete(o) PROVE Decided'
    BY <1>12 DEF StartDelete, LooksUp
  <1>13. ASSUME NEW o \in Ops, Remove(o) PROVE Decided'
    BY <1>13 DEF Remove, Name
  <1>14. ASSUME NEW o \in Ops, AlreadyRemoved(o) PROVE Decided'
    BY <1>14 DEF AlreadyRemoved
  <1>15. ASSUME NEW o \in Ops, Open(o) PROVE Decided'
    BY <1>15 DEF Open, LooksUp, HasFile
  <1>16. ASSUME NEW o \in Ops, ReadFile(o) PROVE Decided'
    <2>1. answer[o] # None /\ answer'[o] # None
      BY <1>16, ValuesAssumption DEF ReadFile, Content
    <2> QED
      BY <1>16, <2>1 DEF ReadFile
  <1>17. ASSUME NEW o \in Ops, NotADirectory(o) PROVE Decided'
    BY <1>17 DEF NotADirectory, Preparing
  <1>18. ASSUME NEW o \in Ops, Fail(o) PROVE Decided'
    BY <1>18 DEF Fail
  <1>19. ASSUME NEW o \in Ops, Crash(o) PROVE Decided'
    BY <1>19 DEF Crash, LastWord, Active
  <1>20. CASE WriteBack
    BY <1>20 DEF WriteBack
  <1>21. CASE PowerLoss
    BY <1>21 DEF PowerLoss, LastWord, Active
  <1>22. CASE UNCHANGED vars
    BY <1>22 DEF vars
  <1> QED
    BY <1>1, <1>2, <1>3, <1>4, <1>5, <1>6, <1>7, <1>8, <1>9, <1>10, <1>11, <1>12, <1>13,
       <1>14, <1>15, <1>16, <1>17, <1>18, <1>19, <1>20, <1>21, <1>22 DEF Next,
       Operation, Finished

-------------------------------------------------------------------------------
(* The tree, the temporary files in it, and what is on disk.               *)

LEMMA StepTidy == Typed /\ Tidy /\ Prepared /\ TempsHaveDirectories /\ [Next]_vars => Tidy'
  <1> SUFFICES ASSUME Typed, Tidy, Prepared, TempsHaveDirectories, [Next]_vars PROVE Tidy'
    OBVIOUS
  <1> USE AncestorsAssumption, ValuesAssumption DEF Typed, Trees, Tidy, WellFormed
  <1>1. ASSUME NEW o \in Ops, MakeParent(o) PROVE Tidy'
    <2>1. PICK d \in Ancestors[Key(o)] : /\ tree[d] = None
                                         /\ \A e \in Ancestors[d] : tree[e] = Dir
                                         /\ tree' = [tree EXCEPT ![d] = Dir]
      BY <1>1 DEF MakeParent, Name
    <2>2. d \in Keys /\ d \in Prefixes
      <3>1. Key(o) \in Keys
        OBVIOUS
      <3> QED
        <4>1. Ancestors[Key(o)] \in {Ancestors[k] : k \in Keys}
          BY <3>1
        <4>2. d \in Ancestors[Key(o)]
          BY <2>1
        <4>3. d \in Keys
          BY <3>1, <4>2
        <4> QED
          BY ONLY <4>1, <4>2, <4>3 DEF Prefixes
    <2>3. d \notin Ancestors[d]
      BY <2>1
    <2>4. WellFormed(tree')
      <3>1. ASSUME NEW k \in Keys PROVE /\ tree'[k] = IF k = d THEN Dir ELSE tree[k]
                                        /\ tree[k] = Dir => tree'[k] = Dir
        BY <2>1, <2>2
      <3>2. ASSUME NEW k \in Keys, tree'[k] # None, NEW e \in Ancestors[k] PROVE tree'[e] = Dir
        <4>1. e \in Keys
          BY <3>2
        <4>2. tree[e] = Dir
          <5>1. CASE k = d
            BY <2>1, <3>2, <5>1
          <5>2. CASE k # d
            BY <3>1, <3>2, <5>2
          <5> QED
            BY <5>1, <5>2
        <4> QED
          BY <3>1, <4>1, <4>2
      <3>3. ASSUME NEW k \in Keys, tree'[k] = Dir PROVE k \in Prefixes
        BY <2>2, <3>1, <3>3
      <3> QED
        BY ONLY <3>2, <3>3 DEF WellFormed
    <2> QED
      BY <1>1, <2>4 DEF MakeParent
  <1>2. ASSUME NEW o \in Ops, ParentsMade(o) PROVE Tidy'
    BY <1>2 DEF ParentsMade, Preparing
  <1>3. ASSUME NEW o \in Ops, StatDestination(o) PROVE Tidy'
    BY <1>3 DEF StatDestination
  <1>4. ASSUME NEW o \in Ops, CreateTemp(o) PROVE Tidy'
    BY <1>4 DEF CreateTemp
  <1>5. ASSUME NEW o \in Ops, Copy(o) PROVE Tidy'
    BY <1>5 DEF Copy
  <1>6. ASSUME NEW o \in Ops, Sync(o) PROVE Tidy'
    BY <1>6 DEF Sync
  <1>7. ASSUME NEW o \in Ops, Publish(o) PROVE Tidy'
    <2>1. Key(o) \in Keys /\ At(o) # Dir /\ \A d \in Ancestors[Key(o)] : tree[d] = Dir
      BY <1>7 DEF Publish, Taken, Prepared, TempsHaveDirectories
    <2>2. tree' = [tree EXCEPT ![Key(o)] = o] /\ disk' = disk
      BY <1>7 DEF Publish, Name
    <2> QED
      BY <2>1, <2>2
  <1>8. ASSUME NEW o \in Ops, Refuse(o) PROVE Tidy'
    BY <1>8 DEF Refuse
  <1>9. ASSUME NEW o \in Ops, Cleanup(o) PROVE Tidy'
    BY <1>9 DEF Cleanup
  <1>10. ASSUME NEW o \in Ops, NoObject(o) PROVE Tidy'
    BY <1>10 DEF NoObject
  <1>11. ASSUME NEW o \in Ops, Exists(o) PROVE Tidy'
    BY <1>11 DEF Exists, LooksUp
  <1>12. ASSUME NEW o \in Ops, StartDelete(o) PROVE Tidy'
    BY <1>12 DEF StartDelete, LooksUp
  <1>13. ASSUME NEW o \in Ops, Remove(o) PROVE Tidy'
    <2>1. /\ Key(o) \in Keys
          /\ \A k \in Keys : Key(o) \in Ancestors[k] => tree[k] = None
      BY <1>13 DEF Remove, Empty
    <2>2. tree' = [tree EXCEPT ![Key(o)] = None] /\ disk' = disk
      BY <1>13 DEF Remove, Name
    <2> QED
      BY <2>1, <2>2
  <1>14. ASSUME NEW o \in Ops, AlreadyRemoved(o) PROVE Tidy'
    BY <1>14 DEF AlreadyRemoved
  <1>15. ASSUME NEW o \in Ops, Open(o) PROVE Tidy'
    BY <1>15 DEF Open, LooksUp, HasFile
  <1>16. ASSUME NEW o \in Ops, ReadFile(o) PROVE Tidy'
    BY <1>16 DEF ReadFile
  <1>17. ASSUME NEW o \in Ops, NotADirectory(o) PROVE Tidy'
    BY <1>17 DEF NotADirectory, Preparing
  <1>18. ASSUME NEW o \in Ops, Fail(o) PROVE Tidy'
    BY <1>18 DEF Fail
  <1>19. ASSUME NEW o \in Ops, Crash(o) PROVE Tidy'
    BY <1>19 DEF Crash, LastWord, Active
  <1>20. CASE WriteBack
    BY <1>20 DEF WriteBack
  <1>21. CASE PowerLoss
    BY <1>21 DEF PowerLoss, LastWord, Active
  <1>22. CASE UNCHANGED vars
    BY <1>22 DEF vars
  <1> QED
    BY <1>1, <1>2, <1>3, <1>4, <1>5, <1>6, <1>7, <1>8, <1>9, <1>10, <1>11, <1>12, <1>13,
       <1>14, <1>15, <1>16, <1>17, <1>18, <1>19, <1>20, <1>21, <1>22 DEF Next,
       Operation, Finished

LEMMA StepPrepared == Typed /\ Prepared /\ [Next]_vars => Prepared'
  <1> SUFFICES ASSUME Typed, Prepared, [Next]_vars PROVE Prepared'
    OBVIOUS
  <1> USE DEF Typed, Prepared
  <1>1. ASSUME NEW o \in Ops, MakeParent(o) PROVE Prepared'
    BY <1>1 DEF MakeParent, Preparing, Name
  <1>2. ASSUME NEW o \in Ops, ParentsMade(o) PROVE Prepared'
    BY <1>2 DEF ParentsMade, Preparing
  <1>3. ASSUME NEW o \in Ops, StatDestination(o) PROVE Prepared'
    BY <1>3 DEF StatDestination
  <1>4. ASSUME NEW o \in Ops, CreateTemp(o) PROVE Prepared'
    BY <1>4 DEF CreateTemp
  <1>5. ASSUME NEW o \in Ops, Copy(o) PROVE Prepared'
    BY <1>5 DEF Copy
  <1>6. ASSUME NEW o \in Ops, Sync(o) PROVE Prepared'
    BY <1>6 DEF Sync
  <1>7. ASSUME NEW o \in Ops, Publish(o) PROVE Prepared'
    BY <1>7 DEF Publish, Name, Taken
  <1>8. ASSUME NEW o \in Ops, Refuse(o) PROVE Prepared'
    BY <1>8 DEF Refuse
  <1>9. ASSUME NEW o \in Ops, Cleanup(o) PROVE Prepared'
    BY <1>9 DEF Cleanup
  <1>10. ASSUME NEW o \in Ops, NoObject(o) PROVE Prepared'
    BY <1>10 DEF NoObject
  <1>11. ASSUME NEW o \in Ops, Exists(o) PROVE Prepared'
    BY <1>11 DEF Exists, LooksUp
  <1>12. ASSUME NEW o \in Ops, StartDelete(o) PROVE Prepared'
    BY <1>12 DEF StartDelete, LooksUp
  <1>13. ASSUME NEW o \in Ops, Remove(o) PROVE Prepared'
    BY <1>13 DEF Remove, Name
  <1>14. ASSUME NEW o \in Ops, AlreadyRemoved(o) PROVE Prepared'
    BY <1>14 DEF AlreadyRemoved
  <1>15. ASSUME NEW o \in Ops, Open(o) PROVE Prepared'
    BY <1>15 DEF Open, LooksUp, HasFile
  <1>16. ASSUME NEW o \in Ops, ReadFile(o) PROVE Prepared'
    BY <1>16 DEF ReadFile
  <1>17. ASSUME NEW o \in Ops, NotADirectory(o) PROVE Prepared'
    BY <1>17 DEF NotADirectory, Preparing
  <1>18. ASSUME NEW o \in Ops, Fail(o) PROVE Prepared'
    BY <1>18 DEF Fail
  <1>19. ASSUME NEW o \in Ops, Crash(o) PROVE Prepared'
    BY <1>19 DEF Crash, LastWord, Active
  <1>20. CASE WriteBack
    BY <1>20 DEF WriteBack
  <1>21. CASE PowerLoss
    <2>1. \A o \in Ops : pc'[o] \notin {"mkdir", "stat", "temp", "copy", "sync", "publish"}
      BY <1>21 DEF PowerLoss, Active
    <2>2. losses' > 0
      BY <1>21 DEF PowerLoss
    <2> QED
      BY <2>1, <2>2
  <1>22. CASE UNCHANGED vars
    BY <1>22 DEF vars
  <1> QED
    BY <1>1, <1>2, <1>3, <1>4, <1>5, <1>6, <1>7, <1>8, <1>9, <1>10, <1>11, <1>12, <1>13,
       <1>14, <1>15, <1>16, <1>17, <1>18, <1>19, <1>20, <1>21, <1>22 DEF Next,
       Operation, Finished

LEMMA StepTempsHaveDirectories ==
  Typed /\ Tidy /\ TempsHaveDirectories /\ [Next]_vars => TempsHaveDirectories'
  <1> SUFFICES ASSUME Typed, Tidy, TempsHaveDirectories, [Next]_vars PROVE TempsHaveDirectories'
    OBVIOUS
  <1> USE AncestorsAssumption, ValuesAssumption DEF Typed, Trees, TempsHaveDirectories
  <1>1. ASSUME NEW o \in Ops, MakeParent(o) PROVE TempsHaveDirectories'
    <2>1. PICK d \in Ancestors[Key(o)] : tree[d] = None /\ tree' = [tree EXCEPT ![d] = Dir]
      BY <1>1 DEF MakeParent, Name
    <2>2. d \in Keys
      BY <2>1
    <2> QED
      BY <1>1, <2>1, <2>2 DEF MakeParent
  <1>2. ASSUME NEW o \in Ops, ParentsMade(o) PROVE TempsHaveDirectories'
    BY <1>2 DEF ParentsMade, Preparing
  <1>3. ASSUME NEW o \in Ops, StatDestination(o) PROVE TempsHaveDirectories'
    BY <1>3 DEF StatDestination
  <1>4. ASSUME NEW o \in Ops, CreateTemp(o) PROVE TempsHaveDirectories'
    BY <1>4 DEF CreateTemp, Walkable
  <1>5. ASSUME NEW o \in Ops, Copy(o) PROVE TempsHaveDirectories'
    BY <1>5 DEF Copy
  <1>6. ASSUME NEW o \in Ops, Sync(o) PROVE TempsHaveDirectories'
    BY <1>6 DEF Sync
  <1>7. ASSUME NEW o \in Ops, Publish(o) PROVE TempsHaveDirectories'
    <2>1. Key(o) \in Keys /\ At(o) # Dir
      BY <1>7 DEF Publish, Taken
    <2>2. tree' = [tree EXCEPT ![Key(o)] = o] /\ temps' \subseteq temps
      BY <1>7 DEF Publish, Name
    <2> QED
      BY <1>7, <2>1, <2>2 DEF Publish
  <1>8. ASSUME NEW o \in Ops, Refuse(o) PROVE TempsHaveDirectories'
    BY <1>8 DEF Refuse
  <1>9. ASSUME NEW o \in Ops, Cleanup(o) PROVE TempsHaveDirectories'
    BY <1>9 DEF Cleanup
  <1>10. ASSUME NEW o \in Ops, NoObject(o) PROVE TempsHaveDirectories'
    BY <1>10 DEF NoObject
  <1>11. ASSUME NEW o \in Ops, Exists(o) PROVE TempsHaveDirectories'
    BY <1>11 DEF Exists, LooksUp
  <1>12. ASSUME NEW o \in Ops, StartDelete(o) PROVE TempsHaveDirectories'
    BY <1>12 DEF StartDelete, LooksUp
  <1>13. ASSUME NEW o \in Ops, Remove(o) PROVE TempsHaveDirectories'
    <2>1. Key(o) \in Keys /\ tree' = [tree EXCEPT ![Key(o)] = None]
      BY <1>13 DEF Remove, Name
    <2>2. ASSUME NEW p \in temps PROVE Key(o) \notin Ancestors[Key(p)]
      <3>1. p \in Ops
        OBVIOUS
      <3>2. CASE At(o) \in Files
        BY <3>1, <3>2
      <3>3. CASE Empty(Key(o))
        BY <3>3 DEF Empty
      <3> QED
        BY <1>13, <3>2, <3>3 DEF Remove
    <2>3. temps' = temps /\ request' = request /\ disk' = disk
      BY <1>13 DEF Remove
    <2>4. ASSUME NEW p \in temps, NEW d \in Ancestors[Key(p)] PROVE tree'[d] = Dir
      <3>1. p \in Ops /\ Key(p) \in Keys
        OBVIOUS
      <3>2. d \in Keys /\ tree[d] = Dir
        BY <3>1
      <3>3. d # Key(o)
        BY <2>2
      <3> QED
        BY <2>1, <3>2, <3>3
    <2> QED
      BY <2>3, <2>4
  <1>14. ASSUME NEW o \in Ops, AlreadyRemoved(o) PROVE TempsHaveDirectories'
    BY <1>14 DEF AlreadyRemoved
  <1>15. ASSUME NEW o \in Ops, Open(o) PROVE TempsHaveDirectories'
    BY <1>15 DEF Open, LooksUp, HasFile
  <1>16. ASSUME NEW o \in Ops, ReadFile(o) PROVE TempsHaveDirectories'
    BY <1>16 DEF ReadFile
  <1>17. ASSUME NEW o \in Ops, NotADirectory(o) PROVE TempsHaveDirectories'
    BY <1>17 DEF NotADirectory, Preparing
  <1>18. ASSUME NEW o \in Ops, Fail(o) PROVE TempsHaveDirectories'
    BY <1>18 DEF Fail
  <1>19. ASSUME NEW o \in Ops, Crash(o) PROVE TempsHaveDirectories'
    BY <1>19 DEF Crash, LastWord, Active
  <1>20. CASE WriteBack
    BY <1>20 DEF WriteBack
  <1>21. CASE PowerLoss
    BY <1>21 DEF PowerLoss, LastWord, Active
  <1>22. CASE UNCHANGED vars
    BY <1>22 DEF vars
  <1> QED
    BY <1>1, <1>2, <1>3, <1>4, <1>5, <1>6, <1>7, <1>8, <1>9, <1>10, <1>11, <1>12, <1>13,
       <1>14, <1>15, <1>16, <1>17, <1>18, <1>19, <1>20, <1>21, <1>22 DEF Next,
       Operation, Finished

-------------------------------------------------------------------------------
(* What a step may do to an answer, to a name and to a file.               *)

LEMMA StepAnswers ==
  Typed /\ Decided /\ [Next]_vars
    => \A p \in Ops : /\ answer[p] # None =>
                           answer'[p] = answer[p] \/ (pc[p] = "read" /\ answer'[p] = Torn)
                      /\ answer'[p] \in Files => answer'[p] \in {answer[p], At(p)}
  <1> DEFINE Goal(p) == /\ answer[p] # None =>
                             answer'[p] = answer[p] \/ (pc[p] = "read" /\ answer'[p] = Torn)
                        /\ answer'[p] \in Files => answer'[p] \in {answer[p], At(p)}
  <1> SUFFICES ASSUME Typed, Decided, [Next]_vars, NEW p \in Ops
               PROVE  Goal(p)
    OBVIOUS
  <1>1. answer \in [Ops -> Answers \cup {None}]
    BY DEF Typed
  <1>2. ASSUME NEW o \in Ops, \/ MakeParent(o) \/ ParentsMade(o) \/ StatDestination(o)
                              \/ CreateTemp(o) \/ Copy(o) \/ Sync(o) \/ Cleanup(o)
                              \/ StartDelete(o)
        PROVE  answer' = answer
    BY <1>2 DEF MakeParent, ParentsMade, StatDestination, CreateTemp, Copy, Sync, Cleanup,
       StartDelete
  <1>3. ASSUME NEW o \in Ops, \/ Publish(o) \/ Refuse(o) \/ Remove(o) \/ NoObject(o)
                              \/ AlreadyRemoved(o) \/ Exists(o) \/ NotADirectory(o) \/ Fail(o)
        PROVE  Goal(p)
    <2>1. answer[o] = None
      BY <1>3 DEF Publish, Refuse, Remove, NoObject, AlreadyRemoved, Exists, NotADirectory,
         Fail, Preparing, LooksUp, Undecided, Decided
    <2>2. \E a \in Words : answer' = [answer EXCEPT ![o] = a]
      BY <1>3 DEF Publish, Refuse, Remove, NoObject, AlreadyRemoved, Exists, NotADirectory,
         Fail, Words
    <2>3. \A a \in Words : a \notin Files
      BY ValuesAssumption DEF Words
    <2> QED
      BY <1>1, <2>1, <2>2, <2>3
  <1>4. ASSUME NEW o \in Ops, Open(o) PROVE Goal(p)
    <2>1. answer[o] = None /\ answer' = [answer EXCEPT ![o] = At(o)]
      BY <1>4 DEF Open, LooksUp, Undecided, Decided
    <2> QED
      BY <1>1, <2>1
  <1>5. ASSUME NEW o \in Ops, ReadFile(o) PROVE Goal(p)
    <2>1. pc[o] = "read" /\ \E a \in {answer[o], Torn} : answer' = [answer EXCEPT ![o] = a]
      BY <1>5 DEF ReadFile, Content
    <2> QED
      BY <1>1, <2>1, ValuesAssumption
  <1>6. CASE PowerLoss \/ \E o \in Ops : Crash(o)
    <2>1. answer'[p] \in {answer[p], LastWord(p)}
      <3>1. CASE PowerLoss
        BY <3>1 DEF PowerLoss
      <3>2. ASSUME NEW o \in Ops, Crash(o) PROVE answer'[p] \in {answer[p], LastWord(p)}
        BY <1>1, <3>2 DEF Crash
      <3> QED
        BY <1>6, <3>1, <3>2
    <2>2. "error" \notin Files
      BY ValuesAssumption
    <2> QED
      BY <2>1, <2>2 DEF LastWord
  <1>7. CASE WriteBack \/ UNCHANGED vars
    BY <1>7 DEF WriteBack, vars
  <1> QED
    BY <1>2, <1>3, <1>4, <1>5, <1>6, <1>7 DEF Next, Operation, Finished

LEMMA StepNames ==
  Typed /\ [Next]_vars
    => \A k \in Keys : /\ \/ tree'[k] \in {tree[k], disk.tree[k], None, Dir}
                          \/ \E o \in Ops : Publish(o) /\ tree'[k] = o
                       /\ disk'.tree[k] \in {disk.tree[k], tree[k]}
  <1> SUFFICES ASSUME Typed, [Next]_vars, NEW k \in Keys
               PROVE  /\ \/ tree'[k] \in {tree[k], disk.tree[k], None, Dir}
                         \/ \E o \in Ops : Publish(o) /\ tree'[k] = o
                      /\ disk'.tree[k] \in {disk.tree[k], tree[k]}
    OBVIOUS
  <1>1. tree \in [Keys -> Files \cup {None, Dir}]
    BY DEF Typed, Trees
  <1>2. ASSUME NEW o \in Ops, Operation(o) PROVE disk' = disk
    BY <1>2, Zenon DEF Operation, MakeParent, ParentsMade, StatDestination, CreateTemp, Copy,
       Sync, Publish, Refuse, Cleanup, NoObject, Exists, StartDelete, Remove, AlreadyRemoved,
       Open, ReadFile, NotADirectory, Fail, LooksUp
  <1>3. ASSUME NEW o \in Ops, MakeParent(o) PROVE tree'[k] \in {tree[k], Dir}
    BY <1>1, <1>3 DEF MakeParent, Name
  <1>4. ASSUME NEW o \in Ops, Remove(o) PROVE tree'[k] \in {tree[k], None}
    BY <1>1, <1>4 DEF Remove, Name
  <1>5. ASSUME NEW o \in Ops, Publish(o) PROVE tree'[k] \in {tree[k], o}
    BY <1>1, <1>5 DEF Publish, Name
  <1>6. ASSUME NEW o \in Ops, \/ ParentsMade(o) \/ StatDestination(o) \/ CreateTemp(o)
                              \/ Copy(o) \/ Sync(o) \/ Refuse(o) \/ Cleanup(o) \/ NoObject(o)
                              \/ Exists(o) \/ StartDelete(o) \/ AlreadyRemoved(o) \/ Open(o)
                              \/ ReadFile(o) \/ NotADirectory(o) \/ Fail(o)
        PROVE  tree' = tree
    BY <1>6, Zenon DEF ParentsMade, StatDestination, CreateTemp, Copy, Sync, Refuse, Cleanup,
       NoObject, Exists, StartDelete, AlreadyRemoved, Open, ReadFile, NotADirectory, Fail
  <1>7. ASSUME NEW o \in Ops, Crash(o) PROVE tree' = tree /\ disk' = disk
    BY <1>7 DEF Crash
  <1>8. CASE WriteBack
    BY <1>8 DEF WriteBack
  <1>9. CASE PowerLoss
    BY <1>9 DEF PowerLoss
  <1>10. CASE UNCHANGED vars
    BY <1>10 DEF vars
  <1>11. ASSUME NEW o \in Ops, Operation(o)
         PROVE  \/ tree'[k] \in {tree[k], None, Dir}
                \/ Publish(o) /\ tree'[k] = o
    BY <1>3, <1>4, <1>5, <1>6, <1>11 DEF Operation
  <1> QED
    BY <1>2, <1>7, <1>8, <1>9, <1>10, <1>11 DEF Next, Finished

\* What is on disk stays there; a Save writes its file before it decides.
LEMMA StepData ==
  Typed /\ Decided /\ [Next]_vars
    => \A f \in Files : data[f] = "synced" => data'[f] = "synced" \/ (f \in Ops /\ answer[f] = None)
  <1> SUFFICES ASSUME Typed, Decided, [Next]_vars, NEW f \in Files, data[f] = "synced"
               PROVE  data'[f] = "synced" \/ (f \in Ops /\ answer[f] = None)
    OBVIOUS
  <1>1. data \in [Files -> {"partial", "written", "synced"}]
    BY DEF Typed
  <1>2. ASSUME NEW o \in Ops, Copy(o) PROVE answer[o] = None /\ data' = [data EXCEPT ![o] = "written"]
    BY <1>2 DEF Copy, Undecided, Decided
  <1>3. ASSUME NEW o \in Ops, Sync(o) PROVE data' = [data EXCEPT ![o] = "synced"]
    BY <1>3 DEF Sync
  <1>4. ASSUME NEW o \in Ops, \/ MakeParent(o) \/ ParentsMade(o) \/ StatDestination(o)
                              \/ CreateTemp(o) \/ Publish(o) \/ Refuse(o) \/ Cleanup(o)
                              \/ NoObject(o) \/ Exists(o) \/ StartDelete(o) \/ Remove(o)
                              \/ AlreadyRemoved(o) \/ Open(o) \/ ReadFile(o)
                              \/ NotADirectory(o) \/ Fail(o) \/ Crash(o)
        PROVE  data' = data
    BY <1>4, Zenon DEF MakeParent, ParentsMade, StatDestination, CreateTemp, Publish, Refuse,
       Cleanup, NoObject, Exists, StartDelete, Remove, AlreadyRemoved, Open, ReadFile,
       NotADirectory, Fail, Crash
  <1>5. CASE PowerLoss
    BY <1>5 DEF PowerLoss
  <1>6. CASE WriteBack \/ UNCHANGED vars
    BY <1>6 DEF WriteBack, vars
  <1> QED
    BY <1>1, <1>2, <1>3, <1>4, <1>5, <1>6 DEF Next, Operation, Finished

LEMMA StepNamedFilesAreDecided ==
  Typed /\ Decided /\ NamedFilesAreDecided /\ [Next]_vars => NamedFilesAreDecided'
  <1> SUFFICES ASSUME Typed, Decided, NamedFilesAreDecided, [Next]_vars PROVE NamedFilesAreDecided'
    OBVIOUS
  <1>1. \A p \in Ops : answer[p] # None => answer'[p] # None
    BY StepAnswers, ValuesAssumption
  <1>2. ASSUME NEW o \in Ops, Publish(o) PROVE answer'[o] # None
    BY <1>2, ValuesAssumption DEF Publish, Typed
  <1>3. \A k \in Keys : /\ tree[k] \in Ops => answer'[tree[k]] # None
                        /\ disk.tree[k] \in Ops => answer'[disk.tree[k]] # None
    BY <1>1 DEF NamedFilesAreDecided
  <1>4. \A k \in Keys : /\ tree'[k] \in Ops => answer'[tree'[k]] # None
                        /\ disk'.tree[k] \in Ops => answer'[disk'.tree[k]] # None
    <2> SUFFICES ASSUME NEW k \in Keys
                 PROVE  /\ tree'[k] \in Ops => answer'[tree'[k]] # None
                        /\ disk'.tree[k] \in Ops => answer'[disk'.tree[k]] # None
      OBVIOUS
    <2>1. /\ \/ tree'[k] \in {tree[k], disk.tree[k], None, Dir}
             \/ \E o \in Ops : Publish(o) /\ tree'[k] = o
          /\ disk'.tree[k] \in {disk.tree[k], tree[k]}
      BY StepNames
    <2>2. None \notin Ops /\ Dir \notin Ops
      BY ValuesAssumption
    <2> QED
      BY <1>2, <1>3, <2>1, <2>2
  <1>5. ASSUME NEW p \in Ops, answer'[p] \in Ops PROVE answer'[answer'[p]] # None
    <2>1. answer'[p] \in {answer[p], At(p)} /\ Key(p) \in Keys
      BY <1>5, StepAnswers DEF Typed
    <2> QED
      BY <1>1, <1>3, <1>5, <2>1 DEF NamedFilesAreDecided
  <1> QED
    BY <1>4, <1>5 DEF NamedFilesAreDecided

LEMMA StepPublishedFilesAreSynced ==
  Typed /\ Decided /\ Prepared /\ NamedFilesAreDecided /\ PublishedFilesAreSynced /\ [Next]_vars
    => PublishedFilesAreSynced'
  <1> SUFFICES ASSUME Typed, Decided, Prepared, NamedFilesAreDecided, PublishedFilesAreSynced,
                      [Next]_vars
               PROVE  PublishedFilesAreSynced'
    OBVIOUS
  <1>1. ASSUME NEW f \in Files, data[f] = "synced", f \in Ops => answer[f] # None
        PROVE  data'[f] = "synced"
    BY <1>1, StepData
  <1>2. ASSUME NEW k \in Keys
        PROVE  /\ tree[k] \in Files => data'[tree[k]] = "synced"
               /\ disk.tree[k] \in Files => data'[disk.tree[k]] = "synced"
    BY <1>1 DEF PublishedFilesAreSynced, NamedFilesAreDecided
  <1>3. ASSUME NEW o \in Ops, Publish(o) PROVE data'[o] = "synced"
    BY <1>3 DEF Publish, Prepared
  <1>4. ASSUME NEW k \in Keys
        PROVE  /\ tree'[k] \in Files => data'[tree'[k]] = "synced"
               /\ disk'.tree[k] \in Files => data'[disk'.tree[k]] = "synced"
    <2>1. /\ \/ tree'[k] \in {tree[k], disk.tree[k], None, Dir}
             \/ \E o \in Ops : Publish(o) /\ tree'[k] = o
          /\ disk'.tree[k] \in {disk.tree[k], tree[k]}
      BY StepNames
    <2>2. None \notin Files /\ Dir \notin Files
      BY ValuesAssumption
    <2> QED
      BY <1>2, <1>3, <2>1, <2>2
  <1>5. ASSUME NEW p \in Ops, answer'[p] \in Files PROVE data'[answer'[p]] = "synced"
    <2>1. answer'[p] \in {answer[p], At(p)} /\ Key(p) \in Keys
      BY <1>5, StepAnswers DEF Typed
    <2>2. answer[p] \in Files => data'[answer[p]] = "synced"
      BY <1>1 DEF PublishedFilesAreSynced, NamedFilesAreDecided
    <2> QED
      BY <1>2, <1>5, <2>1, <2>2
  <1> QED
    BY <1>4, <1>5 DEF PublishedFilesAreSynced

LEMMA StepRoles == Typed /\ Roles /\ PublishedFilesAreSynced /\ [Next]_vars => Roles'
  <1> SUFFICES ASSUME Typed, Roles, PublishedFilesAreSynced, [Next]_vars PROVE Roles'
    OBVIOUS
  <1> USE ValuesAssumption DEF Typed, Roles
  <1>1. ASSUME NEW o \in Ops, MakeParent(o) PROVE Roles'
    BY <1>1 DEF MakeParent, Preparing, Name
  <1>2. ASSUME NEW o \in Ops, ParentsMade(o) PROVE Roles'
    BY <1>2 DEF ParentsMade, Preparing
  <1>3. ASSUME NEW o \in Ops, StatDestination(o) PROVE Roles'
    BY <1>3 DEF StatDestination
  <1>4. ASSUME NEW o \in Ops, CreateTemp(o) PROVE Roles'
    BY <1>4 DEF CreateTemp
  <1>5. ASSUME NEW o \in Ops, Copy(o) PROVE Roles'
    BY <1>5 DEF Copy
  <1>6. ASSUME NEW o \in Ops, Sync(o) PROVE Roles'
    BY <1>6 DEF Sync
  <1>7. ASSUME NEW o \in Ops, Publish(o) PROVE Roles'
    BY <1>7 DEF Publish, Name, Taken
  <1>8. ASSUME NEW o \in Ops, Refuse(o) PROVE Roles'
    BY <1>8 DEF Refuse
  <1>9. ASSUME NEW o \in Ops, Cleanup(o) PROVE Roles'
    BY <1>9 DEF Cleanup
  <1>10. ASSUME NEW o \in Ops, NoObject(o) PROVE Roles'
    BY <1>10 DEF NoObject
  <1>11. ASSUME NEW o \in Ops, Exists(o) PROVE Roles'
    BY <1>11 DEF Exists, LooksUp
  <1>12. ASSUME NEW o \in Ops, StartDelete(o) PROVE Roles'
    BY <1>12 DEF StartDelete, LooksUp
  <1>13. ASSUME NEW o \in Ops, Remove(o) PROVE Roles'
    BY <1>13 DEF Remove, Name
  <1>14. ASSUME NEW o \in Ops, AlreadyRemoved(o) PROVE Roles'
    BY <1>14 DEF AlreadyRemoved
  <1>15. ASSUME NEW o \in Ops, Open(o) PROVE Roles'
    BY <1>15 DEF Open, LooksUp, HasFile
  <1>16. ASSUME NEW o \in Ops, ReadFile(o) PROVE Roles'
    BY <1>16 DEF ReadFile, Content, PublishedFilesAreSynced
  <1>17. ASSUME NEW o \in Ops, NotADirectory(o) PROVE Roles'
    BY <1>17 DEF NotADirectory, Preparing
  <1>18. ASSUME NEW o \in Ops, Fail(o) PROVE Roles'
    BY <1>18 DEF Fail, Undecided
  <1>19. ASSUME NEW o \in Ops, Crash(o) PROVE Roles'
    BY <1>19 DEF Crash, LastWord, Active
  <1>20. CASE WriteBack
    BY <1>20 DEF WriteBack
  <1>21. CASE PowerLoss
    BY <1>21 DEF PowerLoss, LastWord, Active
  <1>22. CASE UNCHANGED vars
    BY <1>22 DEF vars
  <1> QED
    BY <1>1, <1>2, <1>3, <1>4, <1>5, <1>6, <1>7, <1>8, <1>9, <1>10, <1>11, <1>12, <1>13,
       <1>14, <1>15, <1>16, <1>17, <1>18, <1>19, <1>20, <1>21, <1>22 DEF Next,
       Operation, Finished

-------------------------------------------------------------------------------
(* The permission bits.                                                    *)

LEMMA RequestsStay == [Next]_vars => request' = request
  <1> SUFFICES ASSUME [Next]_vars PROVE request' = request
    OBVIOUS
  <1>1. ASSUME NEW o \in Ops, Operation(o) \/ Crash(o) PROVE request' = request
    BY <1>1, Zenon DEF Operation, MakeParent, ParentsMade, StatDestination, CreateTemp, Copy,
       Sync, Publish, Refuse, Cleanup, NoObject, Exists, StartDelete, Remove, AlreadyRemoved,
       Open, ReadFile, NotADirectory, Fail, LooksUp, Crash
  <1> QED
    BY <1>1 DEF Next, WriteBack, PowerLoss, Finished, vars

LEMMA DeletedStays ==
  ASSUME Typed, Decided, Roles, [Next]_vars, NEW k \in Keys, Deleted(k)
  PROVE  Deleted(k)'
  <1>1. PICK p \in Ops : request[p] = [kind |-> "delete", key |-> k] /\ answer[p] = "true"
    BY DEF Deleted
  <1>2. answer[p] \notin Files /\ answer[p] # None
    BY <1>1, ValuesAssumption
  <1>3. answer'[p] = answer[p]
    BY <1>2, StepAnswers DEF Roles
  <1> QED
    BY <1>1, <1>3, RequestsStay DEF Deleted

\* Steps that leave names and bits alone; no Save gets to where it replaces.
LEMMA BitsUndisturbed ==
  ASSUME BitsAreKept, \A k \in Keys : Deleted(k) => Deleted(k)',
         tree' = tree, disk' = disk, bits' = bits,
         \A o \in Ops, k \in Keys : Replacing(o, k)' => Replacing(o, k)
  PROVE  \A k \in Keys : Deleted(k)' \/ Given(k)' \/ Plain(k)'
  <1>1. \A k \in Keys : Given(k) => Given(k)'
    BY DEF Given
  <1>2. \A k \in Keys : Plain(k) => Plain(k)'
    BY DEF Plain
  <1> QED
    BY <1>1, <1>2 DEF BitsAreKept

\* A Save that must not overwrite does not look bits up.
LEMMA StepOwnBits ==
  Typed /\ BitsAreKept /\ [Next]_vars
    => \A o \in Ops : /\ request'[o].kind = "save" => bits'[o] = "new"
                      /\ pc'[o] = "stat" => request'[o].kind = "overwrite"
  <1> SUFFICES ASSUME Typed, BitsAreKept, [Next]_vars, NEW p \in Ops
               PROVE  /\ request'[p].kind = "save" => bits'[p] = "new"
                      /\ pc'[p] = "stat" => request'[p].kind = "overwrite"
    OBVIOUS
  <1> USE DEF Typed
  <1>1. /\ request[p].kind = "save" => bits[p] = "new"
        /\ pc[p] = "stat" => request[p].kind = "overwrite"
    BY DEF BitsAreKept
  <1>2. ASSUME NEW o \in Ops, MakeParent(o) \/ ParentsMade(o) \/ StatDestination(o)
        PROVE  /\ request'[p].kind = "save" => bits'[p] = "new"
               /\ pc'[p] = "stat" => request'[p].kind = "overwrite"
    BY <1>1, <1>2 DEF MakeParent, ParentsMade, StatDestination
  <1>3. ASSUME NEW o \in Ops, \/ CreateTemp(o) \/ Copy(o) \/ Sync(o) \/ Publish(o) \/ Refuse(o)
                              \/ Cleanup(o) \/ StartDelete(o) \/ Remove(o) \/ Fail(o)
        PROVE  bits' = bits /\ request' = request /\ (pc'[p] = "stat" => pc[p] = "stat")
    BY <1>3 DEF CreateTemp, Copy, Sync, Publish, Refuse, Cleanup, StartDelete, Remove, Fail
  <1>4. ASSUME NEW o \in Ops, \/ NoObject(o) \/ AlreadyRemoved(o) \/ Exists(o) \/ Open(o)
                              \/ ReadFile(o) \/ NotADirectory(o) \/ Crash(o)
        PROVE  bits' = bits /\ request' = request /\ (pc'[p] = "stat" => pc[p] = "stat")
    BY <1>4 DEF NoObject, AlreadyRemoved, Exists, Open, ReadFile, NotADirectory, Crash
  <1>5. CASE WriteBack \/ PowerLoss \/ UNCHANGED vars
    BY <1>1, <1>5 DEF WriteBack, PowerLoss, vars
  <1> QED
    BY <1>1, <1>2, <1>3, <1>4, <1>5 DEF Next, Operation, Finished

LEMMA StepBitsAreKept ==
  Typed /\ Decided /\ Roles /\ NamedFilesAreDecided /\ BitsAreKept /\ [Next]_vars => BitsAreKept'
  <1> DEFINE Goal == \A k \in Keys : Deleted(k)' \/ Given(k)' \/ Plain(k)'
  <1> SUFFICES ASSUME Typed, Decided, Roles, NamedFilesAreDecided, BitsAreKept, [Next]_vars
               PROVE  Goal
    BY StepOwnBits DEF BitsAreKept
  <1>0. \A k \in Keys : Deleted(k) => Deleted(k)'
    BY DeletedStays
  <1>t. /\ tree \in [Keys -> Files \cup {None, Dir}]
        /\ pc \in [Ops -> Steps] /\ bits \in [Files -> Bits]
        /\ \A o \in Ops : Key(o) \in Keys
    BY DEF Typed, Trees
  <1>v. None \notin Files /\ Dir \notin Files /\ None # Dir
    BY ValuesAssumption
  <1> USE <1>t, <1>v
  <1>1. ASSUME NEW o \in Ops, \/ ParentsMade(o) \/ CreateTemp(o) \/ Copy(o) \/ Sync(o) \/ Refuse(o)
                              \/ Cleanup(o) \/ StartDelete(o) \/ NoObject(o)
                              \/ AlreadyRemoved(o) \/ Exists(o) \/ Open(o) \/ ReadFile(o)
                              \/ NotADirectory(o) \/ Fail(o)
        PROVE  Goal
    <2>1. tree' = tree /\ disk' = disk /\ bits' = bits /\ request' = request
      BY <1>1 DEF ParentsMade, CreateTemp, Copy, Sync, Refuse, Cleanup, StartDelete, NoObject,
         AlreadyRemoved, Exists, Open, ReadFile, NotADirectory, Fail
    <2>2. \/ \E goal \in Steps \ {"temp", "copy", "sync", "publish"} :
               pc' = [pc EXCEPT ![o] = goal]
          \/ \E goal \in {"copy", "sync", "publish"} :
               pc[o] \in {"temp", "copy", "sync"} /\ pc' = [pc EXCEPT ![o] = goal]
          \/ request[o].kind # "overwrite" /\ pc' = [pc EXCEPT ![o] = "temp"]
      <3>1. CASE ParentsMade(o)
        BY <3>1 DEF ParentsMade, Steps
      <3>2. CASE CreateTemp(o) \/ Copy(o) \/ Sync(o)
        BY <3>2 DEF CreateTemp, Copy, Sync
      <3>3. CASE Refuse(o) \/ Cleanup(o) \/ StartDelete(o) \/ Fail(o)
        BY <3>3 DEF Refuse, Cleanup, StartDelete, Fail, Steps
      <3>4. CASE \/ NoObject(o) \/ AlreadyRemoved(o) \/ Exists(o) \/ Open(o) \/ ReadFile(o)
                 \/ NotADirectory(o)
        BY <3>4 DEF NoObject, AlreadyRemoved, Exists, Open, ReadFile, NotADirectory, Steps
      <3> QED
        BY <1>1, <3>1, <3>2, <3>3, <3>4
    <2>3. ASSUME NEW p \in Ops, NEW k \in Keys, Replacing(p, k)' PROVE Replacing(p, k)
      <3>1. CASE p # o
        BY <2>1, <2>2, <2>3, <3>1 DEF Replacing
      <3>2. CASE p = o
        BY <2>1, <2>2, <2>3, <3>2 DEF Replacing
      <3> QED
        BY <3>1, <3>2
    <2> QED
      BY <1>0, <2>1, <2>3, BitsUndisturbed
  \* A directory comes where nothing was: what a Save took for missing.
  <1>2. ASSUME NEW o \in Ops, MakeParent(o) PROVE Goal
    <2>1. PICK d \in Ancestors[Key(o)] : tree[d] = None /\ tree' = [tree EXCEPT ![d] = Dir]
      BY <1>2 DEF MakeParent, Name
    <2>2. d \in Keys
      BY <2>1, AncestorsAssumption
    <2>3. /\ disk' = disk /\ bits' = bits /\ request' = request
          /\ pc' = [pc EXCEPT ![o] = "mkdir"]
      BY <1>2 DEF MakeParent
    <2>4. \A p \in Ops, k \in Keys : Replacing(p, k)' => Replacing(p, k)
      BY <2>3 DEF Replacing
    <2>5. ASSUME NEW k \in Keys, Given(k) PROVE Given(k)'
      <3>1. tree'[k] = tree[k]
        BY <2>1, <2>5 DEF Given
      <3> QED
        BY <2>3, <2>4, <2>5, <3>1 DEF Given
    <2>6. ASSUME NEW k \in Keys, Plain(k) PROVE Plain(k)'
      <3>1. tree'[k] \in {tree[k], Dir} /\ (tree[k] = Dir => tree'[k] = Dir)
        BY <2>1, <2>2
      <3> QED
        BY <2>3, <2>4, <2>6, <3>1 DEF Plain
    <2> QED
      BY <1>0, <2>5, <2>6 DEF BitsAreKept
  <1>3. ASSUME NEW o \in Ops, StatDestination(o) PROVE Goal
    <2>1. /\ tree' = tree /\ disk' = disk /\ request' = request
          /\ pc' = [pc EXCEPT ![o] = "temp"]
          /\ bits' = [bits EXCEPT ![o] = IF At(o) = Dir THEN "directory"
                                        ELSE IF At(o) \in Files THEN bits[At(o)] ELSE "new"]
      BY <1>3 DEF StatDestination
    <2>2. \A k \in Keys : tree[k] # o /\ disk.tree[k] # o
      <3>1. answer[o] = None
        BY <1>3 DEF StatDestination, Decided, Undecided
      <3> QED
        BY <3>1 DEF NamedFilesAreDecided
    <2>3. \A p \in Ops, k \in Keys : p # o /\ Replacing(p, k)' => Replacing(p, k)
      BY <2>1 DEF Replacing
    <2>4. ASSUME NEW k \in Keys, Given(k) PROVE Given(k)'
      <3>1. Replacing(o, k)' => bits'[o] = "given"
        BY <2>1, <2>4 DEF Given, Replacing
      <3> QED
        BY <2>1, <2>2, <2>3, <2>4, <3>1 DEF Given
    <2>5. ASSUME NEW k \in Keys, Plain(k) PROVE Plain(k)'
      <3>1. Replacing(o, k)' => bits'[o] = "new" \/ tree[k] = Dir
        BY <2>1, <2>5 DEF Plain, Replacing
      <3> QED
        BY <2>1, <2>2, <2>3, <2>5, <3>1 DEF Plain
    <2> QED
      BY <1>0, <2>4, <2>5 DEF BitsAreKept
  \* Where an object was given its bits, only a Save that has them replaces it.
  <1>4. ASSUME NEW o \in Ops, Publish(o) PROVE Goal
    <2>1. /\ tree' = [tree EXCEPT ![Key(o)] = o] /\ disk' = disk /\ bits' = bits
          /\ request' = request /\ pc[o] = "publish" /\ ~Taken(o) /\ Key(o) \in Keys
      BY <1>4 DEF Publish, Name
    <2>2. request[o].kind \in Saves
      BY <2>1 DEF Roles
    <2>3. \A p \in Ops, k \in Keys : Replacing(p, k)' => Replacing(p, k)
      BY <1>4 DEF Publish, Replacing
    <2>4. ASSUME NEW k \in Keys, Given(k) PROVE Given(k)'
      <3>1. k = Key(o) => At(o) # None
        BY <2>4 DEF Given
      <3>2. k = Key(o) => Replacing(o, k)
        BY <2>1, <2>2, <3>1 DEF Replacing, Taken, Saves
      <3> QED
        BY <2>1, <2>3, <2>4, <3>2 DEF Given
    <2>5. ASSUME NEW k \in Keys, Plain(k) PROVE Plain(k)'
      <3>1. At(o) # Dir
        BY <2>1 DEF Taken
      <3>2. k = Key(o) => bits[o] = "new"
        BY <2>1, <2>2, <2>5, <3>1 DEF Plain, Replacing, Saves, BitsAreKept
      <3>3. ASSUME NEW p \in Ops, Replacing(p, k)' PROVE bits[p] = "new" \/ tree'[k] = Dir
        BY <2>1, <2>3, <2>5, <3>1, <3>3 DEF Plain, Replacing
      <3> QED
        BY <2>1, <2>5, <3>2, <3>3 DEF Plain
    <2> QED
      BY <1>0, <2>4, <2>5 DEF BitsAreKept
  <1>5. ASSUME NEW o \in Ops, Remove(o) PROVE Goal
    <2>1. /\ tree' = [tree EXCEPT ![Key(o)] = None] /\ disk' = disk /\ bits' = bits
          /\ request' = request /\ request[o].kind = "delete" /\ Key(o) \in Keys
      BY <1>5 DEF Remove, Name, Roles
    <2>2. request[o] = [kind |-> "delete", key |-> Key(o)] /\ answer'[o] = "true"
      BY <1>5, <2>1 DEF Remove, Typed
    <2>3. \A p \in Ops, k \in Keys : Replacing(p, k)' => Replacing(p, k)
      BY <1>5 DEF Remove, Replacing
    <2>4. ASSUME NEW k \in Keys, k # Key(o) PROVE (Given(k) => Given(k)') /\ (Plain(k) => Plain(k)')
      BY <2>1, <2>3, <2>4 DEF Given, Plain
    <2>5. ASSUME NEW k \in Keys PROVE Deleted(k)' \/ Given(k)' \/ Plain(k)'
      <3>1. CASE k = Key(o)
        BY <2>1, <2>2, <3>1 DEF Deleted
      <3>2. CASE k # Key(o)
        BY <1>0, <2>4, <3>2 DEF BitsAreKept
      <3> QED
        BY <3>1, <3>2
    <2> QED
      BY <2>5
  <1>6. ASSUME NEW o \in Ops, Crash(o) PROVE Goal
    BY <1>0, <1>6, BitsUndisturbed DEF Crash, Replacing
  <1>7. CASE WriteBack
    <2>1. tree' = tree /\ disk'.tree = tree /\ bits' = bits /\ pc' = pc /\ request' = request
      BY <1>7 DEF WriteBack
    <2>2. \A k \in Keys : (Given(k) => Given(k)') /\ (Plain(k) => Plain(k)')
      BY <2>1 DEF Given, Plain, Replacing
    <2> QED
      BY <1>0, <2>2 DEF BitsAreKept
  <1>8. CASE PowerLoss
    <2>1. tree' = disk.tree /\ disk' = disk /\ bits' = bits /\ request' = request
      BY <1>8 DEF PowerLoss
    <2>2. \A p \in Ops, k \in Keys : ~Replacing(p, k)'
      BY <1>8 DEF PowerLoss, Replacing, Active
    <2>3. \A k \in Keys : (Given(k) => Given(k)') /\ (Plain(k) => Plain(k)')
      BY <2>1, <2>2 DEF Given, Plain
    <2> QED
      BY <1>0, <2>3 DEF BitsAreKept
  <1>9. CASE UNCHANGED vars
    BY <1>0, <1>9, BitsUndisturbed DEF vars, Replacing
  <1> QED
    BY <1>1, <1>2, <1>3, <1>4, <1>5, <1>6, <1>7, <1>8, <1>9 DEF Next, Operation, Finished

LEMMA InitInv == Init => IInv
  <1> SUFFICES ASSUME Init PROVE IInv
    OBVIOUS
  <1>1. TypeOK
    BY InitTypeOK
  <1>2. PublishedFilesAreSynced
    BY ValuesAssumption DEF Init, PublishedFilesAreSynced
  <1>3. Prepared /\ TempsHaveDirectories /\ NamedFilesAreDecided /\ Roles
    <2>1. \A k \in Keys : tree[k] \notin Ops
      BY <1>1, ValuesAssumption DEF Init
    <2> QED
      BY <2>1, ValuesAssumption DEF Init, Prepared, TempsHaveDirectories,
         NamedFilesAreDecided, Roles
  <1>4. BitsAreKept
    <2>1. \A k \in Keys : /\ disk.tree[k] = tree[k] /\ tree[k] \in {Old, None, Dir}
                          /\ tree[k] \in Files => bits[tree[k]] = "given" /\ tree[k] = Old
      BY ValuesAssumption DEF Init
    <2>2. \A o \in Ops : pc[o] = "idle" /\ bits[o] = "new"
      BY ValuesAssumption DEF Init
    <2>3. \A o \in Ops, k \in Keys : ~Replacing(o, k)
      BY <2>2 DEF Replacing
    <2>4. ASSUME NEW k \in Keys PROVE Given(k) \/ Plain(k)
      <3>1. CASE tree[k] \in Files
        BY <2>1, <2>3, <3>1 DEF Given
      <3>2. CASE tree[k] \notin Files
        BY <2>1, <2>3, <3>2 DEF Plain
      <3> QED
        BY <3>1, <3>2
    <2> QED
      BY <2>2, <2>4 DEF BitsAreKept
  <1> QED
    BY <1>1, <1>2, <1>3, <1>4 DEF IInv

LEMMA StepInv == IInv /\ [Next]_vars => IInv'
  <1> SUFFICES ASSUME IInv, [Next]_vars PROVE IInv'
    OBVIOUS
  <1>1. Typed /\ Decided /\ Tidy
    BY Parts DEF IInv
  <1>2. Typed' /\ Decided' /\ Tidy'
    BY <1>1, StepTyped, StepDecided, StepTidy DEF IInv
  <1>3. TypeOK'
    BY <1>2 DEF TypeOK, Typed, Decided, Tidy
  <1>4. Prepared' /\ TempsHaveDirectories' /\ NamedFilesAreDecided'
    BY <1>1, StepPrepared, StepTempsHaveDirectories, StepNamedFilesAreDecided DEF IInv
  <1>5. PublishedFilesAreSynced'
    BY <1>1, StepPublishedFilesAreSynced DEF IInv
  <1>6. Roles'
    BY <1>1, StepRoles DEF IInv
  <1>7. BitsAreKept'
    BY <1>1, StepBitsAreKept DEF IInv
  <1> QED
    BY <1>3, <1>4, <1>5, <1>6, <1>7 DEF IInv

LEMMA Invariance == Spec => []IInv
  <1> QED BY InitInv, StepInv, PTL DEF Spec

\* Every reachable state is well typed, the tree in particular is one.
THEOREM TypeCorrect == Spec => []TypeOK
  <1>1. IInv => TypeOK
    BY DEF IInv
  <1> QED BY <1>1, Invariance, PTL

\* Only complete, synced files have a name or a reader (filesystem.go:115).
THEOREM OnlySyncedFilesArePublished == Spec => []PublishedFilesAreSynced
  <1>1. IInv => PublishedFilesAreSynced
    BY DEF IInv
  <1> QED BY <1>1, Invariance, PTL

\* A Save that has returned has left no temporary file (docs/providers.md:130).
THEOREM SavesCleanUp == Spec => []NothingLeftBehind
  <1>1. IInv => NothingLeftBehind
    BY DEF IInv, TypeOK, Prepared, NothingLeftBehind
  <1> QED BY <1>1, Invariance, PTL

\* Until a Delete of a key succeeds, no Save and no power loss changes the bits of
\* its object (docs/providers.md:132-134, filesystem.go:97).
THEOREM OverwritesKeepBitsTheorem == Spec => OverwritesKeepBits
  <1>1. IInv /\ [Next]_vars
        => [\A k \in Keys : tree[k] \in Files /\ tree'[k] \in Files /\ ~Deleted(k)
              => bits'[tree'[k]] = bits[tree[k]]]_vars
    <2> SUFFICES ASSUME IInv, [Next]_vars, NEW k \in Keys,
                        tree[k] \in Files, tree'[k] \in Files, ~Deleted(k)
                 PROVE  bits'[tree'[k]] = bits[tree[k]]
      OBVIOUS
    <2> USE AncestorsAssumption, ValuesAssumption DEF Trees, Typed
    <2>1. Typed /\ Decided /\ Roles /\ NamedFilesAreDecided /\ (Given(k) \/ Plain(k))
      BY Parts DEF IInv, BitsAreKept
    <2>2. CASE \E o \in Ops : Publish(o)
      <3>1. PICK o \in Ops : Publish(o)
        BY <2>2
      <3>2. /\ tree' = [tree EXCEPT ![Key(o)] = o] /\ bits' = bits
            /\ pc[o] = "publish" /\ ~Taken(o)
        BY <3>1 DEF Publish, Name
      <3>3. k = Key(o) => Replacing(o, k)
        BY <2>1, <3>2 DEF Replacing, Taken, Roles, Saves
      <3>4. k = Key(o) => bits[o] = bits[tree[k]]
        BY <2>1, <3>3 DEF Given, Plain
      <3> QED
        BY <2>1, <3>2, <3>4
    <2>3. CASE \E o \in Ops : MakeParent(o) \/ Remove(o)
      <3>1. bits' = bits /\ \E d \in Keys, f \in {None, Dir} : tree' = [tree EXCEPT ![d] = f]
        BY <2>1, <2>3 DEF MakeParent, Remove, Name
      <3>2. tree'[k] = tree[k]
        BY <2>1, <3>1
      <3> QED
        BY <3>1, <3>2
    <2>4. CASE \E o \in Ops : StatDestination(o)
      <3>1. PICK o \in Ops : StatDestination(o)
        BY <2>4
      <3>2. tree[k] # o
        BY <2>1, <3>1 DEF StatDestination, Decided, Undecided, NamedFilesAreDecided
      <3> QED
        BY <2>1, <3>1, <3>2 DEF StatDestination
    <2>5. CASE PowerLoss
      <3>1. bits' = bits /\ tree'[k] = disk.tree[k]
        BY <2>5 DEF PowerLoss
      <3> QED
        BY <2>1, <3>1 DEF Given, Plain
    <2>6. ASSUME NEW o \in Ops, \/ ParentsMade(o) \/ CreateTemp(o) \/ Copy(o) \/ Sync(o)
                                \/ Refuse(o) \/ Cleanup(o) \/ StartDelete(o) \/ NoObject(o)
                                \/ AlreadyRemoved(o) \/ Exists(o) \/ Open(o) \/ ReadFile(o)
                                \/ NotADirectory(o) \/ Fail(o) \/ Crash(o)
          PROVE  bits' = bits /\ tree' = tree
      BY <2>6 DEF ParentsMade, CreateTemp, Copy, Sync, Refuse, Cleanup, StartDelete, NoObject,
         AlreadyRemoved, Exists, Open, ReadFile, NotADirectory, Fail, Crash
    <2>7. CASE WriteBack \/ UNCHANGED vars
      BY <2>7 DEF WriteBack, vars
    <2> QED
      BY <2>2, <2>3, <2>4, <2>5, <2>6, <2>7 DEF Next, Operation, Finished
  <1> QED BY <1>1, Invariance, PTL DEF Spec, OverwritesKeepBits

-------------------------------------------------------------------------------
(* The promise.  As only synced files are published, the objects a caller  *)
(* can see are the files that the tree names.                              *)

View(t) == [k \in Keys |-> IF t[k] \in Files THEN t[k] ELSE None]

PromiseVars == <<request, Seen(tree), Seen(disk.tree), PromisedAnswer>>

LEMMA SeenIsView ==
  ASSUME PublishedFilesAreSynced
  PROVE  Seen(tree) = View(tree) /\ Seen(disk.tree) = View(disk.tree)
  BY DEF PublishedFilesAreSynced, Seen, View, Content

LEMMA SeenIsViewNext ==
  ASSUME PublishedFilesAreSynced'
  PROVE  Seen(tree)' = View(tree)' /\ Seen(disk.tree)' = View(disk.tree)'
  BY DEF PublishedFilesAreSynced, Seen, View, Content

\* A step of one operation that leaves the tree and the disk alone.
LEMMA SameView ==
  ASSUME PublishedFilesAreSynced, PublishedFilesAreSynced', tree' = tree, disk' = disk
  PROVE  Seen(tree)' = Seen(tree) /\ Seen(disk.tree)' = Seen(disk.tree)
  <1>1. View(tree)' = View(tree) /\ View(disk.tree)' = View(disk.tree)
    BY DEF View
  <1>2. Seen(tree)' = View(tree)' /\ Seen(disk.tree)' = View(disk.tree)'
    BY SeenIsViewNext
  <1> QED
    BY <1>1, <1>2, SeenIsView

\* A step that gives one name another meaning.
LEMMA ViewExcept ==
  ASSUME PublishedFilesAreSynced, PublishedFilesAreSynced', Typed,
         NEW k \in Keys, NEW f \in Files \cup {None, Dir},
         tree' = [tree EXCEPT ![k] = f], disk' = disk
  PROVE  /\ Seen(tree)' = [Seen(tree) EXCEPT ![k] = IF f \in Files THEN f ELSE None]
         /\ Seen(disk.tree)' = Seen(disk.tree)
  <1>1. /\ View(tree)' = [View(tree) EXCEPT ![k] = IF f \in Files THEN f ELSE None]
        /\ View(disk.tree)' = View(disk.tree)
    BY DEF View, Typed, Trees
  <1>2. Seen(tree)' = View(tree)' /\ Seen(disk.tree)' = View(disk.tree)'
    BY SeenIsViewNext
  <1> QED
    BY <1>1, <1>2, SeenIsView

LEMMA AnswerExcept ==
  ASSUME Typed, NEW o \in Ops, NEW a, answer' = [answer EXCEPT ![o] = a]
  PROVE  PromisedAnswer' = [PromisedAnswer EXCEPT
                              ![o] = IF a = "not a directory" THEN "error" ELSE a]
  BY DEF PromisedAnswer, Typed

LEMMA StillUndecided ==
  ASSUME Decided, NEW o \in Ops, Undecided(o)
  PROVE  PromisedAnswer[o] = None
  BY ValuesAssumption DEF PromisedAnswer, Decided

\* What is seen under the key of an operation that looks at its path.
LEMMA SeenAtKey ==
  ASSUME Typed, Tidy, PublishedFilesAreSynced, NEW o \in Ops
  PROVE  /\ HasFile(o) => Seen(tree)[Key(o)] = At(o) /\ At(o) # None
         /\ ~HasFile(o) /\ ~NotADir(o) => Seen(tree)[Key(o)] = None
         /\ At(o) \notin Files => Seen(tree)[Key(o)] = None
         /\ At(o) \in Files => Seen(tree)[Key(o)] = At(o) /\ At(o) # None
         /\ At(o) = Dir => Key(o) \in Prefixes
  <1>1. Key(o) \in Keys
    BY DEF Typed
  <1>2. Seen(tree)[Key(o)] = IF At(o) \in Files THEN At(o) ELSE None
    BY <1>1, SeenIsView DEF View
  <1>3. At(o) # None => Walkable(o)
    BY <1>1 DEF Tidy, WellFormed, Walkable
  <1> QED
    BY <1>1, <1>2, <1>3, ValuesAssumption DEF HasFile, Tidy, WellFormed

LEMMA InitRefines == Init => Promise!Init
  <1> SUFFICES ASSUME Init PROVE Promise!Init
    OBVIOUS
  <1>1. IInv
    BY InitInv
  <1>2. Seen(tree) = View(tree) /\ Seen(disk.tree) = View(disk.tree) /\ disk.tree = tree
    BY <1>1, SeenIsView DEF IInv, Init
  <1>3. View(tree) \in [Keys -> {Old, None}]
    BY ValuesAssumption DEF Init, View
  <1>4. PromisedAnswer = [o \in Ops |-> None]
    BY ValuesAssumption DEF Init, PromisedAnswer
  <1>5. request \in [Ops -> [kind : Promise!Kinds, key : Keys]]
    BY RequestsAssumption DEF Init, Promise!Kinds
  <1> QED
    BY <1>2, <1>3, <1>4, <1>5 DEF Promise!Init

\* Of a power loss the promise says more than of the other steps.
LEMMA StepRefines ==
  IInv /\ IInv' /\ [Next]_vars => [Promise!Step]_PromiseVars \/ (PowerLoss /\ Promise!PowerLoss)
  <1> DEFINE Goal == \/ Promise!Step \/ UNCHANGED PromiseVars
                     \/ PowerLoss /\ Promise!PowerLoss
  <1> SUFFICES ASSUME IInv, IInv', [Next]_vars PROVE Goal
    OBVIOUS
  <1>1. /\ Typed /\ Decided /\ Tidy /\ Roles /\ Prepared
        /\ PublishedFilesAreSynced /\ PublishedFilesAreSynced'
    BY Parts DEF IInv
  <1>2. ASSUME tree' = tree, disk' = disk, request' = request,
               UNCHANGED answer
        PROVE  Goal
    <2>1. Seen(tree)' = Seen(tree) /\ Seen(disk.tree)' = Seen(disk.tree)
      BY <1>1, <1>2, SameView
    <2>2. PromisedAnswer' = PromisedAnswer
      BY <1>2 DEF PromisedAnswer
    <2> QED
      BY <1>2, <2>1, <2>2 DEF PromiseVars
  \* An operation that fails, for whatever reason.
  <1>3. ASSUME NEW o \in Ops, Undecided(o), NEW a \in {"error", "not a directory"},
               answer' = [answer EXCEPT ![o] = a], tree' = tree, disk' = disk, request' = request
        PROVE  Goal
    <2>1. Seen(tree)' = Seen(tree) /\ Seen(disk.tree)' = Seen(disk.tree)
      BY <1>1, <1>3, SameView
    <2>2. PromisedAnswer[o] = None /\ PromisedAnswer' = [PromisedAnswer EXCEPT ![o] = "error"]
      BY <1>1, <1>3, StillUndecided, AnswerExcept
    <2>3. Promise!Fail(o)
      BY <1>3, <2>1, <2>2 DEF Promise!Fail, Promise!Decide
    <2> QED
      BY <2>3 DEF Promise!Step, Promise!Operation
  <1>4. ASSUME NEW o \in Ops, MakeParent(o) PROVE Goal
    <2>1. Key(o) \in Keys
      BY <1>1 DEF Typed
    <2>2. PICK d \in Ancestors[Key(o)] : tree[d] = None /\ tree' = [tree EXCEPT ![d] = Dir]
      BY <1>4 DEF MakeParent, Name
    <2>3. d \in Keys
      BY <2>1, <2>2, AncestorsAssumption
    <2>4. /\ Seen(tree)' = [Seen(tree) EXCEPT ![d] = None]
          /\ Seen(disk.tree)' = Seen(disk.tree)
      BY <1>1, <1>4, <2>2, <2>3, ViewExcept, ValuesAssumption DEF MakeParent
    <2>5. Seen(tree)[d] = None
      BY <1>1, <2>2, <2>3, SeenIsView, ValuesAssumption DEF View
    <2>6. Seen(tree)' = Seen(tree)
      BY <2>4, <2>5 DEF Seen
    <2>7. PromisedAnswer' = PromisedAnswer /\ request' = request
      BY <1>4 DEF MakeParent, PromisedAnswer
    <2> QED
      BY <2>4, <2>6, <2>7 DEF PromiseVars
  <1>5. ASSUME NEW o \in Ops, Publish(o) PROVE Goal
    <2>1. Key(o) \in Keys /\ request[o].kind \in {"save", "overwrite"} /\ Undecided(o)
      BY <1>1, <1>5 DEF Typed, Roles, Publish, Undecided, Saves
    <2>2. /\ Seen(tree)' = [Seen(tree) EXCEPT ![Key(o)] = o]
          /\ Seen(disk.tree)' = Seen(disk.tree)
      BY <1>1, <1>5, <2>1, ViewExcept DEF Publish, Name
    <2>3. PromisedAnswer[o] = None /\ PromisedAnswer' = [PromisedAnswer EXCEPT ![o] = "saved"]
      BY <1>1, <1>5, <2>1, StillUndecided, AnswerExcept DEF Publish
    <2>4. request[o].kind = "save" => At(o) = None
      BY <1>5 DEF Publish, Taken
    <2>5. request[o].kind = "save" => Seen(tree)[Key(o)] = None
      BY <1>1, <2>4, SeenAtKey, ValuesAssumption
    <2>6. Promise!Publish(o)
      BY <1>5, <2>1, <2>2, <2>3, <2>5
      DEF Publish, Promise!Publish, Promise!Asks, Promise!Decide, Promise!Object, Promise!Put
    <2> QED
      BY <2>6 DEF Promise!Step, Promise!Operation
  <1>6. ASSUME NEW o \in Ops, Refuse(o) PROVE Goal
    <2>1. request[o].kind \in {"save", "overwrite"} /\ Undecided(o)
      BY <1>1, <1>6 DEF Roles, Refuse, Undecided, Saves
    <2>2. Seen(tree)' = Seen(tree) /\ Seen(disk.tree)' = Seen(disk.tree)
      BY <1>1, <1>6, SameView DEF Refuse
    <2>3. PromisedAnswer[o] = None /\ PromisedAnswer' = [PromisedAnswer EXCEPT ![o] = "file exists"]
      BY <1>1, <1>6, <2>1, StillUndecided, AnswerExcept DEF Refuse
    <2>4. At(o) = Dir \/ (request[o].kind = "save" /\ At(o) \in Files)
      BY <1>1, <1>6, <2>1 DEF Refuse, Taken, Typed, Trees
    <2>5. \/ request[o].kind = "save" /\ Seen(tree)[Key(o)] # None
          \/ Key(o) \in Prefixes
      BY <1>1, <2>4, SeenAtKey
    <2>6. Promise!Refuse(o)
      BY <1>6, <2>1, <2>2, <2>3, <2>5
      DEF Refuse, Promise!Refuse, Promise!Asks, Promise!Decide, Promise!Object
    <2> QED
      BY <2>6 DEF Promise!Step, Promise!Operation
  <1>7. ASSUME NEW o \in Ops, Remove(o) PROVE Goal
    <2>1. Key(o) \in Keys /\ request[o].kind = "delete" /\ Undecided(o)
      BY <1>1, <1>7 DEF Typed, Roles, Remove, Undecided
    <2>2. /\ Seen(tree)' = [Seen(tree) EXCEPT ![Key(o)] = None]
          /\ Seen(disk.tree)' = Seen(disk.tree)
      BY <1>1, <1>7, <2>1, ViewExcept, ValuesAssumption DEF Remove, Name
    <2>3. PromisedAnswer[o] = None /\ PromisedAnswer' = [PromisedAnswer EXCEPT ![o] = "true"]
      BY <1>1, <1>7, <2>1, StillUndecided, AnswerExcept DEF Remove
    <2>4. Seen(tree)[Key(o)] # None \/ Key(o) \in Prefixes
      BY <1>1, <1>7, SeenAtKey DEF Remove
    <2>5. Promise!Remove(o)
      BY <1>7, <2>1, <2>2, <2>3, <2>4
      DEF Remove, Promise!Remove, Promise!Asks, Promise!Decide, Promise!Object, Promise!Put
    <2> QED
      BY <2>5 DEF Promise!Step, Promise!Operation
  \* Nothing is there to delete or to read.
  <1>8. ASSUME NEW o \in Ops, NoObject(o) \/ AlreadyRemoved(o) PROVE Goal
    <2>1. request[o].kind \in {"delete", "exists", "get"} /\ Undecided(o)
      BY <1>1, <1>8 DEF Roles, NoObject, AlreadyRemoved, Undecided
    <2>2. /\ tree' = tree /\ disk' = disk /\ request' = request
          /\ answer' = [answer EXCEPT ![o] = "false"]
      BY <1>8 DEF NoObject, AlreadyRemoved
    <2>3. Seen(tree)' = Seen(tree) /\ Seen(disk.tree)' = Seen(disk.tree)
      BY <1>1, <2>2, SameView
    <2>4. PromisedAnswer[o] = None /\ PromisedAnswer' = [PromisedAnswer EXCEPT ![o] = "false"]
      BY <1>1, <2>1, <2>2, StillUndecided, AnswerExcept
    <2>5. ~NotADir(o) /\ ~HasFile(o)
      BY <1>8, ValuesAssumption DEF NoObject, AlreadyRemoved, Missing, HasFile
    <2>6. Seen(tree)[Key(o)] = None
      BY <1>1, <2>5, SeenAtKey
    <2>7. Promise!Miss(o)
      BY <2>1, <2>2, <2>3, <2>4, <2>6 DEF Promise!Miss, Promise!Asks, Promise!Decide,
         Promise!Object
    <2> QED
      BY <2>7 DEF Promise!Step, Promise!Operation
  <1>9. ASSUME NEW o \in Ops, Exists(o) \/ Open(o) PROVE Goal
    <2> DEFINE a == IF request[o].kind = "get" THEN At(o) ELSE "true"
    <2>1. request[o].kind \in {"exists", "get"} /\ Undecided(o) /\ HasFile(o)
      BY <1>9 DEF Exists, Open, LooksUp, Undecided
    <2>2. /\ tree' = tree /\ disk' = disk /\ request' = request
          /\ answer' = [answer EXCEPT ![o] = a]
      BY <1>9 DEF Exists, Open, LooksUp
    <2>3. Seen(tree)' = Seen(tree) /\ Seen(disk.tree)' = Seen(disk.tree)
      BY <1>1, <2>2, SameView
    <2>4. a # "not a directory"
      BY <2>1, ValuesAssumption DEF HasFile
    <2>5. PromisedAnswer[o] = None /\ PromisedAnswer' = [PromisedAnswer EXCEPT ![o] = a]
      BY <1>1, <2>1, <2>2, <2>4, StillUndecided, AnswerExcept
    <2>6. Seen(tree)[Key(o)] = At(o) /\ At(o) # None
      BY <1>1, <2>1, SeenAtKey
    <2>7. Promise!Read(o)
      BY <2>1, <2>2, <2>3, <2>5, <2>6 DEF Promise!Read, Promise!Asks, Promise!Decide,
         Promise!Object
    <2> QED
      BY <2>7 DEF Promise!Step, Promise!Operation
  <1>10. ASSUME NEW o \in Ops, ReadFile(o) PROVE Goal
    <2>1. Content(answer[o]) = answer[o]
      BY <1>1, <1>10 DEF ReadFile, Roles, Content, PublishedFilesAreSynced
    <2>2. answer' = answer
      BY <1>1, <1>10, <2>1 DEF ReadFile, Typed
    <2> QED
      BY <1>2, <1>10, <2>2 DEF ReadFile
  <1>11. ASSUME NEW o \in Ops, NotADirectory(o) \/ Fail(o) PROVE Goal
    <2>1. Undecided(o)
      BY <1>11 DEF NotADirectory, Fail, Preparing, Undecided
    <2> QED
      BY <1>3, <1>11, <2>1 DEF NotADirectory, Fail
  <1>12. ASSUME NEW o \in Ops, Crash(o) PROVE Goal
    <2>1. CASE answer[o] = None
      <3>1. Undecided(o)
        BY <1>1, <2>1 DEF Decided
      <3> QED
        BY <1>3, <1>12, <2>1, <3>1 DEF Crash, LastWord
    <2>2. CASE answer[o] # None
      <3>1. answer' = answer
        BY <1>1, <1>12, <2>2 DEF Crash, LastWord, Typed
      <3> QED
        BY <1>2, <1>12, <3>1 DEF Crash
    <2> QED
      BY <2>1, <2>2
  <1>13. ASSUME WriteBack PROVE Goal
    <2>1. View(tree)' = View(tree) /\ View(disk.tree)' = View(tree)
      BY <1>13 DEF WriteBack, View
    <2>2. PromisedAnswer' = PromisedAnswer /\ request' = request
      BY <1>13 DEF WriteBack, PromisedAnswer
    <2>3. Seen(tree)' = View(tree)' /\ Seen(disk.tree)' = View(disk.tree)'
      BY <1>1, SeenIsViewNext
    <2>4. Promise!Persist
      BY <1>1, <2>1, <2>2, <2>3, SeenIsView DEF Promise!Persist
    <2> QED
      BY <2>4 DEF Promise!Step
  <1>14. ASSUME PowerLoss PROVE Goal
    <2>1. View(tree)' = View(disk.tree) /\ View(disk.tree)' = View(disk.tree)
      BY <1>14 DEF PowerLoss, View
    <2>2. Seen(tree)' = View(tree)' /\ Seen(disk.tree)' = View(disk.tree)'
      BY <1>1, SeenIsViewNext
    <2>3. Seen(tree)' = Seen(disk.tree) /\ Seen(disk.tree)' = Seen(disk.tree)
      BY <1>1, <2>1, <2>2, SeenIsView
    <2>4. \A o \in Ops : /\ PromisedAnswer[o] \in Promise!Answers \cup {None}
                         /\ answer'[o] = LastWord(o)
      BY <1>1, <1>14 DEF PowerLoss, PromisedAnswer, Typed, Roles, Answers, Words,
         Promise!Answers,
                         Promise!Objects
    <2>5. \A o \in Ops : PromisedAnswer'[o] \in {PromisedAnswer[o], "error"}
      BY <2>4 DEF PromisedAnswer, LastWord
    <2>6. PromisedAnswer' \in [Ops -> Promise!Answers \cup {None}]
      BY <2>4, <2>5 DEF PromisedAnswer, Promise!Answers
    <2>7. Promise!PowerLoss
      BY <1>14, <2>3, <2>5, <2>6 DEF PowerLoss, Promise!PowerLoss
    <2> QED
      BY <1>14, <2>7
  <1>15. ASSUME NEW o \in Ops, \/ ParentsMade(o) \/ StatDestination(o) \/ CreateTemp(o) \/ Copy(o)
                               \/ Sync(o) \/ Cleanup(o) \/ StartDelete(o)
         PROVE  Goal
    BY <1>2, <1>15 DEF ParentsMade, StatDestination, CreateTemp, Copy, Sync, Cleanup,
       StartDelete
  <1>16. CASE UNCHANGED vars
    BY <1>2, <1>16 DEF vars
  <1> QED
    BY <1>4, <1>5, <1>6, <1>7, <1>8, <1>9, <1>10, <1>11, <1>12, <1>13, <1>14, <1>15, <1>16
    DEF Next, Operation, Finished

\* The filesystem backend keeps the promise of ObjectStore, for any number of
\* concurrent operations, crashes and power losses.
THEOREM FileStoreKeepsPromise == Spec => ImplementsObjectStore
  <1>1. IInv /\ IInv' /\ [Next]_vars => [Promise!Next]_Promise!vars
    BY StepRefines DEF Promise!Next, Promise!vars, PromiseVars
  <1> QED
    BY <1>1, InitRefines, Invariance, PTL DEF Spec, ImplementsObjectStore, Promise!Spec

\* What ObjectStoreProofs shows of the promise.
Store == INSTANCE ObjectStoreProofs
           WITH objects <- Seen(tree), durable <- Seen(disk.tree), answer <- PromisedAnswer

LEMMA StoreStep == ASSUME [Promise!Step]_PromiseVars PROVE [Store!Step]_Store!vars
  BY DEF PromiseVars, Store!vars, Promise!Step, Store!Step, Promise!Persist, Store!Persist,
     Promise!Operation, Promise!Publish, Promise!Refuse, Promise!Remove, Promise!Read,
     Promise!Miss, Promise!Fail, Promise!Asks, Promise!Decide, Promise!Object, Promise!Put,
     Store!Operation, Store!Publish, Store!Refuse, Store!Remove, Store!Read,
     Store!Miss, Store!Fail, Store!Asks, Store!Decide, Store!Object, Store!Put

LEMMA LossesCount == [Next]_vars => losses' = losses \/ (PowerLoss /\ losses' = losses + 1)
  <1> SUFFICES ASSUME [Next]_vars PROVE losses' = losses \/ (PowerLoss /\ losses' = losses + 1)
    OBVIOUS
  <1>1. ASSUME NEW o \in Ops, Operation(o) PROVE losses' = losses
    BY Zenon, <1>1 DEF Operation, MakeParent, ParentsMade, StatDestination, CreateTemp, Copy, Sync,
       Publish, Refuse, Cleanup, NoObject, Exists, StartDelete, Remove, AlreadyRemoved, Open,
       ReadFile, NotADirectory, Fail, Return, Goto
  <1>2. ASSUME NEW o \in Ops, Crash(o) PROVE losses' = losses
    BY <1>2 DEF Crash
  <1> QED
    BY <1>1, <1>2 DEF Next, WriteBack, PowerLoss, Finished, vars

\* As long as no power was lost, a Save that succeeded is undone by nothing but an
\* overwriting Save or a Delete, two exclusive Saves of one key do not both succeed unless
\* a Delete did, and what GetOrNil opens was saved under its key, however many operations
\* race, fail or die.
THEOREM CallersMayRely ==
  Spec => [](losses = 0 => /\ Store!SavedStays /\ Store!ExclusiveSavesExclude
                           /\ Store!ObjectsWereSaved)
  <1> DEFINE Inv == losses = 0 => Store!IInv
  <1>1. Store!Distinct
    BY ValuesAssumption DEF Store!Distinct
  <1>2. Init => Inv
    <2> SUFFICES ASSUME Init PROVE Store!IInv
      OBVIOUS
    <2>1. Store!Init
      BY InitRefines DEF Promise!Init, Store!Init, Promise!Kinds, Store!Kinds
    <2> QED
      BY <1>1, <2>1, Store!Initially
  <1>3. IInv /\ IInv' /\ [Next]_vars /\ Inv => Inv'
    <2> SUFFICES ASSUME IInv, IInv', [Next]_vars, Inv, losses' = 0 PROVE Store!IInv'
      OBVIOUS
    <2>1. losses = 0 /\ ~PowerLoss
      <3>1. losses \in Nat
        BY Parts DEF IInv, Typed
      <3> QED
        BY <3>1, LossesCount DEF PowerLoss
    <2>2. [Store!Step]_Store!vars
      BY <2>1, StepRefines, StoreStep
    <2> QED
      BY <1>1, <2>1, <2>2, Store!StepKeeps
  <1>4. Inv => (losses = 0 => /\ Store!SavedStays /\ Store!ExclusiveSavesExclude
                              /\ Store!ObjectsWereSaved)
    BY DEF Store!IInv
  <1> QED
    BY <1>2, <1>3, <1>4, Invariance, PTL DEF Spec

-------------------------------------------------------------------------------
(* Keys apart.  Keys on the way to other keys are the only reason for which*)
(* the backend does not keep the full promise of ObjectStore.              *)

\* No key that is used leads through another one, as those that the key builder
\* makes of file IDs without a separator; what is there already obeys that too.
KeysApart == /\ \A o \in Ops : Key(o) \notin Prefixes
             /\ \A d \in Prefixes : tree[d] # Old

FullPromise == INSTANCE ObjectStore
                 WITH Prefixes <- {}, objects <- Seen(tree), durable <- Seen(disk.tree)

\* What is on the way to a key is a directory, or not there.
NoFileOnTheWay == /\ \A o \in Ops : Key(o) \notin Prefixes
                  /\ \A d \in Prefixes : tree[d] \notin Files /\ disk.tree[d] \notin Files

\* So no call finds a file where it needs a directory.
AllWalkable == \A o \in Ops : answer[o] # "not a directory"

LEMMA AncestorsArePrefixes ==
  ASSUME NEW k \in Keys
  PROVE  Ancestors[k] \subseteq Prefixes /\ Prefixes \subseteq Keys
  BY AncestorsAssumption DEF Prefixes

LEMMA NoneInTheWay ==
  ASSUME Typed, NoFileOnTheWay, NEW o \in Ops
  PROVE  ~NotADir(o)
  <1>1. Key(o) \in Keys
    BY DEF Typed
  <1> QED
    BY <1>1, AncestorsArePrefixes DEF NoFileOnTheWay, NotADir

LEMMA StepNoFileOnTheWay == Typed /\ NoFileOnTheWay /\ [Next]_vars => NoFileOnTheWay'
  <1> SUFFICES ASSUME Typed, NoFileOnTheWay, [Next]_vars PROVE NoFileOnTheWay'
    OBVIOUS
  <1>1. \A o \in Ops : Key(o)' \notin Prefixes
    BY RequestsStay DEF NoFileOnTheWay
  <1>2. ASSUME NEW d \in Prefixes PROVE tree'[d] \notin Files /\ disk'.tree[d] \notin Files
    <2>1. d \in Keys /\ tree[d] \notin Files /\ disk.tree[d] \notin Files
      BY AncestorsAssumption DEF Prefixes, NoFileOnTheWay
    <2>2. ASSUME NEW o \in Ops, Publish(o) PROVE tree'[d] = tree[d]
      <3>1. Key(o) # d
        BY DEF NoFileOnTheWay
      <3> QED
        BY <2>1, <2>2, <3>1 DEF Publish, Name, Typed, Trees
    <2>3. None \notin Files /\ Dir \notin Files
      BY ValuesAssumption
    <2> QED
      BY <2>1, <2>2, <2>3, StepNames
  <1> QED
    BY <1>1, <1>2 DEF NoFileOnTheWay

\* Who answers that way.
LEMMA WhoAnswers ==
  ASSUME Typed, [Next]_vars, NEW p \in Ops, answer'[p] # answer[p]
  PROVE  /\ answer'[p] = "true" => Exists(p) \/ Remove(p)
         /\ answer'[p] = "not a directory" => NotADirectory(p)
  <1>1. answer \in [Ops -> Answers \cup {None}]
    BY DEF Typed
  <1>2. ASSUME NEW o \in Ops, \/ MakeParent(o) \/ ParentsMade(o) \/ StatDestination(o)
                              \/ CreateTemp(o) \/ Copy(o) \/ Sync(o) \/ Cleanup(o)
                              \/ StartDelete(o)
        PROVE  FALSE
    BY <1>2 DEF MakeParent, ParentsMade, StatDestination, CreateTemp, Copy, Sync, Cleanup,
       StartDelete
  <1>3. ASSUME NEW o \in Ops, \/ Publish(o) \/ Refuse(o) \/ NoObject(o) \/ AlreadyRemoved(o)
                              \/ Fail(o)
        PROVE  answer'[p] \in {"saved", "file exists", "false", "error"}
    <2>1. \E a \in {"saved", "file exists", "false", "error"} : answer' = [answer EXCEPT ![o] = a]
      BY <1>3 DEF Publish, Refuse, NoObject, AlreadyRemoved, Fail
    <2> QED
      BY <1>1, <2>1
  <1>4. ASSUME NEW o \in Ops, Remove(o) \/ Exists(o)
        PROVE  p = o /\ answer'[p] = "true"
    <2>1. answer' = [answer EXCEPT ![o] = "true"]
      BY <1>4 DEF Remove, Exists, LooksUp
    <2> QED
      BY <1>1, <2>1
  <1>5. ASSUME NEW o \in Ops, NotADirectory(o)
        PROVE  p = o /\ answer'[p] = "not a directory"
    <2>1. answer' = [answer EXCEPT ![o] = "not a directory"]
      BY <1>5 DEF NotADirectory
    <2> QED
      BY <1>1, <2>1
  <1>6. ASSUME NEW o \in Ops, Open(o) \/ ReadFile(o)
        PROVE  answer'[p] \in Files \cup {Torn}
    <2>1. \E a \in Files \cup {answer[o], Torn} : answer' = [answer EXCEPT ![o] = a]
      BY <1>6 DEF Open, ReadFile, Content, LooksUp, HasFile
    <2> QED
      BY <1>1, <2>1
  <1>7. CASE PowerLoss \/ \E o \in Ops : Crash(o)
    <2>1. answer'[p] \in {answer[p], "error"}
      BY <1>1, <1>7 DEF PowerLoss, Crash, LastWord
    <2> QED
      BY <2>1
  <1>8. CASE WriteBack \/ UNCHANGED vars
    BY <1>8 DEF WriteBack, vars
  <1>9. \A a \in {"true", "not a directory"} : a \notin Files \cup {Torn}
    BY ValuesAssumption
  <1> QED
    BY <1>2, <1>3, <1>4, <1>5, <1>6, <1>7, <1>8, <1>9, Zenon DEF Next, Operation, Finished

LEMMA ApartInvariance == KeysApart /\ Spec => [](NoFileOnTheWay /\ AllWalkable)
  <1>1. KeysApart /\ Init => NoFileOnTheWay /\ AllWalkable
    <2> SUFFICES ASSUME KeysApart, Init PROVE NoFileOnTheWay /\ AllWalkable
      OBVIOUS
    <2>1. \A d \in Prefixes : d \in Keys
      BY AncestorsAssumption DEF Prefixes
    <2>2. \A d \in Prefixes : tree[d] \in {None, Dir} /\ disk.tree[d] \in {None, Dir}
      BY <2>1 DEF KeysApart, Init
    <2>3. NoFileOnTheWay
      BY <2>2, ValuesAssumption DEF KeysApart, NoFileOnTheWay
    <2> QED
      BY <2>3, ValuesAssumption DEF Init, AllWalkable
  <1>2. IInv /\ NoFileOnTheWay /\ AllWalkable /\ [Next]_vars => (NoFileOnTheWay /\ AllWalkable)'
    <2> SUFFICES ASSUME IInv, NoFileOnTheWay, AllWalkable, [Next]_vars
                 PROVE  NoFileOnTheWay' /\ AllWalkable'
      OBVIOUS
    <2>1. Typed
      BY Parts DEF IInv
    <2>2. ASSUME NEW p \in Ops PROVE answer'[p] # "not a directory"
      <3>1. ~NotADirectory(p)
        BY <2>1, NoneInTheWay DEF NotADirectory
      <3> QED
        BY <2>1, <3>1, WhoAnswers DEF AllWalkable
    <2> QED
      BY <2>1, <2>2, StepNoFileOnTheWay DEF AllWalkable
  <1> QED BY <1>1, <1>2, Invariance, PTL DEF Spec

\* With keys apart, to ask for an object that is missing is never an error of the
\* path (README.md:68-69).
THEOREM ApartMissingIsNoError == KeysApart /\ Spec => []MissingIsNoError
  <1>1. AllWalkable => MissingIsNoError
    BY DEF AllWalkable, MissingIsNoError
  <1> QED BY <1>1, ApartInvariance, PTL

\* With keys apart, a Delete that reports a deletion has deleted an object, never a
\* directory (filesystem.go:146).
THEOREM ApartDeletesObjects == KeysApart /\ Spec => TrueDeleteMeansObject
  <1>1. IInv /\ NoFileOnTheWay /\ [Next]_vars
        => [\A o \in Ops : request[o].kind = "delete" /\ answer[o] # "true" /\ answer'[o] = "true"
                             => At(o) \in Files]_vars
    <2> SUFFICES ASSUME IInv, NoFileOnTheWay, [Next]_vars, NEW o \in Ops,
                        answer[o] # "true", answer'[o] = "true"
                 PROVE  At(o) \in Files
      OBVIOUS
    <2>1. Typed /\ Tidy
      BY Parts DEF IInv
    <2>2. Exists(o) \/ Remove(o)
      BY <2>1, WhoAnswers
    <2>3. At(o) # Dir
      BY <2>1 DEF Tidy, WellFormed, NoFileOnTheWay, Typed
    <2> QED
      BY <2>2, <2>3 DEF Exists, Remove, LooksUp, HasFile
  <1> QED BY <1>1, ApartInvariance, Invariance, PTL DEF Spec, TrueDeleteMeansObject

\* Where no key leads through another, the exceptions of ObjectStore are not used.
LEMMA StepKeepsFullPromise ==
  ASSUME [Promise!Next]_PromiseVars, PromisedAnswer = answer, PromisedAnswer' = answer',
         NoFileOnTheWay
  PROVE  [FullPromise!Next]_<<request, Seen(tree), Seen(disk.tree), answer>>
  <1>1. ASSUME NEW o \in Ops, Promise!Publish(o) PROVE FullPromise!Publish(o)
    BY <1>1 DEF Promise!Publish, Promise!Asks, Promise!Decide, Promise!Object, Promise!Put,
       FullPromise!Publish, FullPromise!Asks, FullPromise!Decide, FullPromise!Object,
       FullPromise!Put
  <1>2. ASSUME NEW o \in Ops, Promise!Refuse(o) PROVE FullPromise!Refuse(o)
    BY <1>2 DEF Promise!Refuse, Promise!Asks, Promise!Decide, Promise!Object, NoFileOnTheWay,
       FullPromise!Refuse, FullPromise!Asks, FullPromise!Decide, FullPromise!Object
  <1>3. ASSUME NEW o \in Ops, Promise!Remove(o) PROVE FullPromise!Remove(o)
    BY <1>3 DEF Promise!Remove, Promise!Asks, Promise!Decide, Promise!Object, Promise!Put,
       NoFileOnTheWay, FullPromise!Remove, FullPromise!Asks, FullPromise!Decide,
       FullPromise!Object, FullPromise!Put
  <1>4. ASSUME NEW o \in Ops, Promise!Read(o) PROVE FullPromise!Read(o)
    BY <1>4 DEF Promise!Read, Promise!Asks, Promise!Decide, Promise!Object,
       FullPromise!Read, FullPromise!Asks, FullPromise!Decide, FullPromise!Object
  <1>5. ASSUME NEW o \in Ops, Promise!Miss(o) PROVE FullPromise!Miss(o)
    BY <1>5 DEF Promise!Miss, Promise!Asks, Promise!Decide, Promise!Object,
       FullPromise!Miss, FullPromise!Asks, FullPromise!Decide, FullPromise!Object
  <1>6. ASSUME NEW o \in Ops, Promise!Fail(o) PROVE FullPromise!Fail(o)
    BY <1>6 DEF Promise!Fail, Promise!Decide, FullPromise!Fail, FullPromise!Decide
  <1>7. ASSUME Promise!Persist PROVE FullPromise!Persist
    BY <1>7 DEF Promise!Persist, FullPromise!Persist
  <1>8. ASSUME Promise!PowerLoss PROVE FullPromise!PowerLoss
    BY <1>8 DEF Promise!PowerLoss, FullPromise!PowerLoss, Promise!Answers, FullPromise!Answers,
       Promise!Objects, FullPromise!Objects
  <1>9. CASE UNCHANGED PromiseVars
    BY <1>9 DEF PromiseVars
  <1> QED
    BY <1>1, <1>2, <1>3, <1>4, <1>5, <1>6, <1>7, <1>8, <1>9 DEF Promise!Next, Promise!Step, Promise!Operation,
       FullPromise!Next, FullPromise!Step, FullPromise!Operation

\* With keys apart, the backend keeps the promise of ObjectStore without exceptions.
THEOREM ApartKeepsFullPromise == KeysApart /\ Spec => FullPromise!Spec
  <1>1. TypeOK /\ AllWalkable => PromisedAnswer = answer
    BY DEF TypeOK, AllWalkable, PromisedAnswer
  <1>2. TypeOK' /\ AllWalkable' => PromisedAnswer' = answer'
    BY DEF TypeOK, AllWalkable, PromisedAnswer
  <1>3. /\ IInv /\ NoFileOnTheWay /\ AllWalkable /\ [Next]_vars
        /\ IInv' /\ NoFileOnTheWay' /\ AllWalkable'
        => [FullPromise!Next]_FullPromise!vars
    <2> SUFFICES ASSUME IInv, NoFileOnTheWay, AllWalkable, [Next]_vars, IInv', AllWalkable'
                 PROVE  [FullPromise!Next]_FullPromise!vars
      OBVIOUS
    <2>1. PromisedAnswer = answer /\ PromisedAnswer' = answer'
      BY <1>1, <1>2 DEF IInv
    <2>2. [Promise!Next]_PromiseVars
      BY StepRefines DEF Promise!Next
    <2> QED
      BY <2>1, <2>2, StepKeepsFullPromise DEF FullPromise!vars
  <1>4. Init => FullPromise!Init
    <2> SUFFICES ASSUME Init PROVE FullPromise!Init
      OBVIOUS
    <2>1. Promise!Init
      BY InitRefines
    <2>2. answer = [o \in Ops |-> None]
      BY DEF Init
    <2> QED
      BY <2>1, <2>2 DEF Promise!Init, FullPromise!Init, Promise!Kinds, FullPromise!Kinds
  <1> QED
    BY <1>3, <1>4, ApartInvariance, Invariance, PTL DEF Spec, FullPromise!Spec
================================================================================
