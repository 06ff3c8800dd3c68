------------------------------- MODULE Transfer --------------------------------
(***************************************************************************)
(* The caller's side of Save and Download: how a backend finds out the     *)
(* length of a body, buffers it if it must and lets the SDK send it, and   *)
(* how fileutil.WriteFile makes a file of what it downloads.  Both copy    *)
(* what a reader gives, piece by piece, into a temporary file that they    *)
(* remove whatever happens, and meanwhile other transfers go on, a context *)
(* may be cancelled, the body may change under the upload, the process die *)
(* and the machine lose power.                                             *)
(*                                                                         *)
(* Of contents the model keeps how many pieces there are.  A file is named *)
(* by the download that wrote it.                                          *)
(***************************************************************************)
EXTENDS Integers

CONSTANTS Uploads, Downloads,
          Destinations,
          MaxSize,       \* the longest body
          Calls,         \* the situations to look at: which transfers are called (once),
                         \* what uploads are given, and how long everything is
          MaxLosses,     \* bound on the power losses
          Old, None,
          Torn           \* a destination that is not a whole object

Transfers == Uploads \cup Downloads
Sizes     == 0..MaxSize
Unknown   == -1
Larger(m, n) == IF m < n THEN n ELSE m

(***************************************************************************)
(* What a backend does about a body's length: S3 must know it, MinIO makes *)
(* do without, the others (and S3 with use_chunk_encoding) do not ask, and *)
(* of these OBS does not give its SDK the upload's context either.         *)
(* What the body is: `sized` if it has a Len, `seeks` if it is a Seeker    *)
(* (a file, which others may write to, or one that only claims to seek),   *)
(* `endless` if it never comes to an end; and where its reader stands.     *)
(***************************************************************************)
Unasked == {"streamed", "detached"}
Ways  == {"fixed", "sized"} \cup Unasked
Input == [way : Ways, sized : BOOLEAN, seeks : BOOLEAN, endless : BOOLEAN, start : Sizes]

ASSUME TransfersAssumption == Uploads \cap Downloads = {}
ASSUME BoundsAssumption == MaxSize \in Nat /\ MaxLosses \in Nat
ASSUME CallsAssumption ==
         Calls \subseteq [called : SUBSET Transfers, input : [Uploads -> Input],
                          size : [Transfers -> Sizes]]
ASSUME ValuesAssumption ==
         /\ Old \notin Downloads /\ None \notin Downloads \cup {Old} \cup Int
         /\ Torn \notin Downloads \cup {Old, None}
         /\ None \notin {"saved", "true", "false", "copied", "error"}
ASSUME WordsAssumption == \A word \in {"saved", "file exists", "true", "false", "error"} :
                            word \notin Downloads \cup {Old, None}

VARIABLES
  input,      \* what each upload is given
  to,         \* each download's destination
  size,       \* how long the body, or the object to download, is
  pos,        \* where its reader stands
  file,       \* what each transfer has copied, and whether that is on disk
  temps,      \* the transfers whose temporary file exists
  length,     \* the length that the SDK is told, None before it is known
  dest,       \* the file at each destination, or None
  disk,       \* temps and dest as a power loss would leave them
  pc, answer,
  \* The world around, and history.
  stored,     \* the pieces of the body that the service has stored, or None
  cancelled,  \* uploads whose context has ended; a download's reader fails then
  changed,    \* uploads whose body has changed under them
  resent,     \* uploads that lost an answer, which happens to each at most once
  losses      \* power losses so far

local == <<size, pos, file, temps, length, dest>>
world == <<input, to, disk, cancelled, changed, losses>>
vars  == <<local, world, pc, answer, stored, resent>>

Init == /\ \E c \in Calls :
             /\ input = c.input /\ size = c.size
             /\ pc = [t \in Transfers |-> IF t \in c.called THEN "idle" ELSE "done"]
        /\ to \in [Downloads -> Destinations]
        /\ pos = [t \in Transfers |-> IF t \in Uploads THEN input[t].start ELSE 0]
        /\ file = [t \in Transfers |-> [size |-> 0, synced |-> FALSE]]
        /\ temps = {}
        /\ length = [u \in Uploads |-> None]
        /\ dest \in [Destinations -> {Old, None}]
        /\ disk = [temps |-> temps, dest |-> dest]
        /\ answer = [t \in Transfers |-> None]
        /\ stored = [u \in Uploads |-> None]
        /\ cancelled = {} /\ changed = {} /\ resent = {}
        /\ losses = 0

Goto(t, step) == pc' = [pc EXCEPT ![t] = step]
Say(t, a)     == answer' = [answer EXCEPT ![t] = a]
Finish(t, a)  == Say(t, a) /\ Goto(t, IF t \in temps THEN "cleanup" ELSE "done")
Moves(t, n)   == pos' = [pos EXCEPT ![t] = n]
Learns(u, n)  == length' = [length EXCEPT ![u] = n]

Start(u) == input[u].start

(***************************************************************************)
(* fixedLengthBody and uploadSize                                          *)
(***************************************************************************)
\* Mutant: the length is not set to -1.
UnmeasuredSends(u) == IF input[u].way = "fixed"
                        THEN Goto(u, "temp") /\ UNCHANGED length
                        ELSE Goto(u, "send") /\ UNCHANGED length

\* What is done about a body whose length cannot be found out.
Unmeasured(u) == IF input[u].way = "fixed"
                   THEN Goto(u, "temp") /\ UNCHANGED length
                   ELSE Goto(u, "send") /\ Learns(u, Unknown)

\* Len() of a reader that has one is what is left of it; a Seeker says where it
\* stands and is sent to the end, unless that fails.
Measure(u) ==
  /\ pc[u] = "idle"
  /\ \/ input[u].way \in Unasked /\ Goto(u, "send") /\ Learns(u, Unknown)
     \/ /\ input[u].way \notin Unasked /\ input[u].sized
        /\ Goto(u, "send") /\ Learns(u, Larger(0, size[u] - pos[u]))
     \/ /\ input[u].way \notin Unasked /\ ~input[u].sized
        /\ \/ input[u].seeks /\ Goto(u, "end") /\ UNCHANGED length
           \/ Unmeasured(u)
  /\ UNCHANGED <<size, pos, file, temps, dest, world, answer, stored, resent>>

\* end - current may be negative.  Where a Seek that fails leaves the reader is not known.
SeekEnd(u) == /\ pc[u] = "end"
              /\ \/ Moves(u, size[u]) /\ Learns(u, size[u] - Start(u))
                 \/ pos' \in {pos, [pos EXCEPT ![u] = size[u]]} /\ UNCHANGED length
              /\ Goto(u, "reset")
              /\ UNCHANGED <<size, file, temps, dest, world, answer, stored, resent>>

\* Mutant: whether the reader could be taken back is not checked.
SeekBackUnchecked(u) ==
  /\ pc[u] = "reset"
  /\ pos' \in {pos, [pos EXCEPT ![u] = Start(u)]}
  /\ IF length[u] # None THEN Goto(u, "send") /\ UNCHANGED length ELSE Unmeasured(u)
  /\ UNCHANGED <<size, file, temps, dest, world, answer, stored, resent>>

\* ... and back; if that fails, Save does (Fail).
SeekBack(u) == /\ pc[u] = "reset"
               /\ Moves(u, Start(u))
               /\ IF length[u] # None THEN Goto(u, "send") /\ UNCHANGED length ELSE Unmeasured(u)
               /\ UNCHANGED <<size, file, temps, dest, world, answer, stored, resent>>

(***************************************************************************)
(* Copying into a temporary file                                           *)
(***************************************************************************)
\* GetOrNil has a reader of the object as it is at this moment ...
GetFinds(d) == /\ pc[d] = "idle"
               /\ Goto(d, "temp")
               /\ UNCHANGED <<local, world, answer, stored, resent>>

\* ... or there is none, and nothing is touched.
GetMisses(d) == /\ pc[d] = "idle"
                /\ Finish(d, "false")
                /\ UNCHANGED <<local, world, stored, resent>>

\* The name is random and must be new.
CreateTemp(t) == /\ pc[t] = "temp"
                 /\ temps' = temps \cup {t}
                 /\ Goto(t, "copy")
                 /\ UNCHANGED <<size, pos, file, length, dest, world, answer, stored, resent>>

\* Mutant: the body is copied without contextReader.
ReadableAnyway(t) == TRUE

\* contextReader reads nothing once the upload's context has ended.
Readable(t) == t \notin cancelled

AtEnd(t) == pos[t] >= size[t] /\ (t \in Uploads => ~input[t].endless)

\* Of a body that never ends, what is beyond MaxSize is not told apart.
CopyPiece(t) == /\ pc[t] = "copy" /\ Readable(t) /\ ~AtEnd(t)
                /\ IF pos[t] < size[t]
                     THEN /\ Moves(t, pos[t] + 1)
                          /\ file' = [file EXCEPT ![t].size = @ + 1]
                     ELSE UNCHANGED <<pos, file>>
                /\ UNCHANGED <<size, temps, length, dest, world, pc, answer, stored, resent>>

\* Mutant: the error with which the copy has ended is ignored.
CopyEndsAnywhere(t) ==
  /\ pc[t] = "copy" /\ Readable(t)
  /\ \/ t \in Uploads /\ Learns(t, file[t].size) /\ Goto(t, "send")
     \/ t \in Downloads /\ Goto(t, "sync") /\ UNCHANGED length
  /\ UNCHANGED <<size, pos, file, temps, dest, world, answer, stored, resent>>

\* An upload's copy is rewound, to be sent in the body's place.
CopyEnds(t) ==
  /\ pc[t] = "copy" /\ Readable(t) /\ AtEnd(t)
  /\ \/ t \in Uploads /\ Learns(t, file[t].size) /\ Goto(t, "send")
     \/ t \in Downloads /\ Goto(t, "sync") /\ UNCHANGED length
  /\ UNCHANGED <<size, pos, file, temps, dest, world, answer, stored, resent>>

CopyStops(t) == /\ pc[t] = "copy" /\ ~Readable(t)
                /\ Finish(t, "error")
                /\ UNCHANGED <<local, world, stored, resent>>

(***************************************************************************)
(* The SDK's PutObject                                                     *)
(***************************************************************************)
\* What there is to send: the copy, or what the body's reader still has.  A negative
\* length is none.
Rest(u) == IF u \in temps THEN [from |-> Start(u), to |-> Start(u) + file[u].size]
           ELSE [from |-> pos[u], to |-> Larger(pos[u], size[u])]
Fits(u) == length[u] < 0 \/ Rest(u).to - Rest(u).from = length[u]

\* The request ends with the body; the service stores what it has got.  The answer
\* may be lost.
Put(u) == /\ pc[u] = "send" /\ ~input[u].endless /\ Fits(u)
          /\ stored' = [stored EXCEPT ![u] = Rest(u)]
          /\ IF u \in temps THEN UNCHANGED pos ELSE Moves(u, Rest(u).to)
          /\ \/ Finish(u, "saved") /\ UNCHANGED resent
             \/ /\ u \notin resent /\ resent' = resent \cup {u}
                /\ Goto(u, "resend") /\ UNCHANGED answer
          /\ UNCHANGED <<size, file, temps, length, dest, world>>

\* To send a body again the SDK takes it back to where it was ...
Resend(u) == /\ pc[u] = "resend"
             /\ u \in temps \/ input[u].seeks
             /\ IF u \in temps THEN UNCHANGED pos ELSE Moves(u, Start(u))
             /\ Goto(u, "send")
             /\ UNCHANGED <<size, file, temps, length, dest, world, answer, stored, resent>>

\* The SDK has the upload's context, and so it sees the context end.
HasContext(u) == input[u].way # "detached"

\* ... or gives up.  A body that is not as long as was announced is not sent, and a
\* request ends with the context that it has been given.
PutFails(u) == /\ \/ pc[u] = "resend" /\ u \notin temps /\ ~input[u].seeks
                  \/ pc[u] = "send" /\ ~Fits(u)
                  \/ pc[u] \in {"send", "resend"} /\ u \in cancelled /\ HasContext(u)
               /\ Finish(u, "error")
               /\ UNCHANGED <<local, world, stored, resent>>

(***************************************************************************)
(* The end of WriteFile, and of both                                       *)
(***************************************************************************)
Sync(d) == /\ pc[d] = "sync"
           /\ file' = [file EXCEPT ![d].synced = TRUE]
           /\ Goto(d, "rename")
           /\ UNCHANGED <<size, pos, temps, length, dest, world, answer, stored, resent>>

Rename(d) == /\ pc[d] = "rename"
             /\ dest' = [dest EXCEPT ![to[d]] = d]
             /\ temps' = temps \ {d}
             /\ Say(d, "true") /\ Goto(d, "cleanup")
             /\ UNCHANGED <<size, pos, file, length, world, stored, resent>>

\* The deferred calls.
Cleanup(t) == /\ pc[t] = "cleanup"
              /\ temps' = temps \ {t}
              /\ Goto(t, "done")
              /\ UNCHANGED <<size, pos, file, length, dest, world, answer, stored, resent>>

Undecided(t) == pc[t] \notin {"cleanup", "done", "crashed"}

\* Mutant: an early return before the removal is deferred.
FailAtOnce(t) == /\ Undecided(t)
                 /\ Say(t, IF pc[t] \in {"sync", "rename"} THEN "copied" ELSE "error")
                 /\ Goto(t, "done")
                 /\ UNCHANGED <<local, world, stored, resent>>

\* Any step may fail.  WriteFile's first result says whether all had been copied.
Fail(t) == /\ Undecided(t)
           /\ Finish(t, IF pc[t] \in {"sync", "rename"} THEN "copied" ELSE "error")
           /\ UNCHANGED <<local, world, stored, resent>>

(***************************************************************************)
(* The world around                                                        *)
(***************************************************************************)
Active(t) == pc[t] \notin {"idle", "done", "crashed"}

Cancel(u) == /\ u \notin cancelled /\ Active(u)
             /\ cancelled' = cancelled \cup {u}
             /\ UNCHANGED <<local, input, to, disk, changed, losses, pc, answer, stored, resent>>

\* Another program appends to the file that is being uploaded, or truncates it.
Change(u) == /\ Active(u) /\ u \notin changed /\ input[u].seeks /\ ~input[u].sized
             /\ size' \in {[size EXCEPT ![u] = n] : n \in Sizes \ {size[u]}}
             /\ changed' = changed \cup {u}
             /\ UNCHANGED <<pos, file, temps, length, dest, input, to, disk, cancelled, losses,
                            pc, answer, stored, resent>>

LastWord(t) == IF Active(t) /\ answer[t] = None THEN "error" ELSE answer[t]

\* The process dies, and the deferred calls do not run.
Crash(t) == /\ Active(t) /\ t \in temps
            /\ Goto(t, "crashed") /\ Say(t, LastWord(t))
            /\ UNCHANGED <<local, world, stored, resent>>

\* The file system commits names; contents are on disk after Sync.
WriteBack == /\ losses < MaxLosses
             /\ disk # [temps |-> temps, dest |-> dest]
             /\ disk' = [temps |-> temps, dest |-> dest]
             /\ UNCHANGED <<local, input, to, cancelled, changed, losses, pc, answer, stored,
                            resent>>

PowerLoss == /\ losses < MaxLosses /\ losses' = losses + 1
             /\ temps' = disk.temps /\ dest' = disk.dest
             /\ file' = [t \in Transfers |-> IF file[t].synced THEN file[t]
                                             ELSE [file[t] EXCEPT !.size = 0]]
             /\ pc' = [t \in Transfers |-> IF Active(t) THEN "crashed" ELSE pc[t]]
             /\ answer' = [t \in Transfers |-> LastWord(t)]
             /\ UNCHANGED <<size, pos, length, input, to, disk, cancelled, changed, stored, resent>>

\* What a transfer does once it has been called, if nothing fails.
Proceed(t) == \/ t \in Uploads /\ (SeekEnd(t) \/ SeekBack(t) \/ Put(t) \/ Resend(t) \/ PutFails(t))
              \/ t \in Downloads /\ (Sync(t) \/ Rename(t))
              \/ CreateTemp(t) \/ CopyPiece(t) \/ CopyEnds(t) \/ CopyStops(t) \/ Cleanup(t)

Called(t) == \/ t \in Uploads /\ Measure(t)
             \/ t \in Downloads /\ (GetFinds(t) \/ GetMisses(t))

Finished == (\A t \in Transfers : ~Active(t) /\ pc[t] # "idle") /\ UNCHANGED vars

Next == \/ \E t \in Transfers : Called(t) \/ Proceed(t) \/ Fail(t) \/ Crash(t)
        \/ \E u \in Uploads : Cancel(u) \/ Change(u)
        \/ WriteBack \/ PowerLoss
        \/ Finished

\* Transfers go on as long as their process lives.
Fairness == \A t \in Transfers : WF_vars(Proceed(t))

Spec == Init /\ [][Next]_vars /\ Fairness

(***************************************************************************)
(* Properties                                                              *)
(***************************************************************************)
Steps == {"idle", "end", "reset", "temp", "copy", "send", "resend", "sync", "rename",
          "cleanup", "done", "crashed"}

\* Types; a transfer has its answer once it is past the step that decides it, and
\* the SDK is not called before there is a length to tell it, or none to be told.
TypeOK == /\ input \in [Uploads -> Input]
          /\ to \in [Downloads -> Destinations]
          /\ size \in [Transfers -> Sizes] /\ pos \in [Transfers -> Sizes]
          /\ file \in [Transfers -> [size : Sizes, synced : BOOLEAN]]
          /\ temps \in SUBSET Transfers
          /\ length \in [Uploads -> -MaxSize-1..MaxSize \cup {None}]
          /\ dest \in [Destinations -> Downloads \cup {Old, None}]
          /\ disk \in [temps : SUBSET Transfers,
                       dest : [Destinations -> Downloads \cup {Old, None}]]
          /\ pc \in [Transfers -> Steps]
          /\ answer \in [Transfers -> {"saved", "true", "false", "copied", "error", None}]
          /\ \A t \in Transfers : Active(t) => (Undecided(t) <=> answer[t] = None)
          /\ \A u \in Uploads : pc[u] \in {"send", "resend"} => length[u] # None
          /\ stored \in [Uploads -> [from : Sizes, to : Sizes] \cup {None}]
          /\ cancelled \in SUBSET Uploads
          /\ changed \in SUBSET Uploads /\ resent \in SUBSET Uploads
          /\ losses \in 0..MaxLosses

\* An object that is stored is the body from where the caller had left its reader,
\* without a gap, also when it is sent again, and as long as was announced.  It ends
\* where the body does, unless that has changed under the upload.  (Save reads the
\* position of a Seeker, moves it and must put it back: s3.go:302-314.)
StoredIsTheRest ==
  \A u \in Uploads : stored[u] # None =>
    /\ stored[u].from = Start(u)
    /\ length[u] >= 0 => stored[u].to = stored[u].from + length[u]
    /\ u \notin changed => stored[u].to = Larger(Start(u), size[u])

\* A transfer that has returned has left no temporary file, unless a power loss has
\* undone the removal.
NothingLeftBehind == \A t \in temps : pc[t] = "done" => losses > 0

\* For its destination a download is a Save that may overwrite: at one instant the
\* whole object replaces what is there, or nothing happens, whatever fails on the
\* way, also after all has been copied ("A failed write leaves an existing
\* destination untouched", fileutil.go:14-15), and also if power is lost later.
Content(f) == IF f \in Downloads /\ file[f].size # size[f] THEN Torn ELSE f
Seen(names) == [n \in Destinations |-> Content(names[n])]
Outcome(d) == CASE answer[d] = "true" -> "saved"
                [] answer[d] = None   -> None
                [] OTHER              -> "error"

Promise == INSTANCE ObjectStore
             WITH Keys <- Destinations, Prefixes <- {}, Ops <- Downloads,
                  request <- [d \in Downloads |-> [kind |-> "overwrite", key |-> to[d]]],
                  objects <- Seen(dest), durable <- Seen(disk.dest),
                  answer <- [d \in Downloads |-> Outcome(d)]

DownloadsReplaceWhole == Promise!Spec

\* A transfer that has been called comes to an end: a download, an upload of a body
\* that ends, and one of a body that never does once its context is cancelled, also
\* while it is being buffered (contextReader).  Not so an endless upload by OBS,
\* which calls its SDK without the context (obs.go:85).
TransfersEnd ==
  \A t \in Transfers :
    Active(t) /\ (t \in Uploads /\ input[t].endless => t \in cancelled /\ HasContext(t))
      ~> ~Active(t)
================================================================================
