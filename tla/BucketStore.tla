------------------------------ MODULE BucketStore ------------------------------
(***************************************************************************)
(* The cloud backends (backend/{aws,s3,minio,ks3,aliyun,azure,obs}), with  *)
(* several operations under way on one bucket.  A step is one request that *)
(* an operation makes of the service, which serves each at one instant;    *)
(* between two of them the others go on.  An answer may get lost on its    *)
(* way back: then the provider's SDK sends the request again, or gives up. *)
(*                                                                         *)
(* The seven backends differ in the requests they make.  What they differ  *)
(* in is a record per provider.  An object is named by the Save that wrote *)
(* it.                                                                     *)
(***************************************************************************)
CONSTANTS Keys, Ops, Old, None,
          Requests,       \* the requests to look at, all of them or some
          Lossy           \* the operations that may lose an answer, once

ASSUME ValuesAssumption ==
         /\ Old \notin Ops
         /\ None \notin Ops \cup {Old}
         /\ \A word \in {"saved", "file exists", "true", "false", "url", "error"} :
              word \notin Ops \cup {Old, None}
ASSUME RequestsAssumption ==
         Requests \subseteq [Ops -> [kind : {"save", "overwrite", "delete", "exists", "get",
                                             "url", "checked url"},
                                     key : Keys]]
ASSUME LossyAssumption == Lossy \subseteq Ops

VARIABLES provider,  \* the provider whose backend is in use
          creates,   \* create_bucket_if_not_exists
          bucket,    \* "absent", or whose it is: "ours", "theirs"
          objects,   \* the object under each key, or None
          pc,        \* the request each operation makes next
          request,   \* what it asks: its kind and its key
          answer,    \* its answer, or None
          resent,    \* history: operations that lost an answer
          gaveUp,    \*   operations that gave up on the service
          served,    \*   Saves whose object was put, Deletes that removed one
          seen       \*   what has been under its key since it was called

vars == <<provider, creates, bucket, objects, pc, request, answer, resent, gaveUp, served, seen>>
setting == <<provider, creates, request>>

(***************************************************************************)
(* looks:    Delete asks for the object first, since the service answers   *)
(*           the deletion of a missing object like any other.              *)
(* rechecks: when the bucket turns out to exist already, Save asks for it  *)
(*           once more.                                                    *)
(* hides:    the question for a bucket lists one's own, so that another's  *)
(*           seems to be missing.                                          *)
(* signs:    AccessURL is supported.                                       *)
(***************************************************************************)
AWS    == [looks |-> TRUE,  rechecks |-> TRUE,  hides |-> FALSE, signs |-> TRUE]
S3     == [looks |-> TRUE,  rechecks |-> TRUE,  hides |-> FALSE, signs |-> TRUE]
MinIO  == [looks |-> TRUE,  rechecks |-> TRUE,  hides |-> FALSE, signs |-> TRUE]
KS3    == [looks |-> TRUE,  rechecks |-> TRUE,  hides |-> FALSE, signs |-> TRUE]
Aliyun == [looks |-> TRUE,  rechecks |-> FALSE, hides |-> TRUE,  signs |-> TRUE]
Azure  == [looks |-> FALSE, rechecks |-> FALSE, hides |-> FALSE, signs |-> FALSE]
OBS    == [looks |-> FALSE, rechecks |-> FALSE, hides |-> FALSE, signs |-> TRUE]
Providers == {AWS, S3, MinIO, KS3, Aliyun, Azure, OBS}

Kinds   == {"save", "overwrite", "delete", "exists", "get", "url", "checked url"}
Saves   == {"save", "overwrite"}
URLs    == {"url", "checked url"}   \* AccessURL without and with CheckExists
Objects == Ops \cup {Old}
Answers == {"saved", "file exists", "true", "false", "url", "error"} \cup Objects
Ensuring == {"head", "create", "head again"}
Steps   == Ensuring \cup {"idle", "put", "look", "delete", "sign", "done"}

Kind(o) == request[o].kind
Key(o)  == request[o].key
There(o) == objects[Key(o)]

Init == /\ provider \in Providers
        /\ creates \in BOOLEAN
        /\ bucket \in {"absent", "ours", "theirs"}
        /\ objects \in [Keys -> IF bucket = "ours" THEN {Old, None} ELSE {None}]
        /\ pc = [o \in Ops |-> "idle"]
        /\ request \in Requests
        /\ answer = [o \in Ops |-> None]
        /\ resent = {} /\ gaveUp = {} /\ served = {}
        /\ seen = [o \in Ops |-> {}]

Goto(o, step) == pc' = [pc EXCEPT ![o] = step]
Return(o, a)  == Goto(o, "done") /\ answer' = [answer EXCEPT ![o] = a]
Quiet == UNCHANGED <<resent, gaveUp, served, seen, bucket, objects, setting>>

\* Mutant: ensureBucket without its early return.
FirstStepAlwaysEnsures(kind) ==
  CASE kind \in Saves -> "head"
    [] kind = "delete" /\ ~provider.looks -> "delete"
    [] kind = "url" \/ (kind = "checked url" /\ ~provider.signs) -> "sign"
    [] OTHER -> "look"
\* Mutant: a Delete of an S3 service that does not look first.
FirstStepBlind(kind) ==
  CASE kind \in Saves  -> IF creates THEN "head" ELSE "put"
    [] kind = "delete" -> "delete"
    [] kind \in URLs   -> IF kind = "checked url" /\ provider.signs THEN "look" ELSE "sign"
    [] OTHER           -> "look"

FirstStep(kind) ==
  CASE kind \in Saves  -> IF creates THEN "head" ELSE "put"
    [] kind = "delete" -> IF provider.looks THEN "look" ELSE "delete"
    [] kind \in URLs   -> IF kind = "checked url" /\ provider.signs THEN "look" ELSE "sign"
    [] OTHER           -> "look"

Call(o) == /\ pc[o] = "idle"
           /\ Goto(o, FirstStep(Kind(o)))
           /\ seen' = [seen EXCEPT ![o] = {There(o)}]
           /\ UNCHANGED <<answer, resent, gaveUp, served, bucket, objects, setting>>

\* A request that changed the service is answered, or its answer is lost and it
\* will be sent again.
Heard(o) == UNCHANGED resent
Lost(o)  == o \in Lossy \ resent /\ resent' = resent \cup {o} /\ UNCHANGED <<pc, answer>>

(***************************************************************************)
(* ensureBucket                                                            *)
(***************************************************************************)
HeadFinds(o) == /\ pc[o] = "head" /\ bucket = "ours"
                /\ Goto(o, "put")
                /\ UNCHANGED answer /\ Quiet

HeadMisses(o) == /\ pc[o] = "head"
                 /\ bucket = "absent" \/ (bucket = "theirs" /\ provider.hides)
                 /\ Goto(o, "create")
                 /\ UNCHANGED answer /\ Quiet

CreateBucket(o) == /\ pc[o] = "create" /\ bucket = "absent"
                   /\ bucket' = "ours"
                   /\ \/ Heard(o) /\ Goto(o, "put") /\ UNCHANGED answer
                      \/ Lost(o)
                   /\ UNCHANGED <<gaveUp, served, seen, objects, setting>>

\* Mutant: a bucket that has been created meanwhile fails the Save.
CreateConflictFails(o) == /\ pc[o] = "create" /\ bucket # "absent"
                          /\ Return(o, "error")
                          /\ Quiet

\* Someone has created the bucket since the head.
CreateConflict(o) == /\ pc[o] = "create" /\ bucket # "absent"
                     /\ Goto(o, IF provider.rechecks THEN "head again" ELSE "put")
                     /\ UNCHANGED answer /\ Quiet

HeadAgain(o) == /\ pc[o] = "head again" /\ bucket = "ours"
                /\ Goto(o, "put")
                /\ UNCHANGED answer /\ Quiet

(***************************************************************************)
(* The requests for the object                                             *)
(***************************************************************************)
\* The object under o's key becomes `object`, for every call that is under way.
Becomes(o, object) ==
  /\ objects' = [objects EXCEPT ![Key(o)] = object]
  /\ seen' = [p \in Ops |-> IF Key(p) = Key(o) /\ pc[p] \notin {"idle", "done"}
                              THEN seen[p] \cup {object} ELSE seen[p]]

\* Mutant: the condition (If-None-Match, ForbidOverwrite) is not sent.
PutUnconditionally(o) == /\ pc[o] = "put" /\ bucket = "ours"
                         /\ Becomes(o, o)
                         /\ served' = served \cup {o}
                         /\ \/ Heard(o) /\ Return(o, "saved")
                            \/ Lost(o)
                         /\ UNCHANGED <<gaveUp, bucket, setting>>

Put(o) == /\ pc[o] = "put" /\ bucket = "ours"
          /\ Kind(o) = "save" => There(o) = None
          /\ Becomes(o, o)
          /\ served' = served \cup {o}
          /\ \/ Heard(o) /\ Return(o, "saved")
             \/ Lost(o)
          /\ UNCHANGED <<gaveUp, bucket, setting>>

\* The service refuses to replace an object, were it the Save's own.
PutRefused(o) == /\ pc[o] = "put" /\ bucket = "ours"
                 /\ Kind(o) = "save" /\ There(o) # None
                 /\ Return(o, "file exists")
                 /\ Quiet

\* The question for the object: Exists, GetOrNil, and the first request of a Delete
\* and of an AccessURL that checks.
Look(o) == /\ pc[o] = "look" /\ bucket # "theirs"
           /\ \/ There(o) = None /\ Return(o, "false")
              \/ There(o) # None /\ Kind(o) = "delete" /\ Goto(o, "delete") /\ UNCHANGED answer
              \/ There(o) # None /\ Kind(o) = "checked url" /\ Goto(o, "sign") /\ UNCHANGED answer
              \/ There(o) # None /\ Kind(o) = "exists" /\ Return(o, "true")
              \/ There(o) # None /\ Kind(o) = "get" /\ Return(o, There(o))
           /\ Quiet

DeleteObject(o) == /\ pc[o] = "delete" /\ bucket = "ours" /\ There(o) # None
                   /\ Becomes(o, None)
                   /\ served' = served \cup {o}
                   /\ \/ Heard(o) /\ Return(o, "true")
                      \/ Lost(o)
                   /\ UNCHANGED <<gaveUp, bucket, setting>>

\* Mutant: a missing object is taken for a deleted one.
DeleteMissesSilently(o) == /\ pc[o] = "delete" /\ bucket # "theirs" /\ There(o) = None
                           /\ Return(o, "true")
                           /\ Quiet

\* The object has gone.  A backend that looked for it first says it has deleted it.
DeleteMisses(o) == /\ pc[o] = "delete" /\ bucket # "theirs" /\ There(o) = None
                   /\ Return(o, IF provider.looks THEN "true" ELSE "false")
                   /\ Quiet

\* A URL is signed without asking the service: there need be no object any more, or
\* no bucket.  An expiry that has passed by now is refused (GiveUp).
Sign(o) == /\ pc[o] = "sign" /\ provider.signs
           /\ Return(o, "url")
           /\ Quiet

(***************************************************************************)
(* Failures, and the rest of the world                                     *)
(***************************************************************************)
\* There is no bucket to put into, or it is another's; or URLs are not supported.
Denied(o) == /\ \/ pc[o] = "head" /\ bucket = "theirs" /\ ~provider.hides
                \/ pc[o] \in {"head again", "put"} /\ bucket # "ours"
                \/ pc[o] \in {"look", "delete"} /\ bucket = "theirs"
                \/ pc[o] = "sign" /\ ~provider.signs
             /\ Return(o, "error")
             /\ Quiet

\* An invalid request, configuration or expiry, a cancelled context, a service that cannot
\* be reached: whether a request has been served by then is not known.
GiveUp(o) == /\ pc[o] # "done"
             /\ Return(o, "error")
             /\ gaveUp' = gaveUp \cup {o}
             /\ UNCHANGED <<resent, served, seen, bucket, objects, setting>>

\* Another program, of this owner or of another, creates the bucket.
OthersCreate == /\ bucket = "absent"
                /\ bucket' \in {"ours", "theirs"}
                /\ UNCHANGED <<objects, pc, answer, resent, gaveUp, served, seen, setting>>

Step(o) == \/ Call(o) \/ HeadFinds(o) \/ HeadMisses(o) \/ CreateBucket(o)
           \/ CreateConflict(o) \/ HeadAgain(o) \/ Put(o) \/ PutRefused(o) \/ Look(o)
           \/ DeleteObject(o) \/ DeleteMisses(o) \/ Sign(o) \/ Denied(o) \/ GiveUp(o)

Finished == (\A o \in Ops : pc[o] = "done") /\ UNCHANGED vars

Next == (\E o \in Ops : Step(o)) \/ OthersCreate \/ Finished

Spec == Init /\ [][Next]_vars

(***************************************************************************)
(* Properties                                                              *)
(***************************************************************************)
\* Types; a configuration that must not create the bucket never asks for it
\* (the early return of ensureBucket).
TypeOK == /\ provider \in Providers /\ creates \in BOOLEAN
          /\ bucket \in {"absent", "ours", "theirs"}
          /\ objects \in [Keys -> Objects \cup {None}]
          /\ pc \in [Ops -> IF creates THEN Steps ELSE Steps \ Ensuring]
          /\ request \in Requests
          /\ answer \in [Ops -> Answers \cup {None}]
          /\ resent \in SUBSET Lossy /\ gaveUp \in SUBSET Ops /\ served \in SUBSET Ops
          /\ seen \in [Ops -> SUBSET (Objects \cup {None})]

\* Losing the race to create the bucket harms no Save.  One that fails although
\* it never gave up on the service has put nothing.  It has failed because the bucket
\* is another's, or it must not create the bucket and there may have been none.
SaveFailsForCause ==
  \A o \in Ops \ gaveUp :
    answer[o] = "error" /\ Kind(o) \in Saves =>
      /\ o \notin served
      /\ bucket = "theirs" \/ ~creates

\* Two Saves of one key that must not overwrite both succeed only if a Delete has
\* removed an object of that key: the condition is checked by the service, in the
\* request that puts the object.
OneExclusiveSaveWins ==
  \A a, b \in Ops :
    /\ a # b /\ Key(a) = Key(b)
    /\ Kind(a) = "save" /\ answer[a] = "saved"
    /\ Kind(b) = "save" /\ answer[b] = "saved"
    => \E d \in served : Kind(d) = "delete" /\ Key(d) = Key(a)

\* What an operation answers has been so at some instant of its call, whatever
\* happens between its requests: a Delete that says true has met an object, one
\* that says false has not, a reader gets what was there, and a URL that was to be
\* checked is for an object that was.
AnswersWereTrue ==
  \A o \in Ops :
    /\ answer[o] = "saved" => o \in seen[o]
    /\ answer[o] \in {"true", "file exists"} => seen[o] # {None}
    /\ answer[o] = "url" /\ Kind(o) = "checked url" => seen[o] # {None}
    /\ answer[o] = "false" => None \in seen[o]
    /\ answer[o] \in Objects => answer[o] \in seen[o]

\* No operation claims an effect it did not have, whether or not it was sent again;
\* only a Delete that looks first may.  And only a lost answer makes one deny an effect
\* it had: a Save refused because of the object it has put itself, a Delete that denies
\* its own removal.
OnlyLostAnswersMislead ==
  \A o \in Ops :
    /\ answer[o] = "saved" => o \in served
    /\ Kind(o) = "delete" /\ answer[o] = "true" => provider.looks \/ o \in served
    /\ answer[o] \in {"file exists", "false"} /\ o \in served => o \in resent

\* An operation has found its object if it looked for it and goes on.
HasFound(o, step) ==
  \/ step = "delete" /\ provider.looks
  \/ step = "sign" /\ Kind(o) = "checked url" /\ provider.signs
Found == {o \in Ops : HasFound(o, pc[o])}

\* The backends keep the promise of RemoteStore: but for lost answers, and for what
\* a Delete or an AccessURL has looked up, every operation takes effect and decides
\* its answer at one instant, whatever happens to the bucket meanwhile.
Promise == INSTANCE RemoteStore WITH found <- Found, lost <- resent

ImplementsRemoteStore == Promise!Spec
================================================================================
