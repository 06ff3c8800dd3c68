------------------------------ MODULE RemoteStore ------------------------------
(***************************************************************************)
(* What a backend promises whose objects are kept by a service elsewhere.  *)
(* As with ObjectStore, an operation takes effect and decides its answer at*)
(* one instant of its call, but the two may come apart:                    *)
(*                                                                         *)
(* - the answer to a request may get lost on its way back (Lose).  The     *)
(*   operation does not know then whether it has taken effect.  It may do  *)
(*   so again, it may be refused for what it did itself, or fail;          *)
(* - a service that does not tell whether there was an object to delete is *)
(*   asked for it first (Look).  A Delete that has found one says so, even *)
(*   if another was faster (Gone); so does AccessURL with CheckExists.     *)
(*                                                                         *)
(* There is no third way: whatever else happens between the requests of an *)
(* operation, between calls, or to the bucket, is not to be seen.          *)
(***************************************************************************)
CONSTANTS Keys,      \* object keys
          Ops,       \* operations, each called at most once
          Old,       \* an object that is there before the first call
          None,      \* no object, and the answer of an operation in progress
          Lossy      \* the operations that may lose an answer, once

VARIABLES request,   \* what each operation asks: its kind and its key
          objects,   \* the object under each key, or None
          answer,    \* each operation's answer, None until it is decided
          found,     \* the operations under way that have found their object
          lost       \* the operations that have lost an answer

vars == <<request, objects, answer, found, lost>>

Kinds == {"save", "overwrite", "delete", "exists", "get", "url", "checked url"}

Init == /\ request \in [Ops -> [kind : Kinds, key : Keys]]
        /\ objects \in [Keys -> {Old, None}]
        /\ answer  = [o \in Ops |-> None]
        /\ found = {} /\ lost = {}

Asks(o, kinds) == answer[o] = None /\ request[o].kind \in kinds
Object(o)      == objects[request[o].key]
Put(o, object) == objects' = [objects EXCEPT ![request[o].key] = object]
Decide(o, a)   == /\ answer' = [answer EXCEPT ![o] = a]
                  /\ found' = found \ {o}
                  /\ UNCHANGED <<request, lost>>

\* What an operation does to the object of its key: the service checks the
\* condition of an exclusive Save in the request that puts the object.
Saves(o)   == /\ Asks(o, {"save", "overwrite"})
              /\ request[o].kind = "save" => Object(o) = None
              /\ Put(o, o)
Deletes(o) == /\ Asks(o, {"delete"})
              /\ Object(o) # None
              /\ Put(o, None)

Publish(o) == Saves(o) /\ Decide(o, "saved")
Remove(o)  == Deletes(o) /\ Decide(o, "true")

\* The answer is lost, after the request has been served.  A Save may also lose
\* the answer to a request that prepares it.
Lose(o) == /\ o \in Lossy \ lost
           /\ lost' = lost \cup {o}
           /\ \/ Saves(o) \/ Deletes(o)
              \/ Asks(o, {"save", "overwrite"}) /\ UNCHANGED objects
           /\ UNCHANGED <<request, answer, found>>

\* An exclusive Save is refused because of what is there, were it its own.
Refuse(o) == /\ Asks(o, {"save"})
             /\ Object(o) # None
             /\ Decide(o, "file exists")
             /\ UNCHANGED objects

Look(o) == /\ Asks(o, {"delete", "checked url"})
           /\ Object(o) # None
           /\ found' = found \cup {o}
           /\ UNCHANGED <<request, objects, answer, lost>>

\* A Delete that has found an object answers as if it had removed it.
Gone(o) == /\ Asks(o, {"delete"})
           /\ o \in found
           /\ Object(o) = None
           /\ Decide(o, "true")
           /\ UNCHANGED objects

Read(o) == /\ Asks(o, {"exists", "get"})
           /\ Object(o) # None
           /\ Decide(o, IF request[o].kind = "get" THEN Object(o) ELSE "true")
           /\ UNCHANGED objects

Miss(o) == /\ Asks(o, {"delete", "exists", "get", "checked url"})
           /\ o \notin found
           /\ Object(o) = None
           /\ Decide(o, "false")
           /\ UNCHANGED objects

\* A URL is given out without asking again.
Sign(o) == /\ Asks(o, {"url", "checked url"})
           /\ request[o].kind = "checked url" => o \in found
           /\ Decide(o, "url")
           /\ UNCHANGED objects

\* An operation that fails has changed nothing, unless it has lost an answer.
Fail(o) == /\ answer[o] = None
           /\ Decide(o, "error")
           /\ UNCHANGED objects

Next == \E o \in Ops : \/ Publish(o) \/ Remove(o) \/ Lose(o) \/ Refuse(o) \/ Look(o)
                       \/ Gone(o) \/ Read(o) \/ Miss(o) \/ Sign(o) \/ Fail(o)

Spec == Init /\ [][Next]_vars
================================================================================
