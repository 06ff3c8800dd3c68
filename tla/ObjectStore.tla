------------------------------ MODULE ObjectStore ------------------------------
(***************************************************************************)
(* What a backend promises its callers (backend.go, interface Backend):    *)
(* every operation takes effect, and decides its answer, at one instant    *)
(* between its call and its return.  An object is named by the Save that   *)
(* wrote it, so that two objects with equal contents stay distinguishable; *)
(* `Old` is an object from before the first call.                          *)
(*                                                                         *)
(* `durable` is what a power loss leaves.  A store may be behind on it, or *)
(* keep up; what it goes back to is some state the store has really been   *)
(* in: in particular no object that was never whole.                       *)
(*                                                                         *)
(* A store that keeps objects in directories cannot keep the full promise  *)
(* for a key that is also the directory of another one.  For the keys in   *)
(* Prefixes, and for those alone, a Save may be refused, and a Delete may  *)
(* claim a success, without an object.                                     *)
(***************************************************************************)
CONSTANTS Keys,      \* object keys
          Prefixes,  \* the keys that are also directories of other keys
          Ops,       \* operations, each called at most once
          Old,       \* an object that is there before the first call
          None       \* no object, and the answer of an operation in progress

VARIABLES request,   \* what each operation asks: its kind and its key
          objects,   \* the object under each key, or None
          durable,   \* what objects goes back to after a power loss
          answer     \* each operation's answer, None until it is decided

vars == <<request, objects, durable, answer>>

Kinds   == {"save", "overwrite", "delete", "exists", "get"}
Objects == Ops \cup {Old}
Answers == {"saved", "file exists", "true", "false", "error"} \cup Objects

Init == /\ request \in [Ops -> [kind : Kinds, key : Keys]]
        /\ objects \in [Keys -> {Old, None}]
        /\ durable = objects
        /\ answer  = [o \in Ops |-> None]

Asks(o, kinds)   == answer[o] = None /\ request[o].kind \in kinds
Decide(o, a)     == answer' = [answer EXCEPT ![o] = a]
Object(o)        == objects[request[o].key]
Put(o, object)   == /\ objects' = [objects EXCEPT ![request[o].key] = object]
                    /\ durable' \in {durable, objects'}

(***************************************************************************)
(* An exclusive Save publishes only where no object is; an overwriting one *)
(* replaces what is there.                                                 *)
(***************************************************************************)
Publish(o) == /\ Asks(o, {"save", "overwrite"})
              /\ request[o].kind = "save" => Object(o) = None
              /\ Put(o, o)
              /\ Decide(o, "saved")
              /\ UNCHANGED request

\* The Save is refused because of what is there.
Refuse(o) == /\ Asks(o, {"save", "overwrite"})
             /\ \/ request[o].kind = "save" /\ Object(o) # None
                \/ request[o].key \in Prefixes
             /\ Decide(o, "file exists")
             /\ UNCHANGED <<request, objects, durable>>

Remove(o) == /\ Asks(o, {"delete"})
             /\ Object(o) # None \/ request[o].key \in Prefixes
             /\ Put(o, None)
             /\ Decide(o, "true")
             /\ UNCHANGED request

\* Exists and GetOrNil answer with what is there at one instant.
Read(o) == /\ Asks(o, {"exists", "get"})
           /\ Object(o) # None
           /\ Decide(o, IF request[o].kind = "get" THEN Object(o) ELSE "true")
           /\ UNCHANGED <<request, objects, durable>>

\* There is no object to delete or to read.
Miss(o) == /\ Asks(o, {"delete", "exists", "get"})
           /\ Object(o) = None
           /\ Decide(o, "false")
           /\ UNCHANGED <<request, objects, durable>>

\* An operation that fails, or whose process dies, has changed nothing.
Fail(o) == /\ answer[o] = None
           /\ Decide(o, "error")
           /\ UNCHANGED <<request, objects, durable>>

Persist == durable' = objects /\ UNCHANGED <<request, objects, answer>>

\* The machine loses power: operations in progress fail with it.
PowerLoss == /\ objects' = durable
             /\ answer' \in {a \in [Ops -> Answers \cup {None}] :
                               \A o \in Ops : a[o] # answer[o] => a[o] = "error"}
             /\ UNCHANGED <<request, durable>>

Operation(o) == \/ Publish(o) \/ Refuse(o) \/ Remove(o)
                \/ Read(o) \/ Miss(o) \/ Fail(o)

\* A step, as long as the power lasts.
Step == (\E o \in Ops : Operation(o)) \/ Persist

Next == Step \/ PowerLoss

Spec == Init /\ [][Next]_vars

-------------------------------------------------------------------------------
(* What the promise is worth to the callers of any store, as long as the   *)
(* power lasts.                                                            *)

Asked(o, kind, key) == request[o] = [kind |-> kind, key |-> key]

\* An object that was saved stays, until an overwriting Save or a Delete of its key
\* has succeeded: no update is lost, whatever races with it.
Undone(o) == \E p \in Ops \ {o} :
               \/ answer[p] = "saved" /\ Asked(p, "overwrite", request[o].key)
               \/ answer[p] = "true"  /\ Asked(p, "delete", request[o].key)
SavedStays == \A o \in Ops : answer[o] = "saved" => Object(o) = o \/ Undone(o)

\* Two Saves of one key that must not overwrite succeed only if a Delete has.
ExclusiveSavesExclude ==
  \A k \in Keys : \A o, p \in Ops :
    /\ Asked(o, "save", k) /\ answer[o] = "saved"
    /\ Asked(p, "save", k) /\ answer[p] = "saved"
    => o = p \/ \E d \in Ops : Asked(d, "delete", k) /\ answer[d] = "true"

\* What is under a key, or was given to a reader of it, is what a Save of that key has
\* put there with success, or was there before.
ObjectsWereSaved ==
  \A k \in Keys : \A o \in Ops :
    objects[k] = o \/ (\E r \in Ops : Asked(r, "get", k) /\ answer[r] = o)
    => (Asked(o, "save", k) \/ Asked(o, "overwrite", k)) /\ answer[o] = "saved"
================================================================================
