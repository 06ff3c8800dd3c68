---------------------------- MODULE ObjectStoreProofs ----------------------------
(***************************************************************************)
(* What the callers of a store may rely on follows from the promise of     *)
(* ObjectStore, for any number of operations and keys: it need not be      *)
(* proved of each store that keeps the promise.                            *)
(***************************************************************************)
EXTENDS ObjectStore, TLAPS

\* Objects, answers and None can be told from each other.
Distinct == /\ Old \notin Ops
            /\ None \notin Ops \cup {Old}
            /\ \A word \in {"saved", "file exists", "true", "false", "error"} :
                 word \notin Ops \cup {Old, None}

-------------------------------------------------------------------------------
(* The inductive invariant.                                                *)

Typed == /\ request \in [Ops -> [kind : Kinds, key : Keys]]
         /\ objects \in [Keys -> Objects \cup {None}]
         /\ answer \in [Ops -> Answers \cup {None}]

\* A Delete of the key has succeeded.
Deleted(k) == \E d \in Ops : Asked(d, "delete", k) /\ answer[d] = "true"

\* Where a Save has succeeded there is an object, unless a Delete has succeeded, too:
\* until then no other exclusive Save finds the key free.
SavedKeysAreTaken ==
  \A o \in Ops : answer[o] = "saved" => /\ request[o].kind \in {"save", "overwrite"}
                                         /\ \/ Object(o) # None
                                            \/ Deleted(request[o].key)

IInv == Typed /\ SavedKeysAreTaken /\ SavedStays /\ ExclusiveSavesExclude /\ ObjectsWereSaved

LEMMA Initially == ASSUME Distinct, Init PROVE IInv
  BY DEF Distinct, Init, IInv, Typed, SavedKeysAreTaken, SavedStays, ExclusiveSavesExclude,
     ObjectsWereSaved, Objects, Answers

-------------------------------------------------------------------------------
(* The invariant is kept, as long as the power lasts.                      *)

\* What was decided stays decided.
LEMMA Decided ==
  ASSUME Distinct, Typed, NEW o \in Ops, Operation(o)
  PROVE  /\ request' = request /\ answer[o] = None
         /\ \A p \in Ops \ {o} : answer'[p] = answer[p]
         /\ \A p \in Ops : answer[p] # None => answer'[p] = answer[p]
  BY DEF Typed, Operation, Publish, Refuse, Remove, Read, Miss, Fail, Asks, Decide

\* Three ways to go on: a Save, a Delete, or an answer that leaves everything alone.
LEMMA Effects ==
  ASSUME Distinct, Typed, NEW o \in Ops, Operation(o)
  PROVE  \/ /\ request[o].kind \in {"save", "overwrite"}
            /\ request[o].kind = "save" => Object(o) = None
            /\ objects' = [objects EXCEPT ![request[o].key] = o] /\ answer'[o] = "saved"
         \/ /\ request[o].kind = "delete"
            /\ objects' = [objects EXCEPT ![request[o].key] = None] /\ answer'[o] = "true"
         \/ /\ objects' = objects /\ answer'[o] # "saved"
            /\ answer'[o] \in Ops => answer'[o] = Object(o)
  <1>1. Object(o) \in Objects \cup {None} /\ Object(o) # "saved"
    BY DEF Distinct, Typed, Objects, Object
  <1>2. ASSUME NEW a, Decide(o, a) PROVE answer'[o] = a
    BY <1>2 DEF Typed, Decide
  <1>3. CASE Publish(o) \/ Remove(o)
    BY <1>2, <1>3 DEF Publish, Remove, Asks, Put
  <1>4. CASE Refuse(o) \/ Miss(o) \/ Fail(o)
    BY <1>2, <1>4 DEF Refuse, Miss, Fail, Distinct
  <1>5. CASE Read(o)
    BY <1>1, <1>2, <1>5 DEF Read, Distinct
  <1> QED
    BY <1>3, <1>4, <1>5 DEF Operation

LEMMA OperationTyped ==
  ASSUME Distinct, Typed, NEW o \in Ops, Operation(o) PROVE Typed'
  <1>1. Object(o) \in Objects \cup {None} /\ o \in Objects
    BY DEF Typed, Object, Objects
  <1>2. ASSUME NEW a \in Answers, Decide(o, a) PROVE answer' \in [Ops -> Answers \cup {None}]
    BY <1>2 DEF Typed, Decide
  <1>3. ASSUME NEW x \in Objects \cup {None}, Put(o, x)
        PROVE  objects' \in [Keys -> Objects \cup {None}]
    BY <1>3 DEF Typed, Put
  <1>4. CASE Publish(o) \/ Remove(o)
    BY <1>1, <1>2, <1>3, <1>4 DEF Publish, Remove, Typed, Answers
  <1>5. CASE Refuse(o) \/ Miss(o) \/ Fail(o)
    BY <1>2, <1>5 DEF Refuse, Miss, Fail, Typed, Answers
  <1>6. CASE Read(o)
    <2>1. (IF request[o].kind = "get" THEN Object(o) ELSE "true") \in Answers
      BY <1>1, <1>6 DEF Read, Answers
    <2> QED
      BY <1>2, <1>6, <2>1 DEF Read, Typed
  <1> QED
    BY <1>4, <1>5, <1>6 DEF Operation

LEMMA DeletedStays ==
  ASSUME Distinct, Typed, NEW o \in Ops, Operation(o), NEW k \in Keys, Deleted(k)
  PROVE  Deleted(k)'
  BY Decided DEF Distinct, Deleted, Asked

LEMMA OperationTaken ==
  ASSUME Distinct, IInv, NEW o \in Ops, Operation(o) PROVE SavedKeysAreTaken'
  <1> SUFFICES ASSUME NEW p \in Ops, answer'[p] = "saved"
               PROVE  /\ request[p].kind \in {"save", "overwrite"}
                      /\ objects'[request[p].key] # None \/ Deleted(request[p].key)'
    BY Decided DEF IInv, SavedKeysAreTaken, Object
  <1>1. Typed /\ request[p].key \in Keys /\ request[o].key \in Keys
    BY DEF IInv, Typed
  <1>2. Deleted(request[p].key) => Deleted(request[p].key)'
    BY <1>1, Decided DEF Distinct, Deleted, Asked
  <1>3. CASE answer[p] = "saved" /\ p # o
    <2>1. request[o].kind = "delete" /\ request[o].key = request[p].key /\ answer'[o] = "true"
          => Deleted(request[p].key)'
      BY <1>1, Decided DEF Deleted, Asked, Typed
    <2> QED
      BY <1>1, <1>2, <1>3, <2>1, Effects DEF Distinct, IInv, SavedKeysAreTaken, Object, Typed
  <1>4. CASE p = o
    BY <1>1, <1>4, Effects DEF Distinct, Typed
  <1> QED
    BY <1>1, <1>3, <1>4, Decided

LEMMA OperationStays ==
  ASSUME Distinct, IInv, NEW o \in Ops, Operation(o) PROVE SavedStays'
  <1> SUFFICES ASSUME NEW p \in Ops, answer'[p] = "saved", objects'[request[p].key] # p
               PROVE  Undone(p)'
    BY Decided DEF IInv, SavedStays, Object
  <1>1. Typed /\ request[p].key \in Keys /\ request[o].key \in Keys
    BY DEF IInv, Typed
  <1>2. p # o
    BY <1>1, Effects DEF Typed
  <1>3. CASE Object(p) = p
    <2>1. objects' # objects /\ request[o].key = request[p].key
      BY <1>1, <1>3, Effects DEF Object, Typed
    <2>2. \/ request[o].kind = "overwrite" /\ answer'[o] = "saved"
          \/ request[o].kind = "delete" /\ answer'[o] = "true"
      BY <1>1, <1>3, <2>1, Effects DEF Object, Distinct
    <2> QED
      BY <1>1, <1>2, <2>1, <2>2, Decided DEF Undone, Asked, Typed
  <1>4. CASE Object(p) # p
    <2>1. answer[p] = "saved"
      BY <1>1, <1>2, Decided
    <2>2. Undone(p)
      BY <1>4, <2>1 DEF IInv, SavedStays
    <2> QED
      BY <1>1, <2>2, Decided DEF Undone, Asked, Distinct
  <1> QED
    BY <1>3, <1>4

LEMMA OperationExcludes ==
  ASSUME Distinct, IInv, NEW o \in Ops, Operation(o) PROVE ExclusiveSavesExclude'
  <1> SUFFICES ASSUME NEW k \in Keys, NEW p \in Ops, NEW q \in Ops, p # q,
                      Asked(p, "save", k), answer'[p] = "saved",
                      Asked(q, "save", k), answer'[q] = "saved"
               PROVE  Deleted(k)'
    BY Decided DEF IInv, ExclusiveSavesExclude, Asked, Deleted
  <1>1. Typed
    BY DEF IInv
  \* The one that comes second has found its key free.
  <1>2. ASSUME NEW r \in Ops, r # o, Asked(r, "save", k), answer'[r] = "saved",
               Asked(o, "save", k), answer'[o] = "saved"
        PROVE  Deleted(k)
    <2>1. Object(o) = None
      BY <1>1, <1>2, Effects DEF Asked
    <2>2. answer[r] = "saved"
      BY <1>1, <1>2, Decided
    <2> QED
      BY <1>2, <2>1, <2>2 DEF IInv, SavedKeysAreTaken, Asked, Object
  <1>3. p # o /\ q # o => Deleted(k)
    BY <1>1, Decided DEF IInv, ExclusiveSavesExclude, Deleted
  <1>4. Deleted(k)
    BY <1>2, <1>3
  <1> QED
    BY <1>1, <1>4, DeletedStays

LEMMA OperationSaved ==
  ASSUME Distinct, IInv, NEW o \in Ops, Operation(o) PROVE ObjectsWereSaved'
  <1> DEFINE Saved(p, k) == /\ Asked(p, "save", k) \/ Asked(p, "overwrite", k)
                            /\ answer'[p] = "saved"
  <1> SUFFICES ASSUME NEW k \in Keys, NEW p \in Ops,
                      objects'[k] = p \/ \E r \in Ops : Asked(r, "get", k) /\ answer'[r] = p
               PROVE  Saved(p, k)
    BY Decided DEF IInv, ObjectsWereSaved, Asked
  <1>1. Typed /\ p # None /\ p # "saved"
    BY DEF IInv, Distinct
  <1>2. objects[k] = p => Saved(p, k)
    BY <1>1, Decided DEF IInv, ObjectsWereSaved, Distinct
  <1>3. CASE objects'[k] = p
    <2>1. CASE objects[k] = p
      BY <1>2, <2>1
    <2>2. CASE objects[k] # p
      <3>1. p = o /\ request[o].key = k /\ request[o].kind \in {"save", "overwrite"}
        BY <1>1, <1>3, <2>2, Effects DEF Typed
      <3>2. answer'[o] = "saved"
        BY <1>1, <1>3, <2>2, Effects DEF Typed
      <3> QED
        BY <1>1, <3>1, <3>2 DEF Asked, Typed
    <2> QED
      BY <2>1, <2>2
  <1>4. ASSUME NEW r \in Ops, Asked(r, "get", k), answer'[r] = p PROVE Saved(p, k)
    <2>1. CASE r = o
      <3>1. p = Object(o)
        BY <1>1, <1>4, <2>1, Effects DEF Asked
      <3> QED
        BY <1>2, <1>4, <2>1, <3>1 DEF Object, Asked
    <2>2. CASE r # o
      <3>1. answer[r] = p
        BY <1>1, <1>4, <2>2, Decided
      <3> QED
        BY <1>1, <1>4, <3>1, Decided DEF IInv, ObjectsWereSaved, Distinct
    <2> QED
      BY <2>1, <2>2
  <1> QED
    BY <1>3, <1>4

LEMMA StepKeeps == ASSUME Distinct, IInv, [Step]_vars PROVE IInv'
  <1>1. ASSUME NEW o \in Ops, Operation(o) PROVE IInv'
    BY <1>1, OperationTyped, OperationTaken, OperationStays, OperationExcludes, OperationSaved
       DEF IInv
  <1>2. CASE Persist \/ UNCHANGED vars
    <2>1. request' = request /\ objects' = objects /\ answer' = answer
      BY <1>2 DEF Persist, vars
    <2>2. Typed' /\ SavedKeysAreTaken' /\ SavedStays'
      BY <2>1 DEF IInv, Typed, SavedKeysAreTaken, SavedStays, Undone, Asked, Deleted, Object
    <2>3. ExclusiveSavesExclude' /\ ObjectsWereSaved'
      BY <2>1 DEF IInv, ExclusiveSavesExclude, ObjectsWereSaved, Asked
    <2> QED
      BY <2>2, <2>3 DEF IInv
  <1> QED
    BY <1>1, <1>2 DEF Step

\* As long as the power lasts, a store that keeps its promise loses no update, lets one
\* exclusive Save win, and has and gives out nothing but what was saved under the key.
THEOREM CallersMayRely ==
  ASSUME Distinct
  PROVE  Init /\ [][Step]_vars => [](SavedStays /\ ExclusiveSavesExclude /\ ObjectsWereSaved)
  <1>1. Init => IInv
    BY Initially
  <1>2. IInv /\ [Step]_vars => IInv'
    BY StepKeeps
  <1>3. IInv => SavedStays /\ ExclusiveSavesExclude /\ ObjectsWereSaved
    BY DEF IInv
  <1> QED
    BY <1>1, <1>2, <1>3, PTL
================================================================================
