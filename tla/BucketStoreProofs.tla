--------------------------- MODULE BucketStoreProofs ---------------------------
(***************************************************************************)
(* The properties of BucketStore, for any number of operations and keys.   *)
(* The inductive invariant adds to them what each step of an operation     *)
(* knows: which kinds of operation make it, that the bucket is there once  *)
(* Save has ensured it, that an object which was put is there until a      *)
(* Delete has removed it, and that a call sees every change of its key.    *)
(***************************************************************************)
EXTENDS BucketStore, TLAPS

\* An operation makes the requests of its kind, and has no answer yet.
StepsFitKinds ==
  \A o \in Ops : /\ pc[o] \in Ensuring \cup {"put"} => Kind(o) \in Saves
                 /\ pc[o] = "delete" => Kind(o) = "delete"
                 /\ pc[o] = "look" => Kind(o) \notin Saves \cup {"url"}
                 /\ pc[o] = "sign" => Kind(o) \in URLs
                 /\ pc[o] # "done" => answer[o] = None

\* Once Save has ensured the bucket there is one, and objects are in ours.
BucketEnsured ==
  /\ \A o \in Ops : \/ pc[o] = "put" /\ creates
                    \/ pc[o] = "head again"
                    => bucket # "absent"
  /\ served # {} => bucket = "ours"

\* An operation that has been served and goes on has lost the answer.
ServedAreSent ==
  \A o \in served : /\ pc[o] \in {"put", "delete", "done"}
                    /\ pc[o] # "done" => o \in resent

\* A call under way has seen what is there now; one that looked, the object it saw.
SeenIsCurrent ==
  \A o \in Ops : /\ pc[o] \notin {"idle", "done"} => There(o) \in seen[o]
                 /\ \/ pc[o] = "delete" /\ provider.looks
                    \/ pc[o] = "sign" /\ Kind(o) = "checked url" /\ provider.signs
                    => \E x \in seen[o] : x # None

Removed(k) == \E d \in served : Kind(d) = "delete" /\ Key(d) = k

\* What was put is there, or something after it, until a Delete removes it.
PutsAreKept == \A o \in served : Kind(o) \in Saves => There(o) # None \/ Removed(Key(o))

\* OneExclusiveSaveWins, for Saves that have been served, answered or not.
OneExclusiveSaveServed ==
  \A a, b \in served : /\ a # b /\ Key(a) = Key(b)
                       /\ Kind(a) = "save" /\ Kind(b) = "save"
                       => Removed(Key(a))

\* Whoever says that it has saved an object has put it.
SavedWerePut == \A o \in Ops : answer[o] = "saved" => o \in served

IInv == /\ TypeOK /\ StepsFitKinds /\ BucketEnsured /\ ServedAreSent /\ SeenIsCurrent
        /\ PutsAreKept /\ OneExclusiveSaveServed /\ SavedWerePut
        /\ SaveFailsForCause /\ AnswersWereTrue /\ OnlyLostAnswersMislead

LEMMA InitIInv == Init => IInv
  <1>1. Init => TypeOK
    BY DEF Init, TypeOK, Steps, Ensuring, Objects
  <1>2. Init => StepsFitKinds /\ BucketEnsured /\ ServedAreSent /\ SeenIsCurrent
    BY DEF Init, StepsFitKinds, BucketEnsured, ServedAreSent, SeenIsCurrent, Ensuring
  <1>3. Init => PutsAreKept /\ OneExclusiveSaveServed /\ SavedWerePut
    BY ValuesAssumption DEF Init, PutsAreKept, OneExclusiveSaveServed, SavedWerePut
  <1>4. Init => SaveFailsForCause /\ AnswersWereTrue /\ OnlyLostAnswersMislead
    BY ValuesAssumption DEF Init, SaveFailsForCause, AnswersWereTrue,
      OnlyLostAnswersMislead, Objects
  <1> QED BY <1>1, <1>2, <1>3, <1>4 DEF IInv

\* Requests are of a kind and for a key.
LEMMA Typing == TypeOK => \A o \in Ops : Kind(o) \in Kinds /\ Key(o) \in Keys
  BY RequestsAssumption DEF TypeOK, Kind, Key, Kinds

\* Where nothing is put or removed, what was put stays as it is.
LEMMA PutsStay ==
  ASSUME UNCHANGED <<request, served, objects>>, PutsAreKept, OneExclusiveSaveServed
  PROVE  PutsAreKept' /\ OneExclusiveSaveServed'
  <1>1. \A o \in served : /\ There(o)' = There(o) /\ Kind(o)' = Kind(o)
                          /\ Removed(Key(o))' <=> Removed(Key(o))
    BY DEF There, Kind, Key, Removed
  <1>2. PutsAreKept'
    BY <1>1 DEF PutsAreKept
  <1>3. OneExclusiveSaveServed'
    BY <1>1 DEF OneExclusiveSaveServed, Key
  <1> QED BY <1>2, <1>3

(***************************************************************************)
(* Steps that change nothing of the service                                *)
(***************************************************************************)
LEMMA MoveKeepsIInv ==
  ASSUME IInv, NEW o \in Ops, NEW step \in Steps \ {"idle", "done"},
         pc[o] \notin {"idle", "done"},
         step \in Ensuring => creates,
         step \in Ensuring \cup {"put"} => Kind(o) \in Saves /\ o \notin served,
         step = "delete" => Kind(o) = "delete",
         step = "look" => Kind(o) \notin Saves \cup {"url"} /\ o \notin served,
         step = "sign" => Kind(o) \in URLs /\ o \notin served,
         step \in {"put", "head again"} => bucket # "absent",
         \/ step = "delete" /\ provider.looks
         \/ step = "sign" /\ Kind(o) = "checked url" /\ provider.signs
         => \E x \in seen[o] : x # None,
         Goto(o, step), UNCHANGED answer, Quiet
  PROVE  IInv'
  <1> USE DEF Goto, Quiet, setting
  <1>1. TypeOK'
    BY DEF IInv, TypeOK, Steps, Ensuring
  <1>2. StepsFitKinds' /\ BucketEnsured'
    BY DEF IInv, TypeOK, StepsFitKinds, BucketEnsured, Kind, Ensuring, Steps
  <1>3. ServedAreSent' /\ SeenIsCurrent'
    BY DEF IInv, TypeOK, ServedAreSent, SeenIsCurrent, There, Key, Kind, Ensuring, Steps
  <1>4. PutsAreKept' /\ OneExclusiveSaveServed' /\ SavedWerePut'
    BY PutsStay DEF IInv, SavedWerePut
  <1>5. SaveFailsForCause' /\ AnswersWereTrue' /\ OnlyLostAnswersMislead'
    BY DEF IInv, SaveFailsForCause, AnswersWereTrue, OnlyLostAnswersMislead, Kind
  <1> QED BY <1>1, <1>2, <1>3, <1>4, <1>5 DEF IInv

LEMMA ReturnKeepsIInv ==
  ASSUME IInv, NEW o \in Ops, NEW a \in Answers \ {"saved"}, pc[o] # "done",
         a = "error" /\ Kind(o) \in Saves =>
           o \in gaveUp' \/ (o \notin served /\ (bucket = "theirs" \/ ~creates)),
         a \in {"true", "file exists"} => seen[o] # {None},
         a = "url" /\ Kind(o) = "checked url" => seen[o] # {None},
         a = "false" => None \in seen[o],
         a \in Objects => a \in seen[o],
         a = "true" /\ Kind(o) = "delete" => provider.looks,
         Return(o, a), gaveUp' \in {gaveUp, gaveUp \cup {o}},
         UNCHANGED <<resent, served, seen, bucket, objects, setting>>
  PROVE  IInv'
  <1> USE DEF Goto, Return, setting
  <1>1. TypeOK'
    BY DEF IInv, TypeOK, Steps, Ensuring
  <1>2. StepsFitKinds' /\ BucketEnsured'
    BY DEF IInv, TypeOK, StepsFitKinds, BucketEnsured, Kind, Ensuring
  <1>3. ServedAreSent' /\ SeenIsCurrent'
    BY DEF IInv, TypeOK, ServedAreSent, SeenIsCurrent, There, Key, Kind
  <1>4. PutsAreKept' /\ OneExclusiveSaveServed' /\ SavedWerePut'
    BY PutsStay DEF IInv, TypeOK, SavedWerePut
  <1>5. SaveFailsForCause'
    BY DEF IInv, TypeOK, SaveFailsForCause, Kind
  <1>6. AnswersWereTrue'
    BY DEF IInv, TypeOK, AnswersWereTrue, Kind
  <1>7. OnlyLostAnswersMislead'
    BY DEF IInv, TypeOK, OnlyLostAnswersMislead, ServedAreSent, Kind
  <1> QED BY <1>1, <1>2, <1>3, <1>4, <1>5, <1>6, <1>7 DEF IInv

LEMMA CallKeepsIInv == ASSUME IInv, NEW o \in Ops, Call(o) PROVE IInv'
  <1> DEFINE step == FirstStep(Kind(o))
  <1>1. /\ step \in Steps \ {"idle", "done", "create", "head again"}
        /\ step = "head" => creates /\ Kind(o) \in Saves
        /\ step = "put" => ~creates /\ Kind(o) \in Saves
        /\ step = "delete" => Kind(o) = "delete" /\ ~provider.looks
        /\ step = "look" => Kind(o) \notin Saves \cup {"url"}
        /\ step = "sign" => Kind(o) \in URLs /\ (Kind(o) = "checked url" => ~provider.signs)
    BY Typing DEF IInv, FirstStep, Steps, Ensuring, Saves, URLs, Kinds
  <1>2. /\ pc[o] = "idle" /\ pc' = [pc EXCEPT ![o] = step] /\ o \notin served
        /\ seen' = [seen EXCEPT ![o] = {There(o)}]
        /\ UNCHANGED <<answer, resent, gaveUp, served, bucket, objects, setting>>
    BY DEF Call, Goto, IInv, ServedAreSent
  <1>3. There(o) \in Objects \cup {None}
    BY Typing DEF IInv, TypeOK, There
  <1> HIDE DEF step
  <1> USE <1>1, <1>2 DEF setting
  <1>4. TypeOK'
    BY <1>3 DEF IInv, TypeOK, Steps, Ensuring
  <1>5. StepsFitKinds' /\ BucketEnsured'
    BY DEF IInv, TypeOK, StepsFitKinds, BucketEnsured, Kind, Ensuring
  <1>6. ServedAreSent'
    BY DEF IInv, TypeOK, ServedAreSent
  <1>7. SeenIsCurrent'
    BY DEF IInv, TypeOK, SeenIsCurrent, There, Key, Kind
  <1>8. PutsAreKept' /\ OneExclusiveSaveServed' /\ SavedWerePut'
    BY PutsStay DEF IInv, SavedWerePut
  <1>9. SaveFailsForCause' /\ OnlyLostAnswersMislead'
    BY DEF IInv, SaveFailsForCause, OnlyLostAnswersMislead, Kind
  <1>10. AnswersWereTrue'
    <2>1. answer[o] = None
      BY DEF IInv, StepsFitKinds
    <2> QED BY <2>1, ValuesAssumption DEF IInv, TypeOK, AnswersWereTrue, Objects, Kind
  <1> QED BY <1>4, <1>5, <1>6, <1>7, <1>8, <1>9, <1>10 DEF IInv

(***************************************************************************)
(* Steps that create the bucket                                            *)
(***************************************************************************)
LEMMA BucketKeepsIInv ==
  ASSUME IInv, bucket = "absent", bucket' \in {"ours", "theirs"},
         UNCHANGED <<gaveUp, served, seen, objects, setting, answer>>,
         resent \subseteq resent', resent' \subseteq Lossy,
         \/ UNCHANGED pc
         \/ \E o \in Ops : creates /\ pc[o] = "create" /\ pc' = [pc EXCEPT ![o] = "put"]
  PROVE  IInv'
  <1> USE DEF setting
  <1>1. served = {}
    BY DEF IInv, BucketEnsured
  <1>2. TypeOK'
    BY DEF IInv, TypeOK, Steps, Ensuring
  <1>3. StepsFitKinds'
    BY DEF IInv, TypeOK, StepsFitKinds, Kind, Ensuring
  <1>4. BucketEnsured' /\ ServedAreSent'
    BY <1>1 DEF BucketEnsured, ServedAreSent
  <1>5. SeenIsCurrent'
    BY DEF IInv, TypeOK, SeenIsCurrent, There, Key, Kind
  <1>6. PutsAreKept' /\ OneExclusiveSaveServed' /\ SavedWerePut'
    BY <1>1 DEF IInv, PutsAreKept, OneExclusiveSaveServed, SavedWerePut
  <1>7. SaveFailsForCause' /\ AnswersWereTrue' /\ OnlyLostAnswersMislead'
    BY DEF IInv, SaveFailsForCause, AnswersWereTrue, OnlyLostAnswersMislead, Kind
  <1> QED BY <1>2, <1>3, <1>4, <1>5, <1>6, <1>7 DEF IInv

(***************************************************************************)
(* Steps that change the object                                            *)
(***************************************************************************)
\* What Put and DeleteObject have in common: o is served, and is told so or not.
LEMMA ServeKeepsIInv ==
  ASSUME IInv, NEW o \in Ops, NEW object \in Objects \cup {None}, NEW a \in {"saved", "true"},
         bucket = "ours",
         \/ pc[o] = "put" /\ object = o /\ a = "saved" /\ (Kind(o) = "save" => There(o) = None)
         \/ pc[o] = "delete" /\ object = None /\ a = "true" /\ There(o) # None,
         Becomes(o, object), served' = served \cup {o},
         (Heard(o) /\ Return(o, a)) \/ Lost(o),
         UNCHANGED <<gaveUp, bucket, setting>>
  PROVE  IInv'
  <1> USE DEF setting
  <1>1. /\ objects' = [objects EXCEPT ![Key(o)] = object]
        /\ \A p \in Ops : seen'[p] = IF Key(p) = Key(o) /\ pc[p] \notin {"idle", "done"}
                                       THEN seen[p] \cup {object} ELSE seen[p]
        /\ seen' \in [Ops -> SUBSET (Objects \cup {None})]
        /\ object \in seen'[o] /\ There(o) \in seen[o]
    BY DEF IInv, TypeOK, SeenIsCurrent, Becomes
  <1>2. /\ resent \subseteq resent' /\ resent' \subseteq Lossy
        /\ \/ pc' = [pc EXCEPT ![o] = "done"] /\ answer' = [answer EXCEPT ![o] = a]
           \/ UNCHANGED <<pc, answer>> /\ o \in resent'
    BY DEF Heard, Return, Goto, Lost, IInv, TypeOK
  <1>3. answer[o] = None /\ pc[o] \in {"put", "delete"} /\ Key(o) \in Keys
    BY Typing DEF IInv, StepsFitKinds
  <1>4. pc[o] = "put" => Kind(o) \in Saves
    BY DEF IInv, StepsFitKinds
  <1>5. pc[o] = "delete" => Kind(o) = "delete" /\ Kind(o) \notin Saves
    BY DEF IInv, StepsFitKinds, Saves
  <1>6. TypeOK'
    <2>1. objects' \in [Keys -> Objects \cup {None}]
      BY <1>1 DEF IInv, TypeOK
    <2>2. /\ pc' \in [Ops -> IF creates THEN Steps ELSE Steps \ Ensuring]
          /\ answer' \in [Ops -> Answers \cup {None}]
      BY <1>2 DEF IInv, TypeOK, Answers, Steps, Ensuring
    <2> QED BY <1>1, <1>2, <2>1, <2>2 DEF IInv, TypeOK
  <1>7. StepsFitKinds' /\ BucketEnsured' /\ ServedAreSent'
    <2>1. StepsFitKinds'
      BY <1>2, <1>3 DEF IInv, TypeOK, StepsFitKinds, Kind, Ensuring
    <2>2. BucketEnsured'
      BY DEF BucketEnsured
    <2>3. ServedAreSent'
      BY <1>2, <1>3 DEF IInv, TypeOK, ServedAreSent
    <2> QED BY <2>1, <2>2, <2>3
  <1>8. SeenIsCurrent'
    <2>1. ASSUME NEW p \in Ops, pc'[p] \notin {"idle", "done"} PROVE There(p)' \in seen'[p]
      <3>1. pc[p] \notin {"idle", "done"} /\ There(p) \in seen[p] /\ Key(p) \in Keys
        BY <1>2, <1>3, <2>1, Typing DEF IInv, TypeOK, SeenIsCurrent
      <3> QED BY <1>1, <3>1 DEF IInv, TypeOK, There, Key
    <2>2. ASSUME NEW p \in Ops,
                 \/ pc'[p] = "delete" /\ provider.looks
                 \/ pc'[p] = "sign" /\ Kind(p) = "checked url" /\ provider.signs
          PROVE  \E x \in seen'[p] : x # None
      BY <1>1, <1>2, <1>3, <2>2 DEF IInv, TypeOK, SeenIsCurrent
    <2> QED BY <2>1, <2>2 DEF SeenIsCurrent, Kind
  <1>9. \A k \in Keys : Removed(k) => Removed(k)'
    BY DEF Removed, Kind, Key
  <1>10. PutsAreKept'
    <2>1. CASE pc[o] = "put"
      <3>1. object # None
        BY <2>1, ValuesAssumption
      <3> QED BY <1>1, <1>3, <1>9, <3>1, Typing DEF IInv, TypeOK, PutsAreKept, There, Kind, Key
    <2>2. CASE pc[o] = "delete"
      <3>1. Removed(Key(o))'
        BY <1>5, <2>2 DEF Removed, Kind, Key
      <3>2. ASSUME NEW p \in served', Kind(p)' \in Saves PROVE There(p)' # None \/ Removed(Key(p))'
        <4>1. p \in Ops /\ Kind(p) \in Saves /\ p # o /\ p \in served
          BY <1>5, <2>2, <3>2 DEF IInv, TypeOK, Kind
        <4>2. CASE Key(p) = Key(o)
          BY <3>1, <4>2 DEF Key
        <4>3. CASE Key(p) # Key(o)
          <5>1. There(p)' = There(p)
            BY <1>1, <4>1, <4>3, Typing DEF IInv, TypeOK, There, Key
          <5>2. Removed(Key(p)) => Removed(Key(p))'
            BY DEF Removed, Kind, Key
          <5> QED BY <4>1, <5>1, <5>2 DEF IInv, PutsAreKept
        <4> QED BY <4>2, <4>3
      <3> QED BY <3>2 DEF PutsAreKept
    <2> QED BY <1>3, <2>1, <2>2
  <1>11. OneExclusiveSaveServed'
    <2> SUFFICES ASSUME NEW p \in served', NEW q \in served', p # q, Key(p) = Key(q),
                        Kind(p) = "save", Kind(q) = "save"
                 PROVE  Removed(Key(p))'
      BY DEF OneExclusiveSaveServed, Kind, Key
    <2>1. p \in Ops /\ q \in Ops /\ Key(p) \in Keys
      BY Typing DEF IInv, TypeOK
    <2>2. Removed(Key(p)) => Removed(Key(p))'
      BY DEF Removed, Kind, Key
    <2>3. CASE p # o /\ q # o
      BY <2>2, <2>3 DEF IInv, OneExclusiveSaveServed
    <2>4. CASE (p = o \/ q = o) /\ pc[o] = "put"
      <3>1. PICK r \in {p, q} \ {o} : r \in served /\ Key(r) = Key(o) /\ Kind(r) \in Saves
        BY <2>4 DEF Saves
      <3>2. There(r) = None
        BY <2>4, <3>1 DEF There
      <3> QED BY <2>2, <2>4, <3>1, <3>2 DEF IInv, PutsAreKept
    <2>5. CASE (p = o \/ q = o) /\ pc[o] = "delete"
      BY <1>5, <2>5
    <2> QED BY <1>3, <2>3, <2>4, <2>5
  <1>12. SavedWerePut'
    BY <1>2 DEF IInv, TypeOK, SavedWerePut
  <1>13. SaveFailsForCause'
    <2> SUFFICES ASSUME NEW p \in Ops \ gaveUp', answer'[p] = "error", Kind(p) \in Saves
                 PROVE  p \notin served' /\ (bucket = "theirs" \/ ~creates)
      BY DEF SaveFailsForCause, Kind
    <2>1. None # "error" /\ a # "error"
      BY ValuesAssumption
    <2>2. answer'[o] \in {None, a}
      BY <1>2, <1>3 DEF IInv, TypeOK
    <2>3. p # o /\ answer[p] = "error"
      BY <1>2, <2>1, <2>2 DEF IInv, TypeOK
    <2> QED BY <2>3 DEF IInv, SaveFailsForCause
  <1>14. AnswersWereTrue'
    <2>1. ASSUME NEW p \in Ops, p # o, pc[p] # "done" PROVE answer'[p] = None
      BY <1>2, <2>1 DEF IInv, TypeOK, StepsFitKinds
    <2>2. ASSUME NEW p \in Ops, p # o, pc[p] = "done" 
          PROVE  answer'[p] = answer[p] /\ seen'[p] = seen[p]
      BY <1>1, <1>2, <2>2 DEF IInv, TypeOK
    <2>3. answer'[o] \in {None, a} /\ (a = "true" => seen'[o] # {None})
      <3>1. a = "true" => There(o) # None /\ There(o) \in seen'[o]
        BY <1>1
      <3> QED BY <1>2, <1>3, <3>1 DEF IInv, TypeOK
    <2>4. a = "saved" => o \in seen'[o]
      BY <1>1
    <2>5. \A x \in {None, "saved", "true"} :
            x \notin Objects \cup {"false", "file exists", "url"}
      BY ValuesAssumption DEF Objects
    <2> QED BY <2>1, <2>2, <2>3, <2>4, <2>5, ValuesAssumption DEF IInv, AnswersWereTrue, Kind
  <1>15. OnlyLostAnswersMislead'
    <2> SUFFICES ASSUME NEW p \in Ops
                 PROVE  /\ answer'[p] = "saved" => p \in served'
                        /\ Kind(p) = "delete" /\ answer'[p] = "true" =>
                             provider.looks \/ p \in served'
                        /\ answer'[p] \in {"file exists", "false"} /\ p \in served' =>
                             p \in resent'
      BY DEF OnlyLostAnswersMislead, Kind
    <2>1. CASE p = o
      BY <1>2, <1>3, <2>1 DEF IInv, TypeOK
    <2>2. CASE p # o
      BY <1>2, <2>2 DEF IInv, TypeOK, OnlyLostAnswersMislead
    <2> QED BY <2>1, <2>2
  <1> QED BY <1>6, <1>7, <1>8, <1>10, <1>11, <1>12, <1>13, <1>14, <1>15 DEF IInv

(***************************************************************************)
(* Every step                                                              *)
(***************************************************************************)
LEMMA StepKeepsIInv == ASSUME IInv, NEW o \in Ops, Step(o) PROVE IInv'
  <1>1. CASE Call(o)
    BY <1>1, CallKeepsIInv
  <1>2. CASE HeadFinds(o) \/ HeadMisses(o) \/ CreateConflict(o) \/ HeadAgain(o)
    <2> DEFINE step == IF HeadMisses(o) THEN "create"
                       ELSE IF CreateConflict(o) /\ provider.rechecks THEN "head again" ELSE "put"
    <2>1. /\ pc[o] \in Ensuring /\ step \in {"create", "put", "head again"}
          /\ Goto(o, step) /\ UNCHANGED answer /\ Quiet
          /\ step # "create" => bucket # "absent"
      BY <1>2 DEF HeadFinds, HeadMisses, CreateConflict, HeadAgain, Ensuring
    <2>2. creates /\ Kind(o) \in Saves /\ o \notin served
      BY <2>1 DEF IInv, TypeOK, StepsFitKinds, ServedAreSent, Ensuring, Steps
    <2> HIDE DEF step
    <2> QED BY <2>1, <2>2, MoveKeepsIInv DEF Ensuring, Steps
  <1>3. CASE CreateBucket(o)
    <2>1. creates
      BY <1>3 DEF CreateBucket, IInv, TypeOK, Steps, Ensuring
    <2> QED BY <1>3, <2>1, BucketKeepsIInv DEF CreateBucket, Heard, Lost, Goto, IInv, TypeOK
  <1>4. CASE Put(o)
    BY <1>4, ServeKeepsIInv DEF Put, Objects
  <1>5. CASE PutRefused(o)
    <2>1. seen[o] # {None}
      BY <1>5 DEF PutRefused, IInv, SeenIsCurrent
    <2> QED BY <1>5, <2>1, ReturnKeepsIInv, ValuesAssumption DEF PutRefused, Quiet, Answers, Objects
  <1>6. CASE Look(o)
    <2>1. pc[o] = "look" /\ There(o) \in seen[o] /\ Quiet /\ Kind(o) \notin Saves /\ o \notin served
      BY <1>6 DEF Look, IInv, SeenIsCurrent, StepsFitKinds, ServedAreSent
    <2>2. CASE There(o) = None /\ Return(o, "false")
      BY <2>1, <2>2, ReturnKeepsIInv, ValuesAssumption DEF Quiet, Answers, Objects
    <2>3. CASE There(o) # None /\ Kind(o) = "delete" /\ Goto(o, "delete") /\ UNCHANGED answer
      BY <2>1, <2>3, MoveKeepsIInv DEF Steps, Ensuring
    <2>4. CASE There(o) # None /\ Kind(o) = "exists" /\ Return(o, "true")
      BY <2>1, <2>4, ReturnKeepsIInv, ValuesAssumption DEF Quiet, Answers, Objects
    <2>5. CASE There(o) # None /\ Kind(o) = "checked url" /\ Goto(o, "sign") /\ UNCHANGED answer
      BY <2>1, <2>5, MoveKeepsIInv DEF Steps, Ensuring, URLs
    <2>6. CASE There(o) # None /\ Kind(o) = "get" /\ Return(o, There(o))
      <3>1. There(o) \in Objects
        BY <2>6, Typing DEF IInv, TypeOK, There
      <3> QED BY <2>1, <2>6, <3>1, ReturnKeepsIInv, ValuesAssumption DEF Quiet, Answers, Objects
    <2> QED BY <1>6, <2>2, <2>3, <2>4, <2>5, <2>6 DEF Look
  <1>7. CASE DeleteObject(o)
    BY <1>7, ServeKeepsIInv DEF DeleteObject
  <1>8. CASE DeleteMisses(o)
    <2>1. There(o) \in seen[o] /\ (provider.looks => seen[o] # {None})
      BY <1>8 DEF DeleteMisses, IInv, SeenIsCurrent
    <2> QED BY <1>8, <2>1, ReturnKeepsIInv, ValuesAssumption
          DEF DeleteMisses, Quiet, Answers, Objects
  <1>9. CASE Sign(o)
    <2>1. /\ pc[o] = "sign" /\ provider.signs /\ Kind(o) \notin Saves
          /\ Kind(o) = "checked url" => seen[o] # {None}
      BY <1>9 DEF Sign, IInv, StepsFitKinds, SeenIsCurrent, URLs, Saves
    <2> QED BY <1>9, <2>1, ReturnKeepsIInv, ValuesAssumption DEF Sign, Quiet, Answers, Objects
  <1>10. CASE Denied(o)
    <2>1. Kind(o) \in Saves => o \notin served /\ (bucket = "theirs" \/ ~creates)
      BY <1>10 DEF Denied, IInv, TypeOK, StepsFitKinds, BucketEnsured, URLs, Saves
    <2> QED BY <1>10, <2>1, ReturnKeepsIInv, ValuesAssumption DEF Denied, Quiet, Answers, Objects
  <1>11. CASE GiveUp(o)
    BY <1>11, ReturnKeepsIInv, ValuesAssumption DEF GiveUp, Answers, Objects
  <1> QED BY <1>1, <1>2, <1>3, <1>4, <1>5, <1>6, <1>7, <1>8, <1>9, <1>10, <1>11 DEF Step

LEMMA Inductive == Spec => []IInv
  <1>1. ASSUME IInv, OthersCreate PROVE IInv'
    BY <1>1, BucketKeepsIInv DEF OthersCreate, IInv, TypeOK
  <1>2. ASSUME IInv, UNCHANGED vars PROVE IInv'
    BY <1>2, PutsStay DEF vars, setting, IInv, TypeOK, StepsFitKinds, BucketEnsured, ServedAreSent,
      SeenIsCurrent, SavedWerePut, SaveFailsForCause, AnswersWereTrue, OnlyLostAnswersMislead,
      There, Kind, Key
  <1>3. IInv /\ [Next]_vars => IInv'
    BY <1>1, <1>2, StepKeepsIInv DEF Next, Finished
  <1> QED BY InitIInv, <1>3, PTL DEF Spec

\* Every reachable state is well typed, and a backend that must not create its
\* bucket never asks for it.
THEOREM TypeCorrect == Spec => []TypeOK
  <1>1. IInv => TypeOK BY DEF IInv
  <1> QED BY Inductive, <1>1, PTL

\* Losing the race to create the bucket fails no Save.
THEOREM SavesFailForCause == Spec => []SaveFailsForCause
  <1>1. IInv => SaveFailsForCause BY DEF IInv
  <1> QED BY Inductive, <1>1, PTL

\* Of the Saves that must not overwrite, one wins until a Delete.
THEOREM OneExclusiveSaveWinsHolds == Spec => []OneExclusiveSaveWins
  <1>1. IInv => OneExclusiveSaveWins
    BY DEF IInv, OneExclusiveSaveWins, OneExclusiveSaveServed, SavedWerePut, Removed
  <1> QED BY Inductive, <1>1, PTL

\* An object that was put, whether its Save has heard of it or not, stays until another
\* operation that may replace or remove it has been served.
SavedStays ==
  \A o \in served : Kind(o) \in Saves =>
    \/ There(o) = o
    \/ \E p \in served \ {o} : Kind(p) \in {"overwrite", "delete"} /\ Key(p) = Key(o)

\* Only two requests change what is there.
LEMMA Changes ==
  ASSUME TypeOK, StepsFitKinds, [Next]_vars
  PROVE  /\ request' = request
         /\ \/ UNCHANGED <<objects, served>>
            \/ \E o \in Ops : /\ served' = served \cup {o}
                             /\ \/ /\ Kind(o) \in Saves
                                   /\ Kind(o) = "save" => There(o) = None
                                   /\ objects' = [objects EXCEPT ![Key(o)] = o]
                                \/ /\ Kind(o) = "delete"
                                   /\ objects' = [objects EXCEPT ![Key(o)] = None]
  <1>1. ASSUME NEW o \in Ops, Put(o)
        PROVE  /\ request' = request /\ served' = served \cup {o}
               /\ Kind(o) \in Saves /\ (Kind(o) = "save" => There(o) = None)
               /\ objects' = [objects EXCEPT ![Key(o)] = o]
    BY <1>1 DEF Put, Becomes, StepsFitKinds, setting
  <1>2. ASSUME NEW o \in Ops, DeleteObject(o)
        PROVE  /\ request' = request /\ served' = served \cup {o} /\ Kind(o) = "delete"
               /\ objects' = [objects EXCEPT ![Key(o)] = None]
    BY <1>2 DEF DeleteObject, Becomes, StepsFitKinds, setting
  <1>3. ASSUME NEW o \in Ops,
               \/ Call(o) \/ HeadFinds(o) \/ HeadMisses(o) \/ CreateBucket(o)
               \/ CreateConflict(o) \/ HeadAgain(o) \/ PutRefused(o) \/ Look(o)
               \/ DeleteMisses(o) \/ Sign(o) \/ Denied(o) \/ GiveUp(o)
        PROVE  UNCHANGED <<request, objects, served>>
    BY Zenon, <1>3 DEF Call, HeadFinds, HeadMisses, CreateBucket, CreateConflict, HeadAgain,
      PutRefused, Look, DeleteMisses, Sign, Denied, GiveUp, Quiet, setting
  <1> QED BY <1>1, <1>2, <1>3 DEF Next, Step, OthersCreate, Finished, vars, setting

\* No update is lost: what a Save has put is there, or was replaced or removed by an
\* operation that is allowed to, also when answers get lost and requests are sent again.
THEOREM SavedStaysHolds == Spec => []SavedStays
  <1>1. Init => SavedStays
    BY DEF Init, SavedStays
  <1>2. ASSUME IInv, SavedStays, [Next]_vars, NEW p \in served', Kind(p) \in Saves
        PROVE  \/ objects'[Key(p)] = p
               \/ \E q \in served' \ {p} : /\ Kind(q) \in {"overwrite", "delete"}
                                          /\ Key(q) = Key(p)
    <2>1. TypeOK /\ StepsFitKinds
      BY <1>2 DEF IInv
    <2>2. CASE UNCHANGED <<objects, served>>
      BY <1>2, <2>2 DEF SavedStays, There
    <2>3. ASSUME NEW o \in Ops, served' = served \cup {o},
                 objects' \in {[objects EXCEPT ![Key(o)] = o], [objects EXCEPT ![Key(o)] = None]},
                 objects' = [objects EXCEPT ![Key(o)] = o] /\ Kind(o) = "save" => There(o) = None,
                 \/ Kind(o) \in Saves /\ objects' = [objects EXCEPT ![Key(o)] = o]
                 \/ Kind(o) = "delete" /\ objects' = [objects EXCEPT ![Key(o)] = None]
          PROVE  \/ objects'[Key(p)] = p
                 \/ \E q \in served' \ {p} : /\ Kind(q) \in {"overwrite", "delete"}
                                            /\ Key(q) = Key(p)
      <3>1. Key(o) \in Keys /\ Key(p) \in Keys /\ p \in Ops /\ p # None
        BY <1>2, <2>1, <2>3, Typing, ValuesAssumption DEF TypeOK
      <3>2. CASE p = o
        BY <1>2, <2>1, <2>3, <3>1, <3>2 DEF TypeOK, Saves
      <3>3. CASE p # o /\ There(p) = p /\ Key(p) = Key(o)
        BY <2>3, <3>1, <3>3 DEF There, Saves
      <3>4. CASE p # o /\ There(p) = p /\ Key(p) # Key(o)
        BY <2>1, <2>3, <3>1, <3>4 DEF There, TypeOK
      <3>5. CASE p # o /\ There(p) # p
        BY <1>2, <2>3, <3>5 DEF SavedStays
      <3> QED BY <3>2, <3>3, <3>4, <3>5
    <2> QED BY <1>2, <2>1, <2>2, <2>3, Changes
  <1>3. IInv /\ SavedStays /\ [Next]_vars => SavedStays'
    <2> SUFFICES ASSUME IInv, SavedStays, [Next]_vars PROVE SavedStays'
      OBVIOUS
    <2>1. request' = request
      BY Changes DEF IInv
    <2> QED BY <1>2, <2>1 DEF SavedStays, There, Kind, Key
  <1> QED BY Inductive, <1>1, <1>3, PTL DEF Spec

\* Every answer was right at some instant of its call.
THEOREM AnswersWereTrueHolds == Spec => []AnswersWereTrue
  <1>1. IInv => AnswersWereTrue BY DEF IInv
  <1> QED BY Inductive, <1>1, PTL

\* What an operation claims to have done it has, unless it only looked; what it denies it
\* has not, unless an answer was lost.
THEOREM OnlyLostAnswersMisleadHolds == Spec => []OnlyLostAnswersMislead
  <1>1. IInv => OnlyLostAnswersMislead BY DEF IInv
  <1> QED BY Inductive, <1>1, PTL

-----------------------------------------------------------------------------
(* The promise.  What an operation has found while it looked is in its step.*)

PromiseVars == <<request, objects, answer, Found, resent>>

LEMMA FoundFollows ==
  ASSUME IInv, NEW o \in Ops, NEW goal, Goto(o, goal), UNCHANGED setting
  PROVE  /\ ~HasFound(o, goal) => Found' = Found \ {o}
         /\ HasFound(o, goal) => Found' = Found \cup {o}
         /\ o \in Found <=> HasFound(o, pc[o])
  <1>1. pc' = [pc EXCEPT ![o] = goal] /\ DOMAIN pc = Ops
    BY DEF Goto, IInv, TypeOK
  <1>2. \A p, step : HasFound(p, step)' <=> HasFound(p, step)
    BY DEF HasFound, Kind, setting
  <1>3. Found' = {p \in Ops : HasFound(p, pc'[p])}
    BY <1>2 DEF Found
  <1> QED BY <1>1, <1>3 DEF Found

\* An operation that goes on without having changed or found anything.
LEMMA MoveStutters ==
  ASSUME IInv, NEW o \in Ops, NEW goal, Goto(o, goal),
         ~HasFound(o, pc[o]), ~HasFound(o, goal),
         UNCHANGED <<objects, answer, resent, setting>>
  PROVE  UNCHANGED PromiseVars
  <1>1. Found' = Found
    BY FoundFollows
  <1> QED BY <1>1 DEF PromiseVars, setting

\* An operation that returns decides its answer.
LEMMA ReturnDecides ==
  ASSUME IInv, NEW o \in Ops, pc[o] # "done", NEW a, Return(o, a), UNCHANGED <<resent, setting>>
  PROVE  answer[o] = None /\ Promise!Decide(o, a)
  <1>1. ~HasFound(o, "done")
    BY DEF HasFound
  <1>2. Found' = Found \ {o}
    BY <1>1, FoundFollows DEF Return
  <1> QED BY <1>2 DEF Return, Promise!Decide, setting, IInv, StepsFitKinds

\* An operation whose answer is lost stays where it is.
LEMMA LostKeepsFound ==
  ASSUME NEW o \in Ops, Lost(o), UNCHANGED setting
  PROVE  /\ o \in Lossy \ resent /\ resent' = resent \cup {o}
         /\ Found' = Found /\ UNCHANGED <<request, answer>>
  BY DEF Lost, Found, HasFound, Kind, setting

\* The requests that change an object: their answer is heard, or it is lost.
LEMMA PutKeepsPromise ==
  ASSUME IInv, NEW o \in Ops, Put(o)
  PROVE  Promise!Publish(o) \/ Promise!Lose(o)
  <1>1. /\ answer[o] = None /\ Kind(o) \in Saves /\ pc[o] = "put"
        /\ Kind(o) = "save" => There(o) = None
        /\ objects' = [objects EXCEPT ![Key(o)] = o] /\ UNCHANGED setting
    BY DEF IInv, StepsFitKinds, Put, Becomes
  <1>2. Promise!Saves(o)
    BY <1>1 DEF Promise!Saves, Promise!Asks, Promise!Object, Promise!Put, Kind, Key, There, Saves
  <1>3. CASE Heard(o) /\ Return(o, "saved")
    BY <1>1, <1>2, <1>3, ReturnDecides DEF Heard, Promise!Publish
  <1>4. CASE Lost(o)
    BY <1>1, <1>2, <1>4, LostKeepsFound DEF Promise!Lose
  <1> QED BY <1>3, <1>4 DEF Put

LEMMA DeleteKeepsPromise ==
  ASSUME IInv, NEW o \in Ops, DeleteObject(o)
  PROVE  Promise!Remove(o) \/ Promise!Lose(o)
  <1>1. /\ answer[o] = None /\ Kind(o) = "delete" /\ pc[o] = "delete" /\ There(o) # None
        /\ objects' = [objects EXCEPT ![Key(o)] = None] /\ UNCHANGED setting
    BY DEF IInv, StepsFitKinds, DeleteObject, Becomes
  <1>2. Promise!Deletes(o)
    BY <1>1 DEF Promise!Deletes, Promise!Asks, Promise!Object, Promise!Put, Kind, Key, There
  <1>3. CASE Heard(o) /\ Return(o, "true")
    BY <1>1, <1>2, <1>3, ReturnDecides DEF Heard, Promise!Remove
  <1>4. CASE Lost(o)
    BY <1>1, <1>2, <1>4, LostKeepsFound DEF Promise!Lose
  <1> QED BY <1>3, <1>4 DEF DeleteObject

LEMMA CreateBucketKeepsPromise ==
  ASSUME IInv, NEW o \in Ops, CreateBucket(o)
  PROVE  Promise!Lose(o) \/ UNCHANGED PromiseVars
  <1>1. /\ answer[o] = None /\ Kind(o) \in Saves /\ pc[o] = "create"
        /\ UNCHANGED <<objects, setting>>
    BY DEF IInv, StepsFitKinds, CreateBucket, Ensuring
  <1>2. CASE Heard(o) /\ Goto(o, "put") /\ UNCHANGED answer
    BY <1>1, <1>2, MoveStutters DEF Heard, HasFound
  <1>3. CASE Lost(o)
    BY <1>1, <1>3, LostKeepsFound DEF Promise!Lose, Promise!Asks, Kind, Saves
  <1> QED BY <1>2, <1>3 DEF CreateBucket

\* The requests that look: only with what they find does an operation go on.
LEMMA LookKeepsPromise ==
  ASSUME IInv, NEW o \in Ops, Look(o)
  PROVE  \/ Promise!Miss(o) \/ Promise!Look(o) \/ Promise!Read(o)
         \/ UNCHANGED PromiseVars
  <1>1. /\ answer[o] = None /\ pc[o] = "look" /\ UNCHANGED <<objects, resent, setting>>
        /\ Kind(o) \in {"delete", "exists", "get", "checked url"}
    BY Typing DEF IInv, StepsFitKinds, Look, Quiet, Kinds, Saves
  <1>2. o \notin Found
    BY <1>1 DEF Found, HasFound
  <1>3. CASE There(o) = None /\ Return(o, "false")
    BY <1>1, <1>2, <1>3, ReturnDecides
    DEF Promise!Miss, Promise!Asks, Promise!Object, Kind, Key, There
  <1>4. CASE There(o) # None /\ Kind(o) \in {"exists", "get"}
             /\ Return(o, IF Kind(o) = "get" THEN There(o) ELSE "true")
    BY <1>1, <1>4, ReturnDecides
    DEF Promise!Read, Promise!Asks, Promise!Object, Kind, Key, There
  <1>5. ASSUME There(o) # None, UNCHANGED answer, NEW goal, Goto(o, goal),
               Kind(o) \in {"delete", "checked url"}
        PROVE  Promise!Look(o) \/ UNCHANGED PromiseVars
    <2>1. CASE HasFound(o, goal)
      BY <1>1, <1>5, <2>1, FoundFollows
      DEF Promise!Look, Promise!Asks, Promise!Object, Kind, Key, There, setting
    <2>2. CASE ~HasFound(o, goal)
      <3>1. ~HasFound(o, pc[o])
        BY <1>1 DEF HasFound
      <3> QED BY <1>1, <1>5, <2>2, <3>1, MoveStutters
    <2> QED BY <2>1, <2>2
  <1> QED BY <1>3, <1>4, <1>5 DEF Look

LEMMA StepKeepsPromise ==
  ASSUME IInv, NEW o \in Ops, Step(o)
  PROVE  [Promise!Next]_PromiseVars
  <1> DEFINE Goal == Promise!Next \/ UNCHANGED PromiseVars
  <1> SUFFICES Goal
    OBVIOUS
  <1>1. CASE Call(o)
    <2>1. /\ pc[o] = "idle" /\ Goto(o, FirstStep(Kind(o)))
          /\ UNCHANGED <<objects, answer, resent, setting>>
      BY <1>1 DEF Call
    <2>2. ~HasFound(o, pc[o]) /\ ~HasFound(o, FirstStep(Kind(o)))
      BY <2>1 DEF HasFound, FirstStep, Saves, URLs
    <2> QED BY <2>1, <2>2, MoveStutters
  <1>2. CASE HeadFinds(o) \/ HeadMisses(o) \/ CreateConflict(o) \/ HeadAgain(o)
    <2>1. PICK goal \in {"put", "create", "head again"} : Goto(o, goal)
      BY <1>2 DEF HeadFinds, HeadMisses, CreateConflict, HeadAgain
    <2>2. /\ pc[o] \in {"head", "create", "head again"}
          /\ UNCHANGED <<objects, answer, resent, setting>>
      BY <1>2 DEF HeadFinds, HeadMisses, CreateConflict, HeadAgain, Quiet
    <2>3. ~HasFound(o, pc[o]) /\ ~HasFound(o, goal)
      BY <2>1, <2>2 DEF HasFound
    <2> QED BY <2>1, <2>2, <2>3, MoveStutters
  <1>3. CASE CreateBucket(o)
    BY <1>3, CreateBucketKeepsPromise DEF Promise!Next
  <1>4. CASE Put(o)
    BY <1>4, PutKeepsPromise DEF Promise!Next
  <1>5. CASE PutRefused(o)
    <2>1. Promise!Refuse(o)
      BY <1>5, ReturnDecides
      DEF PutRefused, Quiet, Promise!Refuse, Promise!Asks, Promise!Object, Kind, Key, There
    <2> QED BY <2>1 DEF Promise!Next
  <1>6. CASE Look(o)
    BY <1>6, LookKeepsPromise DEF Promise!Next
  <1>7. CASE DeleteObject(o)
    BY <1>7, DeleteKeepsPromise DEF Promise!Next
  <1>8. CASE DeleteMisses(o)
    <2>1. /\ pc[o] = "delete" /\ Kind(o) = "delete" /\ There(o) = None
          /\ UNCHANGED <<objects, resent, setting>>
      BY <1>8 DEF DeleteMisses, Quiet, IInv, StepsFitKinds
    <2>2. CASE provider.looks
      <3>1. Promise!Decide(o, "true") /\ answer[o] = None /\ o \in Found
        BY <1>8, <2>1, <2>2, ReturnDecides DEF DeleteMisses, Found, HasFound
      <3>2. Promise!Gone(o)
        BY <2>1, <3>1 DEF Promise!Gone, Promise!Asks, Promise!Object, Kind, Key, There
      <3> QED BY <3>2 DEF Promise!Next
    <2>3. CASE ~provider.looks
      <3>1. Promise!Decide(o, "false") /\ answer[o] = None /\ o \notin Found
        BY <1>8, <2>1, <2>3, ReturnDecides DEF DeleteMisses, Found, HasFound
      <3>2. Promise!Miss(o)
        BY <2>1, <3>1 DEF Promise!Miss, Promise!Asks, Promise!Object, Kind, Key, There
      <3> QED BY <3>2 DEF Promise!Next
    <2> QED BY <2>2, <2>3
  <1>9. CASE Sign(o)
    <2>1. /\ pc[o] = "sign" /\ Kind(o) \in URLs /\ UNCHANGED <<objects, resent, setting>>
          /\ Kind(o) = "checked url" => o \in Found
      BY <1>9 DEF Sign, Quiet, IInv, StepsFitKinds, Found, HasFound
    <2>2. Promise!Decide(o, "url") /\ answer[o] = None
      BY <1>9, <2>1, ReturnDecides DEF Sign
    <2>3. Promise!Sign(o)
      BY <2>1, <2>2 DEF Promise!Sign, Promise!Asks, Kind, URLs
    <2> QED BY <2>3 DEF Promise!Next
  <1>10. CASE Denied(o) \/ GiveUp(o)
    <2>1. pc[o] # "done" /\ Return(o, "error") /\ UNCHANGED <<objects, resent, setting>>
      BY <1>10 DEF Denied, GiveUp, Quiet
    <2>2. Promise!Fail(o)
      BY <2>1, ReturnDecides DEF Promise!Fail
    <2> QED BY <2>2 DEF Promise!Next
  <1> QED BY <1>1, <1>2, <1>3, <1>4, <1>5, <1>6, <1>7, <1>8, <1>9, <1>10 DEF Step

LEMMA InitKeepsPromise == Init => Promise!Init
  <1> SUFFICES ASSUME Init PROVE Promise!Init
    OBVIOUS
  <1>1. Found = {}
    BY DEF Init, Found, HasFound
  <1>2. request \in [Ops -> [kind : Promise!Kinds, key : Keys]]
    BY RequestsAssumption DEF Init, Promise!Kinds
  <1>3. objects \in [Keys -> {Old, None}]
    BY DEF Init
  <1> QED BY <1>1, <1>2, <1>3 DEF Init, Promise!Init

LEMMA NextKeepsPromise == IInv /\ [Next]_vars => [Promise!Next]_PromiseVars
  <1>1. ASSUME IInv, OthersCreate \/ UNCHANGED vars PROVE UNCHANGED PromiseVars
    BY <1>1 DEF OthersCreate, vars, setting, PromiseVars, Found, HasFound, Kind
  <1> QED BY <1>1, StepKeepsPromise DEF Next, Finished

\* Every cloud backend keeps the promise of RemoteStore.
THEOREM BucketStoreKeepsPromise == Spec => ImplementsRemoteStore
  <1>1. IInv /\ [Next]_vars => [Promise!Next]_Promise!vars
    BY NextKeepsPromise DEF Promise!vars, PromiseVars
  <1> QED BY <1>1, InitKeepsPromise, Inductive, PTL DEF Spec, ImplementsRemoteStore, Promise!Spec

-----------------------------------------------------------------------------
(* The full promise of ObjectStore, by a store that forgets nothing.       *)

FullPromise == INSTANCE ObjectStore WITH Prefixes <- {}, durable <- objects

\* No operation looks for an object before the request that matters, as with a Delete
\* of Azure and OBS, and nobody asks for a URL.
NobodyLooks ==
  \A o \in Ops : Kind(o) \notin URLs /\ (Kind(o) = "delete" => ~provider.looks)

\* Then nothing is found, and each step of RemoteStore is one of ObjectStore.
LEMMA StepKeepsFullPromise ==
  ASSUME NobodyLooks, [Promise!Next]_PromiseVars,
         Found = {}, Found' = {}, resent = {}, resent' = {}
  PROVE  [FullPromise!Next]_<<request, objects, objects, answer>>
  <1>1. ASSUME NEW o \in Ops, Promise!Publish(o) PROVE FullPromise!Publish(o)
    BY <1>1 DEF Promise!Publish, Promise!Saves, Promise!Asks, Promise!Decide, Promise!Object,
      Promise!Put, FullPromise!Publish, FullPromise!Asks, FullPromise!Decide,
      FullPromise!Object, FullPromise!Put
  <1>2. ASSUME NEW o \in Ops, Promise!Remove(o) PROVE FullPromise!Remove(o)
    BY <1>2 DEF Promise!Remove, Promise!Deletes, Promise!Asks, Promise!Decide, Promise!Object,
      Promise!Put, FullPromise!Remove, FullPromise!Asks, FullPromise!Decide,
      FullPromise!Object, FullPromise!Put
  <1>3. ASSUME NEW o \in Ops, Promise!Refuse(o) PROVE FullPromise!Refuse(o)
    BY <1>3 DEF Promise!Refuse, Promise!Asks, Promise!Decide, Promise!Object,
      FullPromise!Refuse, FullPromise!Asks, FullPromise!Decide, FullPromise!Object
  <1>4. ASSUME NEW o \in Ops, Promise!Read(o) PROVE FullPromise!Read(o)
    BY <1>4 DEF Promise!Read, Promise!Asks, Promise!Decide, Promise!Object,
      FullPromise!Read, FullPromise!Asks, FullPromise!Decide, FullPromise!Object
  <1>5. ASSUME NEW o \in Ops, Promise!Miss(o) PROVE FullPromise!Miss(o)
    <2>1. request[o].kind # "checked url"
      BY DEF NobodyLooks, Kind, URLs
    <2> QED BY <1>5, <2>1 DEF Promise!Miss, Promise!Asks, Promise!Decide, Promise!Object,
          FullPromise!Miss, FullPromise!Asks, FullPromise!Decide, FullPromise!Object
  <1>6. ASSUME NEW o \in Ops, Promise!Fail(o) PROVE FullPromise!Fail(o)
    BY <1>6 DEF Promise!Fail, Promise!Decide, FullPromise!Fail, FullPromise!Decide
  <1>7. ASSUME NEW o \in Ops, Promise!Lose(o) \/ Promise!Look(o) \/ Promise!Gone(o) PROVE FALSE
    BY <1>7 DEF Promise!Lose, Promise!Look, Promise!Gone
  <1>8. ASSUME NEW o \in Ops, Promise!Sign(o) PROVE FALSE
    BY <1>8 DEF Promise!Sign, Promise!Asks, NobodyLooks, Kind, URLs
  <1>9. CASE UNCHANGED PromiseVars
    BY <1>9 DEF PromiseVars
  <1> QED BY <1>1, <1>2, <1>3, <1>4, <1>5, <1>6, <1>7, <1>8, <1>9
          DEF Promise!Next, FullPromise!Next, FullPromise!Step, FullPromise!Operation

LEMMA NobodyFinds == IInv /\ NobodyLooks => Found = {}
  BY DEF IInv, StepsFitKinds, NobodyLooks, Found, HasFound, URLs

\* If no answer is lost and no operation looks first, a cloud backend keeps the full
\* promise: each operation takes effect and decides its answer at one instant.
THEOREM BlindBackendsAreAtomic ==
  ASSUME Lossy = {} PROVE NobodyLooks /\ Spec => FullPromise!Spec
  <1>1. [Next]_vars => UNCHANGED setting
    BY Zenon DEF Next, Step, Call, HeadFinds, HeadMisses, CreateBucket, CreateConflict, HeadAgain, Put,
      PutRefused, Look, DeleteObject, DeleteMisses, Sign, Denied, GiveUp, OthersCreate,
      Finished, Quiet, vars, setting
  <1>2. NobodyLooks /\ [Next]_vars => NobodyLooks'
    BY <1>1 DEF NobodyLooks, Kind, setting
  <1>3. IInv => resent = {}
    BY DEF IInv, TypeOK
  <1>4. IInv /\ NobodyLooks /\ [Next]_vars /\ IInv' => [FullPromise!Next]_FullPromise!vars
    <2> SUFFICES ASSUME IInv, NobodyLooks, [Next]_vars, IInv'
                 PROVE  [FullPromise!Next]_FullPromise!vars
      OBVIOUS
    <2>1. Found = {} /\ resent = {}
      BY <1>3, NobodyFinds
    <2>2. Found' = {} /\ resent' = {}
      BY <1>2 DEF IInv, TypeOK, StepsFitKinds, NobodyLooks, Found, HasFound, URLs
    <2>3. [Promise!Next]_PromiseVars
      BY NextKeepsPromise
    <2> QED BY <2>1, <2>2, <2>3, StepKeepsFullPromise DEF FullPromise!vars
  <1>5. NobodyLooks /\ Init => FullPromise!Init
    <2> SUFFICES ASSUME NobodyLooks, Init PROVE FullPromise!Init
      OBVIOUS
    <2>1. request \in [Ops -> [kind : FullPromise!Kinds, key : Keys]]
      BY RequestsAssumption DEF Init, NobodyLooks, Kind, URLs, FullPromise!Kinds
    <2>2. objects \in [Keys -> {Old, None}]
      BY DEF Init
    <2> QED BY <2>1, <2>2 DEF Init, FullPromise!Init
  <1> QED BY <1>2, <1>4, <1>5, Inductive, PTL DEF Spec, FullPromise!Spec
================================================================================
