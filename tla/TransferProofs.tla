---------------------------- MODULE TransferProofs ----------------------------
(***************************************************************************)
(* The safety properties of Transfer, for any number of transfers and any  *)
(* lengths: an inductive invariant that relates the reader's position, the *)
(* temporary file and the announced length to the step a transfer is at.   *)
(***************************************************************************)
EXTENDS Transfer, TLAPS

\* An upload's reader stands where it stood whenever the body itself is about to be
\* read; while there is a copy, behind what has been copied.
UploadPhase(u) ==
  /\ pc[u] \in {"idle", "end", "reset", "temp", "copy", "send", "resend", "cleanup", "done",
                "crashed"}
  /\ pc[u] \in {"idle", "temp"} => pos[u] = Start(u)
  /\ pc[u] = "send" /\ u \notin temps => pos[u] = Start(u)
  /\ pc[u] \in {"idle", "end", "reset", "temp", "copy"} =>
       file[u].size = IF pc[u] = "copy" THEN pos[u] - Start(u) ELSE 0
  /\ pc[u] = "copy" => /\ u \in temps
                       /\ u \notin changed => pos[u] <= Larger(Start(u), size[u])
  /\ pc[u] \in {"send", "resend"} /\ u \in temps =>
       /\ file[u].size = pos[u] - Start(u) /\ length[u] = file[u].size
       /\ u \notin changed => pos[u] = Larger(Start(u), size[u])
  /\ pc[u] \in {"send", "resend"} => length[u] # None

\* A download that has copied all has a whole file.
DownloadPhase(d) ==
  /\ pc[d] \in {"idle", "temp", "copy", "sync", "rename", "cleanup", "done", "crashed"}
  /\ pc[d] \in {"idle", "temp"} => pos[d] = 0
  /\ pc[d] \in {"idle", "temp", "copy"} => file[d].size = pos[d] /\ pos[d] <= size[d]
  /\ pc[d] \in {"sync", "rename"} => file[d].size = size[d]
  /\ pc[d] = "rename" => file[d].synced

\* An object that is stored is what StoredIsTheRest says, and is so only once it is sent.
StoredPhase(u) ==
  stored[u] # None =>
    /\ pc[u] \in {"send", "resend", "cleanup", "done", "crashed"}
    /\ stored[u].from = Start(u)
    /\ length[u] >= 0 => stored[u].to = stored[u].from + length[u]
    /\ u \notin changed => stored[u].to = Larger(Start(u), size[u])

\* Temporary files, now and after a power loss.
TempPhase(t) ==
  /\ t \in temps \cup disk.temps => pc[t] \notin {"idle", "end", "reset", "temp"}
  /\ t \in temps /\ pc[t] = "done" => losses > 0
  /\ pc[t] = "idle" => answer[t] = None

Own(t) == /\ t \in Uploads => UploadPhase(t) /\ StoredPhase(t)
          /\ t \in Downloads => DownloadPhase(t)
          /\ TempPhase(t)

\* What is named is whole, and stays so.
Ended == {"cleanup", "done", "crashed"}
Whole(d) == file[d].size = size[d] /\ file[d].synced
Published(names) == \A n \in Destinations :
                      names[n] \in Downloads => Whole(names[n]) /\ pc[names[n]] \in Ended

IInv == /\ TypeOK
        /\ \A t \in Transfers : Own(t)
        /\ Published(dest) /\ Published(disk.dest)

LEMMA Numbers ==
  /\ MaxSize \in Nat /\ MaxLosses \in Nat
  /\ \A m, n \in Sizes : /\ Larger(m, n) \in Sizes /\ m \in Int /\ n \in Int
                         /\ Larger(m, n) >= m /\ Larger(m, n) >= n
                         /\ m - n \in -MaxSize-1..MaxSize
                         /\ Larger(0, m - n) \in 0..MaxSize
                         /\ Larger(m, n) = m + Larger(0, n - m)
  /\ Unknown \in -MaxSize-1..MaxSize /\ Unknown < 0
  /\ 0 \in Sizes
  BY BoundsAssumption DEF Sizes, Larger, Unknown

LEMMA InitIInv == Init => IInv
  <1> SUFFICES ASSUME Init PROVE IInv
    OBVIOUS
  <1>1. PICK c \in Calls :
          /\ input = c.input /\ size = c.size
          /\ pc = [t \in Transfers |-> IF t \in c.called THEN "idle" ELSE "done"]
    BY DEF Init
  <1>2. /\ input \in [Uploads -> Input] /\ size \in [Transfers -> Sizes]
    BY <1>1, CallsAssumption
  <1>3. \A u \in Uploads : Start(u) \in Sizes
    BY <1>2 DEF Start, Input
  <1>4. pos \in [Transfers -> Sizes] /\ \A u \in Uploads : pos[u] = Start(u)
    BY <1>3, Numbers DEF Init, Start, Transfers
  <1>5. TypeOK
    <2>1. \A t \in Transfers : pc[t] \in {"idle", "done"} /\ answer[t] = None
      BY <1>1 DEF Init
    <2>2. \A t \in Transfers : ~Active(t)
      BY <2>1 DEF Active
    <2>3. disk \in [temps : SUBSET Transfers,
                    dest : [Destinations -> Downloads \cup {Old, None}]]
      BY DEF Init
    <2>4. file \in [Transfers -> [size : Sizes, synced : BOOLEAN]]
      BY Numbers DEF Init
    <2>5. pc \in [Transfers -> Steps]
      BY <1>1 DEF Steps
    <2>6. losses \in 0..MaxLosses
      BY Numbers DEF Init
    <2>7. \A u \in Uploads : pc[u] \notin {"send", "resend"}
      BY <2>1 DEF Transfers
    <2> QED BY <1>2, <1>4, <2>2, <2>3, <2>4, <2>5, <2>6, <2>7 DEF Init, TypeOK
  <1>6. \A u \in Uploads : UploadPhase(u)
    BY <1>1, <1>3, <1>4 DEF Init, UploadPhase, Transfers
  <1>7. \A d \in Downloads : DownloadPhase(d)
    <2>1. \A d \in Downloads : pos[d] = 0 /\ d \in Transfers
      BY TransfersAssumption DEF Init, Transfers
    <2>2. \A d \in Downloads : size[d] >= 0
      BY <1>2, <2>1, Numbers DEF Sizes
    <2> QED BY <1>1, <2>1, <2>2 DEF Init, DownloadPhase
  <1>8. \A t \in Transfers : TempPhase(t)
    BY DEF Init, TempPhase
  <1>9. Published(dest) /\ Published(disk.dest)
    BY ValuesAssumption DEF Init, Published
  <1>10. \A u \in Uploads : StoredPhase(u)
    BY DEF Init, StoredPhase
  <1> QED BY <1>5, <1>6, <1>7, <1>8, <1>9, <1>10 DEF IInv, Own

(***************************************************************************)
(* A step of one transfer                                                  *)
(***************************************************************************)
\* It leaves the others alone ...
Alone(t) ==
  /\ UNCHANGED <<input, to, disk, losses>>
  /\ \A s \in Transfers \ {t} :
       /\ pc'[s] = pc[s] /\ pos'[s] = pos[s] /\ file'[s] = file[s] /\ size'[s] = size[s]
       /\ answer'[s] = answer[s]
       /\ s \in temps' <=> s \in temps
       /\ s \in changed' <=> s \in changed
       /\ s \in Uploads => length'[s] = length[s] /\ stored'[s] = stored[s]

\* ... and, once it has ended, what it has published.
Settled(t) == t \in Downloads /\ pc[t] \in Ended =>
                pc'[t] \in Ended /\ file'[t] = file[t] /\ size'[t] = size[t]

LEMMA OthersKeep ==
  ASSUME IInv, NEW t \in Transfers, Alone(t), NEW s \in Transfers \ {t}
  PROVE  Own(s)'
  <1>1. Own(s)
    BY DEF IInv
  <1>2. s \in Uploads => Start(s)' = Start(s)
    BY DEF Alone, Start
  <1>3. s \in Uploads => UploadPhase(s)' /\ StoredPhase(s)'
    BY <1>1, <1>2 DEF Own, Alone, UploadPhase, StoredPhase
  <1>4. s \in Downloads => DownloadPhase(s)'
    BY <1>1 DEF Own, Alone, DownloadPhase
  <1>5. TempPhase(s)'
    BY <1>1 DEF Own, Alone, TempPhase
  <1> QED BY <1>3, <1>4, <1>5 DEF Own

LEMMA PublishedKeeps ==
  ASSUME IInv, NEW t \in Transfers, Alone(t), Settled(t),
         NEW d \in Downloads, Whole(d), pc[d] \in Ended
  PROVE  Whole(d)' /\ pc'[d] \in Ended
  BY DEF Alone, Settled, Whole, Transfers

LEMMA Frame ==
  ASSUME IInv, NEW t \in Transfers, Alone(t), Settled(t), TypeOK', Own(t)', dest' = dest
  PROVE  IInv'
  <1>1. \A s \in Transfers : Own(s)'
    BY OthersKeep
  <1>2. Published(dest)' /\ Published(disk.dest)'
    <2>1. Published(dest) /\ Published(disk.dest) /\ disk' = disk
      BY DEF IInv, Alone
    <2> QED BY <2>1, PublishedKeeps DEF Published
  <1> QED BY <1>1, <1>2 DEF IInv

\* The types of what is the transfer's own.
Typed(t) ==
  /\ size[t] \in Sizes /\ pos[t] \in Sizes /\ file[t] \in [size : Sizes, synced : BOOLEAN]
  /\ pc[t] \in Steps /\ answer[t] \in {"saved", "true", "false", "copied", "error", None}
  /\ Active(t) => (Undecided(t) <=> answer[t] = None)
  /\ t \in Uploads =>
       /\ length[t] \in -MaxSize-1..MaxSize \cup {None}
       /\ pc[t] \in {"send", "resend"} => length[t] # None
       /\ stored[t] \in [from : Sizes, to : Sizes] \cup {None}

\* What a step of t changes of the functions, and of the sets.
Shape(t) ==
  /\ pc' = [pc EXCEPT ![t] = pc'[t]] /\ pos' = [pos EXCEPT ![t] = pos'[t]]
  /\ file' = [file EXCEPT ![t] = file'[t]] /\ size' = [size EXCEPT ![t] = size'[t]]
  /\ answer' = [answer EXCEPT ![t] = answer'[t]]
  /\ IF t \in Uploads
       THEN /\ length' = [length EXCEPT ![t] = length'[t]]
            /\ stored' = [stored EXCEPT ![t] = stored'[t]]
       ELSE UNCHANGED <<length, stored>>
  /\ temps' \in {temps, temps \cup {t}, temps \ {t}}
  /\ cancelled' \subseteq Uploads /\ changed' \subseteq Uploads /\ resent' \subseteq Uploads
  /\ \A s \in Transfers \ {t} : s \in changed' <=> s \in changed
  /\ UNCHANGED <<input, to, disk, losses>>

LEMMA ShapeIsAlone ==
  ASSUME IInv, NEW t \in Transfers, Shape(t)
  PROVE  Alone(t)
  <1>1. \A s \in Transfers \ {t} :
          /\ pc'[s] = pc[s] /\ pos'[s] = pos[s] /\ file'[s] = file[s] /\ size'[s] = size[s]
          /\ answer'[s] = answer[s]
    BY DEF Shape, IInv, TypeOK
  <1>2. \A s \in Transfers \ {t} :
          s \in Uploads => length'[s] = length[s] /\ stored'[s] = stored[s]
    BY DEF Shape, IInv, TypeOK
  <1>3. \A s \in Transfers \ {t} : s \in temps' <=> s \in temps
    BY DEF Shape
  <1> QED BY <1>1, <1>2, <1>3 DEF Shape, Alone

LEMMA TypesFollow ==
  ASSUME IInv, NEW t \in Transfers, Shape(t), Typed(t)',
         dest' \in [Destinations -> Downloads \cup {Old, None}]
  PROVE  TypeOK'
  <1>1. Alone(t)
    BY ShapeIsAlone
  <1>2. /\ pc' \in [Transfers -> Steps] /\ pos' \in [Transfers -> Sizes]
        /\ size' \in [Transfers -> Sizes]
        /\ file' \in [Transfers -> [size : Sizes, synced : BOOLEAN]]
        /\ answer' \in [Transfers -> {"saved", "true", "false", "copied", "error", None}]
    BY DEF Shape, Typed, IInv, TypeOK
  <1>3. length' \in [Uploads -> -MaxSize-1..MaxSize \cup {None}]
    BY DEF Shape, Typed, IInv, TypeOK
  <1>7. stored' \in [Uploads -> [from : Sizes, to : Sizes] \cup {None}]
    BY DEF Shape, Typed, IInv, TypeOK
  <1>4. \A s \in Transfers : Active(s)' => (Undecided(s)' <=> answer'[s] = None)
    BY <1>1 DEF Alone, Typed, IInv, TypeOK, Active, Undecided
  <1>5. \A u \in Uploads : pc'[u] \in {"send", "resend"} => length'[u] # None
    BY <1>1 DEF Alone, Typed, IInv, TypeOK, Transfers
  <1>6. /\ UNCHANGED <<input, to, disk, losses>> /\ temps' \in SUBSET Transfers
        /\ cancelled' \in SUBSET Uploads /\ changed' \in SUBSET Uploads
        /\ resent' \in SUBSET Uploads
    BY DEF Shape, IInv, TypeOK
  <1> QED BY <1>2, <1>3, <1>4, <1>5, <1>6, <1>7 DEF IInv, TypeOK

LEMMA UploadIs ==
  ASSUME IInv, NEW u \in Uploads
  PROVE  /\ u \in Transfers /\ u \notin Downloads
         /\ UploadPhase(u) /\ StoredPhase(u) /\ TempPhase(u) /\ Typed(u)
         /\ Start(u) \in Sizes
         /\ DOMAIN pc = Transfers /\ DOMAIN pos = Transfers /\ DOMAIN size = Transfers
         /\ DOMAIN file = Transfers /\ DOMAIN answer = Transfers
         /\ DOMAIN length = Uploads /\ DOMAIN stored = Uploads
         /\ pc[u] \in {"send", "resend"} => length[u] \in -MaxSize-1..MaxSize
  <1>1. u \in Transfers /\ u \notin Downloads /\ Own(u)
    BY TransfersAssumption DEF Transfers, IInv
  <1> QED BY <1>1 DEF Own, IInv, TypeOK, Typed, Start, Input

LEMMA DownloadIs ==
  ASSUME IInv, NEW d \in Downloads
  PROVE  /\ d \in Transfers /\ d \notin Uploads
         /\ DownloadPhase(d) /\ TempPhase(d) /\ Typed(d)
         /\ to[d] \in Destinations
         /\ DOMAIN pc = Transfers /\ DOMAIN pos = Transfers /\ DOMAIN size = Transfers
         /\ DOMAIN file = Transfers /\ DOMAIN answer = Transfers
         /\ DOMAIN length = Uploads /\ DOMAIN stored = Uploads
  <1>1. d \in Transfers /\ d \notin Uploads /\ Own(d)
    BY TransfersAssumption DEF Transfers, IInv
  <1> QED BY <1>1 DEF Own, IInv, TypeOK, Typed

\* What a step has to show: what becomes of the transfer's own state.
LEMMA Step ==
  ASSUME IInv, NEW t \in Transfers, Shape(t), Settled(t), Typed(t)', Own(t)', dest' = dest
  PROVE  IInv'
  <1>1. dest' \in [Destinations -> Downloads \cup {Old, None}]
    BY DEF IInv, TypeOK
  <1> QED BY <1>1, ShapeIsAlone, TypesFollow, Frame

LEMMA MeasureStep ==
  ASSUME IInv, NEW u \in Uploads, Measure(u)
  PROVE  IInv'
  <1>1. /\ pc[u] = "idle"
        /\ pos'[u] = pos[u] /\ file'[u] = file[u] /\ size'[u] = size[u]
        /\ answer'[u] = answer[u] /\ stored'[u] = stored[u] /\ temps' = temps
        /\ changed' = changed
        /\ \/ pc'[u] = "send" /\ length'[u] \in -MaxSize-1..MaxSize
           \/ pc'[u] \in {"end", "temp"} /\ length'[u] = length[u]
    BY UploadIs, Numbers DEF Measure, Typed, Goto, Learns, world, Unmeasured
  <1>2. Shape(u) /\ Settled(u) /\ dest' = dest
    BY UploadIs DEF IInv, TypeOK, Measure, Shape, Settled, Ended, Goto, Learns, world,
       Unmeasured
  <1>3. Typed(u)'
    BY UploadIs, <1>1, Numbers, ValuesAssumption DEF Typed, Steps, Active, Undecided, TempPhase,
       UploadPhase
  <1>4. Own(u)'
    <2>1. Start(u)' = Start(u) /\ disk' = disk /\ losses' = losses
      BY <1>2 DEF Shape, Start
    <2> QED BY UploadIs, <1>1, <2>1, Numbers, ValuesAssumption DEF Own, Typed, UploadPhase,
           StoredPhase, TempPhase, Sizes, Larger
  <1> QED BY UploadIs, <1>2, <1>3, <1>4, Step

LEMMA SeekEndStep ==
  ASSUME IInv, NEW u \in Uploads, SeekEnd(u)
  PROVE  IInv'
  <1>1. /\ pc[u] = "end"
        /\ pc'[u] = "reset"
        /\ file'[u] = file[u] /\ size'[u] = size[u] /\ answer'[u] = answer[u]
        /\ stored'[u] = stored[u] /\ temps' = temps /\ changed' = changed
        /\ pos'[u] \in {pos[u], size[u]}
        /\ length'[u] \in -MaxSize-1..MaxSize \/ length'[u] = length[u]
    BY UploadIs, Numbers DEF SeekEnd, Typed, Goto, Moves, Learns, world
  <1>2. Shape(u) /\ Settled(u) /\ dest' = dest
    BY UploadIs DEF IInv, TypeOK, SeekEnd, Shape, Settled, Ended, Goto, Moves, Learns, world
  <1>3. Typed(u)'
    BY UploadIs, <1>1, Numbers, ValuesAssumption DEF Typed, Steps, Active, Undecided, TempPhase,
       UploadPhase
  <1>4. Own(u)'
    <2>1. Start(u)' = Start(u) /\ disk' = disk /\ losses' = losses
      BY <1>2 DEF Shape, Start
    <2> QED BY UploadIs, <1>1, <2>1, Numbers, ValuesAssumption DEF Own, Typed, UploadPhase,
           StoredPhase, TempPhase, Sizes, Larger
  <1> QED BY UploadIs, <1>2, <1>3, <1>4, Step

LEMMA SeekBackStep ==
  ASSUME IInv, NEW u \in Uploads, SeekBack(u)
  PROVE  IInv'
  <1>1. /\ pc[u] = "reset"
        /\ pos'[u] = Start(u)
        /\ file'[u] = file[u] /\ size'[u] = size[u] /\ answer'[u] = answer[u]
        /\ stored'[u] = stored[u] /\ temps' = temps /\ changed' = changed
        /\ \/ pc'[u] = "send" /\ length'[u] \in -MaxSize-1..MaxSize
           \/ pc'[u] = "temp" /\ length'[u] = length[u]
    BY UploadIs, Numbers DEF SeekBack, Typed, Goto, Moves, Learns, world, Unmeasured
  <1>2. /\ length' = [length EXCEPT ![u] = length'[u]]
        /\ pc' = [pc EXCEPT ![u] = pc'[u]]
    BY UploadIs DEF IInv, TypeOK, SeekBack, Goto, Moves, Learns, Unmeasured
  <1>3. Shape(u) /\ Settled(u) /\ dest' = dest
    BY UploadIs, <1>2 DEF IInv, TypeOK, SeekBack, Shape, Settled, Ended, Goto, Moves, Learns,
       world, Unmeasured
  <1>4. Typed(u)'
    BY UploadIs, <1>1, Numbers, ValuesAssumption DEF Typed, Steps, Active, Undecided, TempPhase,
       UploadPhase
  <1>5. Own(u)'
    <2>1. Start(u)' = Start(u) /\ disk' = disk /\ losses' = losses
      BY <1>3 DEF Shape, Start
    <2> QED BY UploadIs, <1>1, <2>1, Numbers, ValuesAssumption DEF Own, Typed, UploadPhase,
           StoredPhase, TempPhase, Sizes, Larger
  <1> QED BY UploadIs, <1>3, <1>4, <1>5, Step

LEMMA PutStep ==
  ASSUME IInv, NEW u \in Uploads, Put(u)
  PROVE  IInv'
  <1>1. /\ pc[u] = "send"
        /\ Fits(u)
        /\ stored'[u] = Rest(u)
        /\ pos'[u] = IF u \in temps THEN pos[u] ELSE Rest(u).to
        /\ file'[u] = file[u] /\ size'[u] = size[u] /\ length'[u] = length[u]
        /\ temps' = temps /\ changed' = changed
        /\ \/ pc'[u] = "resend" /\ answer'[u] = answer[u]
           \/ answer'[u] = "saved" /\ pc'[u] = IF u \in temps THEN "cleanup" ELSE "done"
    BY UploadIs, Numbers DEF Put, Typed, Goto, Say, Finish, Moves, world, Rest, Fits
  <1>2. Rest(u) \in [from : Sizes, to : Sizes]
    BY UploadIs, <1>1, Numbers DEF Typed, UploadPhase, Rest, Sizes, Larger
  <1>3. Shape(u) /\ Settled(u) /\ dest' = dest
    BY UploadIs DEF IInv, TypeOK, Put, Shape, Settled, Ended, Goto, Say, Finish, Moves, world,
       Rest, Fits
  <1>4. Typed(u)'
    BY UploadIs, <1>1, <1>2, Numbers, ValuesAssumption DEF Typed, Steps, Active, Undecided,
       TempPhase, UploadPhase
  <1>5. Own(u)'
    <2>1. Start(u)' = Start(u) /\ disk' = disk /\ losses' = losses
      BY <1>3 DEF Shape, Start
    <2>2. TempPhase(u)' /\ UploadPhase(u)'
      BY UploadIs, <1>1, <1>2, <2>1, Numbers, ValuesAssumption DEF Typed, UploadPhase,
         TempPhase, Sizes, Larger
    <2>3. StoredPhase(u)'
      BY UploadIs, <1>1, <1>2, <2>1, Numbers, ValuesAssumption DEF Typed, UploadPhase,
         StoredPhase, Rest, Fits, Sizes, Larger
    <2> QED BY <2>2, <2>3, UploadIs DEF Own
  <1> QED BY UploadIs, <1>3, <1>4, <1>5, Step

LEMMA ResendStep ==
  ASSUME IInv, NEW u \in Uploads, Resend(u)
  PROVE  IInv'
  <1>1. /\ pc[u] = "resend"
        /\ pc'[u] = "send"
        /\ pos'[u] = IF u \in temps THEN pos[u] ELSE Start(u)
        /\ file'[u] = file[u] /\ size'[u] = size[u] /\ answer'[u] = answer[u]
        /\ length'[u] = length[u] /\ stored'[u] = stored[u] /\ temps' = temps
        /\ changed' = changed
    BY UploadIs, Numbers DEF Resend, Typed, Goto, Moves, world
  <1>2. Shape(u) /\ Settled(u) /\ dest' = dest
    BY UploadIs DEF IInv, TypeOK, Resend, Shape, Settled, Ended, Goto, Moves, world
  <1>3. Typed(u)'
    BY UploadIs, <1>1, Numbers, ValuesAssumption DEF Typed, Steps, Active, Undecided, TempPhase,
       UploadPhase
  <1>4. Own(u)'
    <2>1. Start(u)' = Start(u) /\ disk' = disk /\ losses' = losses
      BY <1>2 DEF Shape, Start
    <2> QED BY UploadIs, <1>1, <2>1, Numbers, ValuesAssumption DEF Own, Typed, UploadPhase,
           StoredPhase, TempPhase, Sizes, Larger
  <1> QED BY UploadIs, <1>2, <1>3, <1>4, Step

LEMMA PutFailsStep ==
  ASSUME IInv, NEW u \in Uploads, PutFails(u)
  PROVE  IInv'
  <1>1. /\ pc[u] \in {"send", "resend"}
        /\ answer'[u] = "error" /\ pc'[u] = IF u \in temps THEN "cleanup" ELSE "done"
        /\ pos'[u] = pos[u] /\ file'[u] = file[u] /\ size'[u] = size[u]
        /\ length'[u] = length[u] /\ stored'[u] = stored[u] /\ temps' = temps
        /\ changed' = changed
    BY UploadIs, Numbers DEF PutFails, Typed, Goto, Say, Finish, world, local, Rest, Fits
  <1>2. Shape(u) /\ Settled(u) /\ dest' = dest
    BY UploadIs DEF IInv, TypeOK, PutFails, Shape, Settled, Ended, Goto, Say, Finish, world,
       local, Rest, Fits
  <1>3. Typed(u)'
    BY UploadIs, <1>1, Numbers, ValuesAssumption DEF Typed, Steps, Active, Undecided, TempPhase,
       UploadPhase
  <1>4. Own(u)'
    <2>1. Start(u)' = Start(u) /\ disk' = disk /\ losses' = losses
      BY <1>2 DEF Shape, Start
    <2> QED BY UploadIs, <1>1, <2>1, Numbers, ValuesAssumption DEF Own, Typed, UploadPhase,
           StoredPhase, TempPhase, Sizes, Larger
  <1> QED BY UploadIs, <1>2, <1>3, <1>4, Step

LEMMA CreateTempUpStep ==
  ASSUME IInv, NEW u \in Uploads, CreateTemp(u)
  PROVE  IInv'
  <1>1. /\ pc[u] = "temp"
        /\ pc'[u] = "copy"
        /\ temps' = temps \cup {u}
        /\ pos'[u] = pos[u] /\ file'[u] = file[u] /\ size'[u] = size[u]
        /\ answer'[u] = answer[u] /\ length'[u] = length[u] /\ stored'[u] = stored[u]
        /\ changed' = changed
    BY UploadIs, Numbers DEF CreateTemp, Typed, Goto, world
  <1>2. Shape(u) /\ Settled(u) /\ dest' = dest
    BY UploadIs DEF IInv, TypeOK, CreateTemp, Shape, Settled, Ended, Goto, world
  <1>3. Typed(u)'
    BY UploadIs, <1>1, Numbers, ValuesAssumption DEF Typed, Steps, Active, Undecided, TempPhase,
       UploadPhase
  <1>4. Own(u)'
    <2>1. Start(u)' = Start(u) /\ disk' = disk /\ losses' = losses
      BY <1>2 DEF Shape, Start
    <2> QED BY UploadIs, <1>1, <2>1, Numbers, ValuesAssumption DEF Own, Typed, UploadPhase,
           StoredPhase, TempPhase, Sizes, Larger
  <1> QED BY UploadIs, <1>2, <1>3, <1>4, Step

LEMMA CreateTempDownStep ==
  ASSUME IInv, NEW d \in Downloads, CreateTemp(d)
  PROVE  IInv'
  <1>1. /\ pc[d] = "temp"
        /\ pc'[d] = "copy"
        /\ temps' = temps \cup {d}
        /\ pos'[d] = pos[d] /\ file'[d] = file[d] /\ size'[d] = size[d]
        /\ answer'[d] = answer[d] /\ changed' = changed
    BY DownloadIs, Numbers DEF CreateTemp, Typed, Goto, world
  <1>2. Shape(d) /\ Settled(d) /\ dest' = dest
    BY DownloadIs DEF IInv, TypeOK, CreateTemp, Shape, Settled, Ended, Goto, world
  <1>3. Typed(d)'
    BY DownloadIs, <1>1, Numbers, ValuesAssumption DEF Typed, Steps, Active, Undecided,
       TempPhase, DownloadPhase
  <1>4. Own(d)'
    <2>1. disk' = disk /\ losses' = losses
      BY <1>2 DEF Shape, Start
    <2> QED BY DownloadIs, <1>1, <2>1, Numbers, ValuesAssumption DEF Own, Typed, DownloadPhase,
           TempPhase, Sizes, Larger
  <1> QED BY DownloadIs, <1>2, <1>3, <1>4, Step

LEMMA CopyPieceUpStep ==
  ASSUME IInv, NEW u \in Uploads, CopyPiece(u)
  PROVE  IInv'
  <1>1. /\ file[u] = [size |-> file[u].size, synced |-> file[u].synced]
        /\ file[u].synced \in BOOLEAN
    BY UploadIs DEF Typed
  <1>2. /\ pc[u] = "copy"
        /\ pc'[u] = pc[u] /\ size'[u] = size[u] /\ answer'[u] = answer[u]
        /\ length'[u] = length[u] /\ stored'[u] = stored[u] /\ temps' = temps
        /\ changed' = changed
        /\ \/ /\ pos[u] < size[u] /\ pos'[u] = pos[u] + 1
              /\ file'[u] = [size |-> file[u].size + 1, synced |-> file[u].synced]
           \/ pos[u] >= size[u] /\ pos'[u] = pos[u] /\ file'[u] = file[u]
    BY UploadIs, Numbers, <1>1 DEF CopyPiece, Typed, Moves, world
  <1>3. Shape(u) /\ Settled(u) /\ dest' = dest
    BY UploadIs DEF IInv, TypeOK, CopyPiece, Shape, Settled, Ended, Moves, world
  <1>4. pos'[u] \in Sizes /\ file'[u] \in [size : Sizes, synced : BOOLEAN]
    <2>1. CASE pos[u] < size[u]
      <3>1. /\ file[u].size \in 0..MaxSize /\ pos[u] \in 0..MaxSize
            /\ size[u] \in 0..MaxSize /\ MaxSize \in Nat
        BY UploadIs, Numbers DEF Typed, Sizes
      <3>2. file[u].size <= pos[u]
        BY UploadIs, <1>2, <3>1 DEF UploadPhase, Sizes
      <3>3. file[u].size + 1 \in 0..MaxSize /\ pos[u] + 1 \in 0..MaxSize
        BY <2>1, <3>1, <3>2
      <3>4. /\ pos'[u] = pos[u] + 1
            /\ file'[u] = [size |-> file[u].size + 1, synced |-> file[u].synced]
        BY <2>1, <1>2, <3>1
      <3> QED BY <3>3, <3>4, <1>1 DEF Sizes
    <2>2. CASE ~(pos[u] < size[u])
      BY <1>2, <2>2, UploadIs, Numbers DEF Typed, Sizes
    <2> QED BY <2>1, <2>2
  <1>5. Typed(u)'
    BY UploadIs, <1>2, <1>4, Numbers, ValuesAssumption DEF Typed, Steps, Active, Undecided,
       TempPhase, UploadPhase
  <1>6. Own(u)'
    <2>1. Start(u)' = Start(u) /\ disk' = disk /\ losses' = losses
      BY <1>3 DEF Shape, Start
    <2> QED BY UploadIs, <1>2, <2>1, Numbers, ValuesAssumption DEF Own, Typed, UploadPhase,
           StoredPhase, TempPhase, Sizes, Larger
  <1> QED BY UploadIs, <1>3, <1>5, <1>6, Step

LEMMA CopyPieceDownStep ==
  ASSUME IInv, NEW d \in Downloads, CopyPiece(d)
  PROVE  IInv'
  <1>1. /\ file[d] = [size |-> file[d].size, synced |-> file[d].synced]
        /\ file[d].synced \in BOOLEAN
    BY DownloadIs DEF Typed
  <1>2. /\ pc[d] = "copy"
        /\ pc'[d] = pc[d] /\ size'[d] = size[d] /\ answer'[d] = answer[d]
        /\ temps' = temps /\ changed' = changed
        /\ \/ /\ pos[d] < size[d] /\ pos'[d] = pos[d] + 1
              /\ file'[d] = [size |-> file[d].size + 1, synced |-> file[d].synced]
           \/ pos[d] >= size[d] /\ pos'[d] = pos[d] /\ file'[d] = file[d]
    BY DownloadIs, Numbers, <1>1 DEF CopyPiece, Typed, Moves, world
  <1>3. Shape(d) /\ Settled(d) /\ dest' = dest
    BY DownloadIs DEF IInv, TypeOK, CopyPiece, Shape, Settled, Ended, Moves, world
  <1>4. pos'[d] \in Sizes /\ file'[d] \in [size : Sizes, synced : BOOLEAN]
    <2>1. CASE pos[d] < size[d]
      <3>1. /\ file[d].size \in 0..MaxSize /\ pos[d] \in 0..MaxSize
            /\ size[d] \in 0..MaxSize /\ MaxSize \in Nat
        BY DownloadIs, Numbers DEF Typed, Sizes
      <3>2. file[d].size <= pos[d]
        BY DownloadIs, <1>2, <3>1 DEF DownloadPhase, Sizes
      <3>3. file[d].size + 1 \in 0..MaxSize /\ pos[d] + 1 \in 0..MaxSize
        BY <2>1, <3>1, <3>2
      <3>4. /\ pos'[d] = pos[d] + 1
            /\ file'[d] = [size |-> file[d].size + 1, synced |-> file[d].synced]
        BY <2>1, <1>2, <3>1
      <3> QED BY <3>3, <3>4, <1>1 DEF Sizes
    <2>2. CASE ~(pos[d] < size[d])
      BY <1>2, <2>2, DownloadIs, Numbers DEF Typed, Sizes
    <2> QED BY <2>1, <2>2
  <1>5. Typed(d)'
    BY DownloadIs, <1>2, <1>4, Numbers, ValuesAssumption DEF Typed, Steps, Active, Undecided,
       TempPhase, DownloadPhase
  <1>6. Own(d)'
    <2>1. disk' = disk /\ losses' = losses
      BY <1>3 DEF Shape, Start
    <2> QED BY DownloadIs, <1>2, <2>1, Numbers, ValuesAssumption DEF Own, Typed, DownloadPhase,
           TempPhase, Sizes, Larger
  <1> QED BY DownloadIs, <1>3, <1>5, <1>6, Step

LEMMA CopyEndsUpStep ==
  ASSUME IInv, NEW u \in Uploads, CopyEnds(u)
  PROVE  IInv'
  <1>1. /\ pc[u] = "copy" /\ pos[u] >= size[u]
        /\ pc'[u] = "send" /\ length'[u] = file[u].size
        /\ pos'[u] = pos[u] /\ file'[u] = file[u] /\ size'[u] = size[u]
        /\ answer'[u] = answer[u] /\ stored'[u] = stored[u] /\ temps' = temps
        /\ changed' = changed
    BY UploadIs, Numbers DEF CopyEnds, Typed, Goto, Learns, world, Readable, AtEnd
  <1>2. Shape(u) /\ Settled(u) /\ dest' = dest
    BY UploadIs DEF IInv, TypeOK, CopyEnds, Shape, Settled, Ended, Goto, Learns, world,
       Readable, AtEnd
  <1>3. Typed(u)'
    BY UploadIs, <1>1, Numbers, ValuesAssumption DEF Typed, Steps, Active, Undecided, TempPhase,
       UploadPhase
  <1>4. Own(u)'
    <2>1. Start(u)' = Start(u) /\ disk' = disk /\ losses' = losses
      BY <1>2 DEF Shape, Start
    <2> QED BY UploadIs, <1>1, <2>1, Numbers, ValuesAssumption DEF Own, Typed, UploadPhase,
           StoredPhase, TempPhase, Sizes, Larger
  <1> QED BY UploadIs, <1>2, <1>3, <1>4, Step

LEMMA CopyEndsDownStep ==
  ASSUME IInv, NEW d \in Downloads, CopyEnds(d)
  PROVE  IInv'
  <1>1. /\ pc[d] = "copy" /\ pos[d] >= size[d]
        /\ pc'[d] = "sync"
        /\ pos'[d] = pos[d] /\ file'[d] = file[d] /\ size'[d] = size[d]
        /\ answer'[d] = answer[d] /\ temps' = temps /\ changed' = changed
    BY DownloadIs, Numbers DEF CopyEnds, Typed, Goto, Learns, world, Readable, AtEnd
  <1>2. Shape(d) /\ Settled(d) /\ dest' = dest
    BY DownloadIs DEF IInv, TypeOK, CopyEnds, Shape, Settled, Ended, Goto, Learns, world,
       Readable, AtEnd
  <1>3. Typed(d)'
    BY DownloadIs, <1>1, Numbers, ValuesAssumption DEF Typed, Steps, Active, Undecided,
       TempPhase, DownloadPhase
  <1>4. Own(d)'
    <2>1. disk' = disk /\ losses' = losses
      BY <1>2 DEF Shape, Start
    <2> QED BY DownloadIs, <1>1, <2>1, Numbers, ValuesAssumption DEF Own, Typed, DownloadPhase,
           TempPhase, Sizes, Larger
  <1> QED BY DownloadIs, <1>2, <1>3, <1>4, Step

LEMMA CopyStopsUpStep ==
  ASSUME IInv, NEW u \in Uploads, CopyStops(u)
  PROVE  IInv'
  <1>1. /\ pc[u] = "copy"
        /\ answer'[u] = "error" /\ pc'[u] = IF u \in temps THEN "cleanup" ELSE "done"
        /\ pos'[u] = pos[u] /\ file'[u] = file[u] /\ size'[u] = size[u]
        /\ length'[u] = length[u] /\ stored'[u] = stored[u] /\ temps' = temps
        /\ changed' = changed
    BY UploadIs, Numbers DEF CopyStops, Typed, Goto, Say, Finish, world, local, Readable
  <1>2. Shape(u) /\ Settled(u) /\ dest' = dest
    BY UploadIs DEF IInv, TypeOK, CopyStops, Shape, Settled, Ended, Goto, Say, Finish, world,
       local, Readable
  <1>3. Typed(u)'
    BY UploadIs, <1>1, Numbers, ValuesAssumption DEF Typed, Steps, Active, Undecided, TempPhase,
       UploadPhase
  <1>4. Own(u)'
    <2>1. Start(u)' = Start(u) /\ disk' = disk /\ losses' = losses
      BY <1>2 DEF Shape, Start
    <2> QED BY UploadIs, <1>1, <2>1, Numbers, ValuesAssumption DEF Own, Typed, UploadPhase,
           StoredPhase, TempPhase, Sizes, Larger
  <1> QED BY UploadIs, <1>2, <1>3, <1>4, Step

LEMMA CleanupUpStep ==
  ASSUME IInv, NEW u \in Uploads, Cleanup(u)
  PROVE  IInv'
  <1>1. /\ pc[u] = "cleanup"
        /\ pc'[u] = "done" /\ temps' = temps \ {u}
        /\ pos'[u] = pos[u] /\ file'[u] = file[u] /\ size'[u] = size[u]
        /\ answer'[u] = answer[u] /\ length'[u] = length[u] /\ stored'[u] = stored[u]
        /\ changed' = changed
    BY UploadIs, Numbers DEF Cleanup, Typed, Goto, world
  <1>2. Shape(u) /\ Settled(u) /\ dest' = dest
    BY UploadIs DEF IInv, TypeOK, Cleanup, Shape, Settled, Ended, Goto, world
  <1>3. Typed(u)'
    BY UploadIs, <1>1, Numbers, ValuesAssumption DEF Typed, Steps, Active, Undecided, TempPhase,
       UploadPhase
  <1>4. Own(u)'
    <2>1. Start(u)' = Start(u) /\ disk' = disk /\ losses' = losses
      BY <1>2 DEF Shape, Start
    <2> QED BY UploadIs, <1>1, <2>1, Numbers, ValuesAssumption DEF Own, Typed, UploadPhase,
           StoredPhase, TempPhase, Sizes, Larger
  <1> QED BY UploadIs, <1>2, <1>3, <1>4, Step

LEMMA FailUpStep ==
  ASSUME IInv, NEW u \in Uploads, Fail(u)
  PROVE  IInv'
  <1>1. /\ Undecided(u)
        /\ answer'[u] \in {"copied", "error"}
        /\ pc'[u] = IF u \in temps THEN "cleanup" ELSE "done"
        /\ pos'[u] = pos[u] /\ file'[u] = file[u] /\ size'[u] = size[u]
        /\ length'[u] = length[u] /\ stored'[u] = stored[u] /\ temps' = temps
        /\ changed' = changed
    BY UploadIs, Numbers DEF Fail, Typed, Goto, Say, Finish, world, local, Undecided
  <1>2. Shape(u) /\ Settled(u) /\ dest' = dest
    BY UploadIs DEF IInv, TypeOK, Fail, Shape, Settled, Ended, Goto, Say, Finish, world, local,
       Undecided
  <1>3. Typed(u)'
    BY UploadIs, <1>1, Numbers, ValuesAssumption DEF Typed, Steps, Active, Undecided, TempPhase,
       UploadPhase
  <1>4. Own(u)'
    <2>1. Start(u)' = Start(u) /\ disk' = disk /\ losses' = losses
      BY <1>2 DEF Shape, Start
    <2> QED BY UploadIs, <1>1, <2>1, Numbers, ValuesAssumption DEF Own, Typed, UploadPhase,
           StoredPhase, TempPhase, Sizes, Larger
  <1> QED BY UploadIs, <1>2, <1>3, <1>4, Step

LEMMA CrashUpStep ==
  ASSUME IInv, NEW u \in Uploads, Crash(u)
  PROVE  IInv'
  <1>1. /\ Active(u)
        /\ pc'[u] = "crashed"
        /\ answer'[u] \in {answer[u], "error"} /\ answer'[u] # None
        /\ pos'[u] = pos[u] /\ file'[u] = file[u] /\ size'[u] = size[u]
        /\ length'[u] = length[u] /\ stored'[u] = stored[u] /\ temps' = temps
        /\ changed' = changed
    BY UploadIs, Numbers, ValuesAssumption DEF Crash, Typed, Goto, Say, world, local, Active,
       LastWord
  <1>2. Shape(u) /\ Settled(u) /\ dest' = dest
    BY UploadIs DEF IInv, TypeOK, Crash, Shape, Settled, Ended, Goto, Say, world, local, Active
  <1>3. Typed(u)'
    BY UploadIs, <1>1, Numbers, ValuesAssumption DEF Typed, Steps, LastWord, Active, Undecided,
       TempPhase, UploadPhase
  <1>4. Own(u)'
    <2>1. Start(u)' = Start(u) /\ disk' = disk /\ losses' = losses
      BY <1>2 DEF Shape, Start
    <2> QED BY UploadIs, <1>1, <2>1, Numbers, ValuesAssumption DEF Own, Typed, UploadPhase,
           StoredPhase, TempPhase, Sizes, Larger
  <1> QED BY UploadIs, <1>2, <1>3, <1>4, Step

LEMMA CopyStopsDownStep ==
  ASSUME IInv, NEW d \in Downloads, CopyStops(d)
  PROVE  IInv'
  <1>1. /\ pc[d] = "copy"
        /\ answer'[d] = "error" /\ pc'[d] = IF d \in temps THEN "cleanup" ELSE "done"
        /\ pos'[d] = pos[d] /\ file'[d] = file[d] /\ size'[d] = size[d]
        /\ temps' = temps /\ changed' = changed
    BY DownloadIs, Numbers DEF CopyStops, Typed, Goto, Say, Finish, world, local, Readable
  <1>2. Shape(d) /\ Settled(d) /\ dest' = dest
    BY DownloadIs DEF IInv, TypeOK, CopyStops, Shape, Settled, Ended, Goto, Say, Finish, world,
       local, Readable
  <1>3. Typed(d)'
    BY DownloadIs, <1>1, Numbers, ValuesAssumption DEF Typed, Steps, Active, Undecided,
       TempPhase, DownloadPhase
  <1>4. Own(d)'
    <2>1. disk' = disk /\ losses' = losses
      BY <1>2 DEF Shape, Start
    <2> QED BY DownloadIs, <1>1, <2>1, Numbers, ValuesAssumption DEF Own, Typed, DownloadPhase,
           TempPhase, Sizes, Larger
  <1> QED BY DownloadIs, <1>2, <1>3, <1>4, Step

LEMMA CleanupDownStep ==
  ASSUME IInv, NEW d \in Downloads, Cleanup(d)
  PROVE  IInv'
  <1>1. /\ pc[d] = "cleanup"
        /\ pc'[d] = "done" /\ temps' = temps \ {d}
        /\ pos'[d] = pos[d] /\ file'[d] = file[d] /\ size'[d] = size[d]
        /\ answer'[d] = answer[d] /\ changed' = changed
    BY DownloadIs, Numbers DEF Cleanup, Typed, Goto, world
  <1>2. Shape(d) /\ Settled(d) /\ dest' = dest
    BY DownloadIs DEF IInv, TypeOK, Cleanup, Shape, Settled, Ended, Goto, world
  <1>3. Typed(d)'
    BY DownloadIs, <1>1, Numbers, ValuesAssumption DEF Typed, Steps, Active, Undecided,
       TempPhase, DownloadPhase
  <1>4. Own(d)'
    <2>1. disk' = disk /\ losses' = losses
      BY <1>2 DEF Shape, Start
    <2> QED BY DownloadIs, <1>1, <2>1, Numbers, ValuesAssumption DEF Own, Typed, DownloadPhase,
           TempPhase, Sizes, Larger
  <1> QED BY DownloadIs, <1>2, <1>3, <1>4, Step

LEMMA FailDownStep ==
  ASSUME IInv, NEW d \in Downloads, Fail(d)
  PROVE  IInv'
  <1>1. /\ Undecided(d)
        /\ answer'[d] \in {"copied", "error"}
        /\ pc'[d] = IF d \in temps THEN "cleanup" ELSE "done"
        /\ pos'[d] = pos[d] /\ file'[d] = file[d] /\ size'[d] = size[d]
        /\ temps' = temps /\ changed' = changed
    BY DownloadIs, Numbers DEF Fail, Typed, Goto, Say, Finish, world, local, Undecided
  <1>2. Shape(d) /\ Settled(d) /\ dest' = dest
    BY DownloadIs DEF IInv, TypeOK, Fail, Shape, Settled, Ended, Goto, Say, Finish, world,
       local, Undecided
  <1>3. Typed(d)'
    BY DownloadIs, <1>1, Numbers, ValuesAssumption DEF Typed, Steps, Active, Undecided,
       TempPhase, DownloadPhase
  <1>4. Own(d)'
    <2>1. disk' = disk /\ losses' = losses
      BY <1>2 DEF Shape, Start
    <2> QED BY DownloadIs, <1>1, <2>1, Numbers, ValuesAssumption DEF Own, Typed, DownloadPhase,
           TempPhase, Sizes, Larger
  <1> QED BY DownloadIs, <1>2, <1>3, <1>4, Step

LEMMA CrashDownStep ==
  ASSUME IInv, NEW d \in Downloads, Crash(d)
  PROVE  IInv'
  <1>1. /\ Active(d)
        /\ pc'[d] = "crashed"
        /\ answer'[d] \in {answer[d], "error"} /\ answer'[d] # None
        /\ pos'[d] = pos[d] /\ file'[d] = file[d] /\ size'[d] = size[d]
        /\ temps' = temps /\ changed' = changed
    BY DownloadIs, Numbers, ValuesAssumption DEF Crash, Typed, Goto, Say, world, local, Active,
       LastWord
  <1>2. Shape(d) /\ Settled(d) /\ dest' = dest
    BY DownloadIs DEF IInv, TypeOK, Crash, Shape, Settled, Ended, Goto, Say, world, local,
       Active
  <1>3. Typed(d)'
    BY DownloadIs, <1>1, Numbers, ValuesAssumption DEF Typed, Steps, LastWord, Active,
       Undecided, TempPhase, DownloadPhase
  <1>4. Own(d)'
    <2>1. disk' = disk /\ losses' = losses
      BY <1>2 DEF Shape, Start
    <2> QED BY DownloadIs, <1>1, <2>1, Numbers, ValuesAssumption DEF Own, Typed, DownloadPhase,
           TempPhase, Sizes, Larger
  <1> QED BY DownloadIs, <1>2, <1>3, <1>4, Step

LEMMA CancelStep ==
  ASSUME IInv, NEW u \in Uploads, Cancel(u)
  PROVE  IInv'
  <1>1. /\ pc'[u] = pc[u] /\ pos'[u] = pos[u] /\ file'[u] = file[u]
        /\ size'[u] = size[u] /\ answer'[u] = answer[u] /\ length'[u] = length[u]
        /\ stored'[u] = stored[u] /\ temps' = temps /\ changed' = changed
    BY UploadIs, Numbers DEF Cancel, Typed, local, Active
  <1>2. Shape(u) /\ Settled(u) /\ dest' = dest
    BY UploadIs DEF IInv, TypeOK, Cancel, Shape, Settled, Ended, local, Active
  <1>3. Typed(u)'
    BY UploadIs, <1>1, Numbers, ValuesAssumption DEF Typed, Steps, Active, Undecided, TempPhase,
       UploadPhase
  <1>4. Own(u)'
    <2>1. Start(u)' = Start(u) /\ disk' = disk /\ losses' = losses
      BY <1>2 DEF Shape, Start
    <2> QED BY UploadIs, <1>1, <2>1, Numbers, ValuesAssumption DEF Own, Typed, UploadPhase,
           StoredPhase, TempPhase, Sizes, Larger
  <1> QED BY UploadIs, <1>2, <1>3, <1>4, Step

LEMMA ChangeStep ==
  ASSUME IInv, NEW u \in Uploads, Change(u)
  PROVE  IInv'
  <1>1. /\ Active(u)
        /\ size'[u] \in Sizes /\ changed' = changed \cup {u}
        /\ pc'[u] = pc[u] /\ pos'[u] = pos[u] /\ file'[u] = file[u]
        /\ answer'[u] = answer[u] /\ length'[u] = length[u] /\ stored'[u] = stored[u]
        /\ temps' = temps
    BY UploadIs, Numbers DEF Change, Typed, Active
  <1>2. Shape(u) /\ Settled(u) /\ dest' = dest
    BY UploadIs DEF IInv, TypeOK, Change, Shape, Settled, Ended, Active
  <1>3. Typed(u)'
    BY UploadIs, <1>1, Numbers, ValuesAssumption DEF Typed, Steps, Active, Undecided, TempPhase,
       UploadPhase
  <1>4. Own(u)'
    <2>1. Start(u)' = Start(u) /\ disk' = disk /\ losses' = losses
      BY <1>2 DEF Shape, Start
    <2> QED BY UploadIs, <1>1, <2>1, Numbers, ValuesAssumption DEF Own, Typed, UploadPhase,
           StoredPhase, TempPhase, Sizes, Larger
  <1> QED BY UploadIs, <1>2, <1>3, <1>4, Step

LEMMA GetFindsStep ==
  ASSUME IInv, NEW d \in Downloads, GetFinds(d)
  PROVE  IInv'
  <1>1. /\ pc[d] = "idle"
        /\ pc'[d] = "temp"
        /\ pos'[d] = pos[d] /\ file'[d] = file[d] /\ size'[d] = size[d]
        /\ answer'[d] = answer[d] /\ temps' = temps /\ changed' = changed
    BY DownloadIs, Numbers DEF GetFinds, Typed, Goto, world, local
  <1>2. Shape(d) /\ Settled(d) /\ dest' = dest
    BY DownloadIs DEF IInv, TypeOK, GetFinds, Shape, Settled, Ended, Goto, world, local
  <1>3. Typed(d)'
    BY DownloadIs, <1>1, Numbers, ValuesAssumption DEF Typed, Steps, Active, Undecided,
       TempPhase, DownloadPhase
  <1>4. Own(d)'
    <2>1. disk' = disk /\ losses' = losses
      BY <1>2 DEF Shape, Start
    <2> QED BY DownloadIs, <1>1, <2>1, Numbers, ValuesAssumption DEF Own, Typed, DownloadPhase,
           TempPhase, Sizes, Larger
  <1> QED BY DownloadIs, <1>2, <1>3, <1>4, Step

LEMMA GetMissesStep ==
  ASSUME IInv, NEW d \in Downloads, GetMisses(d)
  PROVE  IInv'
  <1>1. /\ pc[d] = "idle"
        /\ answer'[d] = "false" /\ pc'[d] = IF d \in temps THEN "cleanup" ELSE "done"
        /\ pos'[d] = pos[d] /\ file'[d] = file[d] /\ size'[d] = size[d]
        /\ temps' = temps /\ changed' = changed
    BY DownloadIs, Numbers DEF GetMisses, Typed, Goto, Say, Finish, world, local
  <1>2. Shape(d) /\ Settled(d) /\ dest' = dest
    BY DownloadIs DEF IInv, TypeOK, GetMisses, Shape, Settled, Ended, Goto, Say, Finish, world,
       local
  <1>3. Typed(d)'
    BY DownloadIs, <1>1, Numbers, ValuesAssumption DEF Typed, Steps, Active, Undecided,
       TempPhase, DownloadPhase
  <1>4. Own(d)'
    <2>1. disk' = disk /\ losses' = losses
      BY <1>2 DEF Shape, Start
    <2> QED BY DownloadIs, <1>1, <2>1, Numbers, ValuesAssumption DEF Own, Typed, DownloadPhase,
           TempPhase, Sizes, Larger
  <1> QED BY DownloadIs, <1>2, <1>3, <1>4, Step

LEMMA SyncStep ==
  ASSUME IInv, NEW d \in Downloads, Sync(d)
  PROVE  IInv'
  <1>1. /\ pc[d] = "sync"
        /\ pc'[d] = "rename"
        /\ file'[d] = [size |-> file[d].size, synced |-> TRUE]
        /\ pos'[d] = pos[d] /\ size'[d] = size[d] /\ answer'[d] = answer[d]
        /\ temps' = temps /\ changed' = changed
    BY DownloadIs, Numbers DEF Sync, Typed, Goto, world
  <1>2. Shape(d) /\ Settled(d) /\ dest' = dest
    BY DownloadIs DEF IInv, TypeOK, Sync, Shape, Settled, Ended, Goto, world
  <1>3. Typed(d)'
    BY DownloadIs, <1>1, Numbers, ValuesAssumption DEF Typed, Steps, Active, Undecided,
       TempPhase, DownloadPhase
  <1>4. Own(d)'
    <2>1. disk' = disk /\ losses' = losses
      BY <1>2 DEF Shape, Start
    <2> QED BY DownloadIs, <1>1, <2>1, Numbers, ValuesAssumption DEF Own, Typed, DownloadPhase,
           TempPhase, Sizes, Larger
  <1> QED BY DownloadIs, <1>2, <1>3, <1>4, Step

\* The one step that gives a destination a file: a whole one, that is on disk.
LEMMA RenameStep ==
  ASSUME IInv, NEW d \in Downloads, Rename(d)
  PROVE  IInv'
  <1>1. /\ pc[d] = "rename" /\ pc'[d] = "cleanup"
        /\ pos'[d] = pos[d] /\ file'[d] = file[d] /\ size'[d] = size[d]
        /\ answer'[d] = "true" /\ temps' = temps \ {d} /\ changed' = changed
    BY DownloadIs DEF Rename, Say, Goto, world
  <1>2. /\ Shape(d) /\ Settled(d)
        /\ dest' = [dest EXCEPT ![to[d]] = d]
    BY DownloadIs DEF IInv, TypeOK, Rename, Shape, Settled, Ended, Say, Goto, world
  <1>3. Typed(d)'
    BY DownloadIs, <1>1, ValuesAssumption DEF Typed, Steps, Active, Undecided
  <1>4. Own(d)'
    <2>1. disk' = disk /\ losses' = losses
      BY <1>2 DEF Shape
    <2> QED BY DownloadIs, <1>1, <2>1 DEF Own, DownloadPhase, TempPhase
  <1>5. TypeOK'
    <2>1. dest' \in [Destinations -> Downloads \cup {Old, None}]
      BY <1>2 DEF IInv, TypeOK
    <2> QED BY <1>2, <1>3, <2>1, TypesFollow, DownloadIs
  <1>6. \A t \in Transfers : Own(t)'
    BY <1>2, <1>4, ShapeIsAlone, OthersKeep, DownloadIs
  <1>7. Published(dest)' /\ Published(disk.dest)'
    <2>1. /\ d \in Transfers /\ Alone(d) /\ Settled(d)
          /\ Published(dest) /\ Published(disk.dest) /\ disk' = disk
      BY <1>2, ShapeIsAlone, DownloadIs DEF IInv, Shape
    <2>2. \A e \in Downloads : Whole(e) /\ pc[e] \in Ended => Whole(e)' /\ pc'[e] \in Ended
      BY <2>1, PublishedKeeps
    <2>3. Whole(d)' /\ pc'[d] \in Ended
      BY <1>1, DownloadIs DEF Whole, DownloadPhase, Ended
    <2>4. \A n \in Destinations : dest'[n] \in {dest[n], d}
      BY <1>2 DEF IInv, TypeOK
    <2>5. Published(dest)'
      BY <2>1, <2>2, <2>3, <2>4 DEF Published
    <2>6. Published(disk.dest)'
      BY <2>1, <2>2 DEF Published
    <2> QED BY <2>5, <2>6
  <1> QED BY <1>5, <1>6, <1>7 DEF IInv

(***************************************************************************)
(* The machine                                                             *)
(***************************************************************************)
LEMMA WriteBackStep ==
  ASSUME IInv, WriteBack
  PROVE  IInv'
  <1>1. UNCHANGED <<input, to, size, pos, file, temps, length, dest, pc, answer, stored,
                    cancelled, changed, resent, losses>>
    BY DEF WriteBack, local
  <1>2. disk' = [temps |-> temps, dest |-> dest]
    BY DEF WriteBack
  <1>3. TypeOK'
    BY <1>1, <1>2 DEF IInv, TypeOK, Active, Undecided
  <1>4. \A t \in Transfers : Own(t)'
    <2> SUFFICES ASSUME NEW t \in Transfers PROVE Own(t)'
      OBVIOUS
    <2>1. Own(t)
      BY DEF IInv
    <2>2. t \in Uploads => UploadPhase(t)' /\ StoredPhase(t)'
      BY <1>1, <2>1 DEF Own, UploadPhase, StoredPhase, Start
    <2>3. t \in Downloads => DownloadPhase(t)'
      BY <1>1, <2>1 DEF Own, DownloadPhase
    <2>4. TempPhase(t)'
      BY <1>1, <1>2, <2>1 DEF Own, TempPhase
    <2> QED BY <2>2, <2>3, <2>4 DEF Own
  <1>5. Published(dest)' /\ Published(disk.dest)'
    BY <1>1, <1>2 DEF IInv, Published, Whole
  <1> QED BY <1>3, <1>4, <1>5 DEF IInv

LEMMA PowerLossStep ==
  ASSUME IInv, PowerLoss
  PROVE  IInv'
  <1>1. /\ UNCHANGED <<input, to, size, pos, length, stored, disk, cancelled, changed, resent>>
        /\ temps' = disk.temps /\ dest' = disk.dest /\ losses' = losses + 1
        /\ losses < MaxLosses
    BY DEF PowerLoss
  <1>2. losses' \in 0..MaxLosses /\ losses' > 0
    BY <1>1, Numbers DEF IInv, TypeOK
  <1>3. \A t \in Transfers :
          /\ file[t].synced => file'[t] = file[t]
          /\ file'[t].size \in {file[t].size, 0}
          /\ file'[t] \in [size : Sizes, synced : BOOLEAN]
    BY Numbers DEF IInv, TypeOK, PowerLoss
  <1>4. \A t \in Transfers :
          /\ pc'[t] = IF Active(t) THEN "crashed" ELSE pc[t]
          /\ answer'[t] = LastWord(t)
    BY DEF PowerLoss
  <1>5. TypeOK'
    <2>1. file' \in [Transfers -> [size : Sizes, synced : BOOLEAN]]
      BY <1>3 DEF PowerLoss
    <2>2. pc' \in [Transfers -> Steps]
      BY DEF PowerLoss, IInv, TypeOK, Steps
    <2>3. answer' \in [Transfers -> {"saved", "true", "false", "copied", "error", None}]
      BY DEF PowerLoss, IInv, TypeOK, LastWord
    <2>4. \A t \in Transfers : pc'[t] \notin {"send", "resend"} /\ ~Active(t)'
      BY <1>4 DEF Active
    <2> QED BY <1>1, <1>2, <2>1, <2>2, <2>3, <2>4 DEF IInv, TypeOK, Transfers
  <1>6. \A t \in Transfers : Own(t)'
    <2> SUFFICES ASSUME NEW t \in Transfers PROVE Own(t)'
      OBVIOUS
    <2>1. Own(t) /\ pc[t] \in Steps
      BY DEF IInv, TypeOK
    <2>2. pc'[t] \in {"idle", "done", "crashed"} /\ (pc'[t] # "crashed" => pc'[t] = pc[t])
      BY <1>4, <2>1 DEF Active
    <2>3. t \in Uploads => UploadPhase(t)'
      BY <1>1, <1>3, <2>1, <2>2 DEF Own, UploadPhase, Start
    <2>4. t \in Uploads => StoredPhase(t)'
      BY <1>1, <2>1, <2>2 DEF Own, StoredPhase, Start
    <2>5. t \in Downloads => DownloadPhase(t)'
      BY <1>1, <1>3, <2>1, <2>2 DEF Own, DownloadPhase
    <2>6. TempPhase(t)'
      BY <1>1, <1>2, <1>4, <2>1, <2>2 DEF Own, TempPhase, LastWord, Active
    <2> QED BY <2>3, <2>4, <2>5, <2>6 DEF Own
  <1>7. Published(disk.dest)' /\ dest' = disk'.dest
    <2> SUFFICES ASSUME NEW n \in Destinations, disk.dest[n] \in Downloads
                 PROVE  Whole(disk.dest[n])' /\ pc'[disk.dest[n]] \in Ended
      BY <1>1 DEF Published
    <2>1. disk.dest[n] \in Transfers /\ Whole(disk.dest[n]) /\ pc[disk.dest[n]] \in Ended
      BY DEF IInv, Published, Transfers
    <2> QED BY <1>1, <1>3, <1>4, <2>1 DEF Whole, Ended
  <1> QED BY <1>5, <1>6, <1>7 DEF IInv

LEMMA Stutter ==
  ASSUME IInv, UNCHANGED vars
  PROVE  IInv'
  <1>1. UNCHANGED <<input, to, size, pos, file, temps, length, dest, disk, pc, answer, stored,
                    cancelled, changed, resent, losses>>
    BY DEF vars, local, world
  <1>2. TypeOK'
    BY <1>1 DEF IInv, TypeOK, Active, Undecided
  <1>3. \A t \in Transfers : Own(t)'
    BY <1>1 DEF IInv, Own, UploadPhase, StoredPhase, DownloadPhase, TempPhase, Start
  <1>4. Published(dest)' /\ Published(disk.dest)'
    BY <1>1 DEF IInv, Published, Whole
  <1> QED BY <1>2, <1>3, <1>4 DEF IInv

LEMMA Inductive == IInv /\ [Next]_vars => IInv'
  <1> SUFFICES ASSUME IInv, [Next]_vars PROVE IInv'
    OBVIOUS
  <1>1. ASSUME NEW u \in Uploads,
               \/ Measure(u) \/ SeekEnd(u) \/ SeekBack(u) \/ Put(u) \/ Resend(u) \/ PutFails(u)
               \/ Cancel(u) \/ Change(u)
        PROVE  IInv'
    BY <1>1, MeasureStep, SeekEndStep, SeekBackStep, PutStep, ResendStep, PutFailsStep,
       CancelStep, ChangeStep
  <1>2. ASSUME NEW d \in Downloads, GetFinds(d) \/ GetMisses(d) \/ Sync(d) \/ Rename(d)
        PROVE  IInv'
    BY <1>2, GetFindsStep, GetMissesStep, SyncStep, RenameStep
  <1>3. ASSUME NEW t \in Transfers,
               \/ CreateTemp(t) \/ CopyPiece(t) \/ CopyEnds(t) \/ CopyStops(t) \/ Cleanup(t)
               \/ Fail(t) \/ Crash(t)
        PROVE  IInv'
    <2>1. CASE t \in Uploads
      BY <1>3, <2>1, CreateTempUpStep, CopyPieceUpStep, CopyEndsUpStep, CopyStopsUpStep,
         CleanupUpStep, FailUpStep, CrashUpStep
    <2>2. CASE t \in Downloads
      BY <1>3, <2>2, CreateTempDownStep, CopyPieceDownStep, CopyEndsDownStep,
         CopyStopsDownStep, CleanupDownStep, FailDownStep, CrashDownStep
    <2> QED BY <2>1, <2>2 DEF Transfers
  <1>4. CASE WriteBack \/ PowerLoss
    BY <1>4, WriteBackStep, PowerLossStep
  <1>5. CASE UNCHANGED vars
    BY <1>5, Stutter
  <1> QED BY <1>1, <1>2, <1>3, <1>4, <1>5 DEF Next, Called, Proceed, Finished

LEMMA Invariance == Spec => []IInv
  BY InitIInv, Inductive, PTL DEF Spec

(***************************************************************************)
(* The properties                                                          *)
(***************************************************************************)
\* Types; and the SDK is told a length, or that there is none, before it is called.
THEOREM TypeCorrect == Spec => []TypeOK
  <1>1. IInv => TypeOK
    BY DEF IInv
  <1> QED BY <1>1, Invariance, PTL

\* An object that is stored is the body from where its reader stood, without a gap and
\* as long as was announced, however often it is sent.
THEOREM StoredIsTheRestTheorem == Spec => []StoredIsTheRest
  <1>1. IInv => StoredIsTheRest
    BY UploadIs DEF StoredIsTheRest, StoredPhase
  <1> QED BY <1>1, Invariance, PTL

\* A transfer that has returned has left no temporary file, unless power was lost.
THEOREM NothingLeftBehindTheorem == Spec => []NothingLeftBehind
  <1>1. IInv => NothingLeftBehind
    BY DEF IInv, TypeOK, Own, TempPhase, NothingLeftBehind
  <1> QED BY <1>1, Invariance, PTL

(***************************************************************************)
(* Downloads replace whole: every step is one of ObjectStore's, or none    *)
(***************************************************************************)
\* What ObjectStore sees.
Requests    == [d \in Downloads |-> [kind |-> "overwrite", key |-> to[d]]]
Outcomes    == [d \in Downloads |-> Outcome(d)]
PromiseVars == <<Requests, Seen(dest), Seen(disk.dest), Outcomes>>

\* Under the invariant no file that has a name is torn.
LEMMA SeenIs == IInv => Seen(dest) = dest /\ Seen(disk.dest) = disk.dest
  <1> SUFFICES ASSUME IInv PROVE Seen(dest) = dest /\ Seen(disk.dest) = disk.dest
    OBVIOUS
  <1>1. /\ dest \in [Destinations -> Downloads \cup {Old, None}]
        /\ disk.dest \in [Destinations -> Downloads \cup {Old, None}]
    BY DEF IInv, TypeOK
  <1>2. \A n \in Destinations :
          Content(dest[n]) = dest[n] /\ Content(disk.dest[n]) = disk.dest[n]
    BY DEF IInv, Published, Whole, Content
  <1> QED BY <1>1, <1>2 DEF Seen

LEMMA SeenIsNext == IInv' => Seen(dest)' = dest' /\ Seen(disk.dest)' = disk'.dest
  <1> SUFFICES ASSUME IInv' PROVE Seen(dest)' = dest' /\ Seen(disk.dest)' = disk'.dest
    OBVIOUS
  <1>1. /\ dest' \in [Destinations -> Downloads \cup {Old, None}]
        /\ disk'.dest \in [Destinations -> Downloads \cup {Old, None}]
    BY DEF IInv, TypeOK
  <1>2. \A n \in Destinations :
          Content(dest[n])' = dest'[n] /\ Content(disk.dest[n])' = disk'.dest[n]
    BY DEF IInv, Published, Whole, Content
  <1> QED BY <1>1, <1>2 DEF Seen

LEMMA InitRefines == Init => Promise!Init
  <1> SUFFICES ASSUME Init PROVE Promise!Init
    OBVIOUS
  <1>1. IInv /\ dest \in [Destinations -> {Old, None}] /\ disk.dest = dest
    BY InitIInv DEF Init
  <1>2. Requests \in [Downloads -> [kind : Promise!Kinds, key : Destinations]]
    BY <1>1 DEF Requests, Promise!Kinds, IInv, TypeOK
  <1>3. Outcomes = [d \in Downloads |-> None]
    BY ValuesAssumption DEF Init, Outcomes, Outcome, Transfers
  <1> QED BY <1>1, <1>2, <1>3, SeenIs DEF Promise!Init, Requests, Outcomes

\* What touches no download's answer and no name is not seen.
LEMMA Unseen ==
  ASSUME IInv, IInv', dest' = dest, disk' = disk, to' = to,
         \A d \in Downloads : answer'[d] = answer[d]
  PROVE  UNCHANGED PromiseVars
  <1>1. Requests' = Requests /\ Outcomes' = Outcomes
    BY DEF Requests, Outcomes, Outcome
  <1> QED BY <1>1, SeenIs, SeenIsNext DEF PromiseVars

\* A download that has not been decided and gives up is an operation that fails.
LEMMA GivesUp ==
  ASSUME IInv, IInv', dest' = dest, disk' = disk, to' = to,
         NEW d \in Downloads, answer[d] = None,
         NEW a \in {"error", "copied", "false"}, answer' = [answer EXCEPT ![d] = a]
  PROVE  Promise!Fail(d)
  <1>1. Requests' = Requests /\ Seen(dest)' = Seen(dest) /\ Seen(disk.dest)' = Seen(disk.dest)
    BY SeenIs, SeenIsNext DEF Requests
  <1>2. Outcome(d) = None /\ Outcomes' = [Outcomes EXCEPT ![d] = "error"]
    <2>1. answer'[d] = a /\ \A e \in Downloads \ {d} : answer'[e] = answer[e]
      BY DownloadIs DEF Transfers
    <2> QED BY <2>1, ValuesAssumption DEF Outcomes, Outcome
  <1> QED BY <1>1, <1>2 DEF Promise!Fail, Promise!Decide, Requests, Outcomes

\* Until it is decided a download has no answer.
LEMMA NoAnswerYet ==
  ASSUME IInv, NEW d \in Downloads, Undecided(d)
  PROVE  answer[d] = None
  BY DownloadIs DEF Typed, TempPhase, Undecided, Active

LEMMA RenameRefines ==
  ASSUME IInv, IInv', NEW d \in Downloads, Rename(d)
  PROVE  Promise!Publish(d)
  <1>1. /\ dest' = [dest EXCEPT ![to[d]] = d] /\ disk' = disk /\ to' = to
        /\ answer' = [answer EXCEPT ![d] = "true"]
    BY DEF Rename, Say, world
  <1>2. answer[d] = None
    BY NoAnswerYet DEF Rename, Undecided
  <1>3. /\ Requests' = Requests /\ Seen(disk.dest)' = Seen(disk.dest)
        /\ Seen(dest)' = [Seen(dest) EXCEPT ![to[d]] = d]
    BY <1>1, SeenIs, SeenIsNext DEF Requests
  <1>4. Outcome(d) = None /\ Outcomes' = [Outcomes EXCEPT ![d] = "saved"]
    <2>1. answer'[d] = "true" /\ \A e \in Downloads \ {d} : answer'[e] = answer[e]
      BY <1>1, DownloadIs DEF Transfers
    <2> QED BY <1>2, <2>1, ValuesAssumption DEF Outcomes, Outcome
  <1> QED BY <1>3, <1>4 DEF Promise!Publish, Promise!Asks, Promise!Put, Promise!Decide,
             Promise!Object, Requests, Outcomes

LEMMA PowerLossRefines ==
  ASSUME IInv, IInv', PowerLoss
  PROVE  Promise!PowerLoss
  <1>1. /\ dest' = disk.dest /\ disk' = disk /\ to' = to
        /\ \A d \in Downloads : answer'[d] = LastWord(d)
    BY DEF PowerLoss, Transfers
  <1>2. Requests' = Requests /\ Seen(dest)' = Seen(disk.dest)
        /\ Seen(disk.dest)' = Seen(disk.dest)
    BY <1>1, SeenIs, SeenIsNext DEF Requests
  <1>3. \A d \in Downloads : /\ Outcome(d)' \in {Outcome(d), "error"}
                             /\ Outcome(d)' \in Promise!Answers \cup {None}
    BY <1>1, ValuesAssumption DEF Outcome, LastWord, Promise!Answers
  <1>4. Outcomes' \in {a \in [Downloads -> Promise!Answers \cup {None}] :
                         \A d \in Downloads : a[d] # Outcomes[d] => a[d] = "error"}
    BY <1>3 DEF Outcomes
  <1> QED BY <1>2, <1>4 DEF Promise!PowerLoss, Requests, Outcomes

\* Of a power loss the promise says more than of the other steps.
LEMMA StepRefines ==
  IInv /\ IInv' /\ [Next]_vars => [Promise!Step]_PromiseVars \/ (PowerLoss /\ Promise!PowerLoss)
  <1> DEFINE Goal == [Promise!Step]_PromiseVars \/ (PowerLoss /\ Promise!PowerLoss)
  <1> SUFFICES ASSUME IInv, IInv', [Next]_vars PROVE Goal
    OBVIOUS
  <1>1. ASSUME NEW u \in Uploads,
               \/ Measure(u) \/ SeekEnd(u) \/ SeekBack(u) \/ Put(u) \/ Resend(u) \/ PutFails(u)
               \/ Cancel(u) \/ Change(u)
               \/ CreateTemp(u) \/ CopyPiece(u) \/ CopyEnds(u) \/ CopyStops(u) \/ Cleanup(u)
               \/ Fail(u) \/ Crash(u)
        PROVE  Goal
    <2>1. dest' = dest /\ disk' = disk /\ to' = to
      BY <1>1 DEF Measure, SeekEnd, SeekBack, Put, Resend, PutFails, Cancel, Change, CreateTemp,
         CopyPiece, CopyEnds, CopyStops, Cleanup, Fail, Crash, world, local
    <2>2. \/ answer' = answer \/ \E a : answer' = [answer EXCEPT ![u] = a]
      BY <1>1 DEF Measure, SeekEnd, SeekBack, Put, Resend, PutFails, Cancel, Change, CreateTemp,
         CopyPiece, CopyEnds, CopyStops, Cleanup, Fail, Crash, Finish, Say
    <2>3. \A d \in Downloads : answer'[d] = answer[d]
      BY <2>2, UploadIs, DownloadIs
    <2> QED BY <2>1, <2>3, Unseen
  <1>2. ASSUME NEW d \in Downloads,
               \/ GetFinds(d) \/ Sync(d) \/ CreateTemp(d) \/ CopyPiece(d) \/ CopyEnds(d)
               \/ Cleanup(d)
        PROVE  Goal
    <2>1. dest' = dest /\ disk' = disk /\ to' = to /\ answer' = answer
      BY <1>2 DEF GetFinds, Sync, CreateTemp, CopyPiece, CopyEnds, Cleanup, world, local
    <2> QED BY <2>1, Unseen
  <1>3. ASSUME NEW d \in Downloads, GetMisses(d) \/ CopyStops(d) \/ Fail(d)
        PROVE  Goal
    <2>1. dest' = dest /\ disk' = disk /\ to' = to
      BY <1>3 DEF GetMisses, CopyStops, Fail, world, local
    <2>2. PICK a \in {"error", "copied", "false"} : answer' = [answer EXCEPT ![d] = a]
      BY <1>3 DEF GetMisses, CopyStops, Fail, Finish, Say
    <2>3. answer[d] = None
      BY <1>3, NoAnswerYet DEF GetMisses, CopyStops, Fail, Undecided
    <2>4. Promise!Fail(d)
      BY <2>1, <2>2, <2>3, GivesUp
    <2> QED BY <2>4 DEF Promise!Step, Promise!Operation
  <1>4. ASSUME NEW d \in Downloads, Crash(d) PROVE Goal
    <2>1. /\ dest' = dest /\ disk' = disk /\ to' = to
          /\ answer' = [answer EXCEPT ![d] = LastWord(d)]
      BY <1>4 DEF Crash, Say, world, local
    <2>2. CASE answer[d] = None
      <3>1. LastWord(d) = "error"
        BY <1>4, <2>2 DEF Crash, LastWord
      <3>2. Promise!Fail(d)
        BY <2>1, <2>2, <3>1, GivesUp
      <3> QED BY <3>2 DEF Promise!Step, Promise!Operation
    <2>3. CASE answer[d] # None
      <3>1. \A e \in Downloads : answer'[e] = answer[e]
        BY <2>1, <2>3, DownloadIs DEF LastWord, Transfers
      <3> QED BY <2>1, <3>1, Unseen
    <2> QED BY <2>2, <2>3
  <1>5. ASSUME NEW d \in Downloads, Rename(d) PROVE Goal
    BY <1>5, RenameRefines DEF Promise!Step, Promise!Operation
  <1>6. ASSUME WriteBack PROVE Goal
    <2>1. /\ dest' = dest /\ disk'.dest = dest /\ to' = to /\ answer' = answer
      BY <1>6 DEF WriteBack, local
    <2>2. Requests' = Requests /\ Outcomes' = Outcomes
      BY <2>1 DEF Requests, Outcomes, Outcome
    <2>3. Promise!Persist
      BY <2>1, <2>2, SeenIs, SeenIsNext DEF Promise!Persist, Requests, Outcomes
    <2> QED BY <2>3 DEF Promise!Step, Promise!Operation
  <1>7. ASSUME PowerLoss PROVE Goal
    BY <1>7, PowerLossRefines
  <1>8. CASE UNCHANGED vars
    BY <1>8, Unseen DEF vars, local, world
  <1> QED BY <1>1, <1>2, <1>3, <1>4, <1>5, <1>6, <1>7, <1>8
          DEF Next, Called, Proceed, Finished, Transfers

\* For its destination a download is a Save that may overwrite: the whole object or
\* nothing, at one instant, with other transfers going on, crashes and power losses.
THEOREM DownloadsReplaceWholeTheorem == Spec => DownloadsReplaceWhole
  <1>1. IInv /\ IInv' /\ [Next]_vars => [Promise!Next]_Promise!vars
    BY StepRefines DEF Promise!Next, Promise!vars, PromiseVars, Requests, Outcomes
  <1> QED
    BY <1>1, InitRefines, Invariance, PTL DEF Spec, DownloadsReplaceWhole, Promise!Spec

\* What ObjectStoreProofs shows of the promise.
Store == INSTANCE ObjectStoreProofs
           WITH Keys <- Destinations, Prefixes <- {}, Ops <- Downloads, request <- Requests,
                objects <- Seen(dest), durable <- Seen(disk.dest), answer <- Outcomes

LEMMA StoreStep == ASSUME [Promise!Step]_PromiseVars PROVE [Store!Step]_Store!vars
  BY DEF PromiseVars, Requests, Outcomes, Store!vars, Promise!Step, Store!Step,
     Promise!Persist, Store!Persist,
     Promise!Operation, Promise!Publish, Promise!Refuse, Promise!Remove, Promise!Read,
     Promise!Miss, Promise!Fail, Promise!Asks, Promise!Decide, Promise!Object, Promise!Put,
     Store!Operation, Store!Publish, Store!Refuse, Store!Remove, Store!Read,
     Store!Miss, Store!Fail, Store!Asks, Store!Decide, Store!Object, Store!Put

LEMMA LossesCount == [Next]_vars => losses' = losses \/ (PowerLoss /\ losses' = losses + 1)
  <1> SUFFICES ASSUME [Next]_vars PROVE losses' = losses \/ (PowerLoss /\ losses' = losses + 1)
    OBVIOUS
  <1>1. ASSUME NEW t \in Transfers, Called(t) \/ Proceed(t) \/ Fail(t) \/ Crash(t)
        PROVE  losses' = losses
    BY Zenon, <1>1 DEF Called, Proceed, Measure, GetFinds, GetMisses, SeekEnd, SeekBack, Put, Resend,
       PutFails, Sync, Rename, CreateTemp, CopyPiece, CopyEnds, CopyStops, Cleanup, Fail, Crash,
       world
  <1>2. ASSUME NEW u \in Uploads, Cancel(u) \/ Change(u) PROVE losses' = losses
    BY <1>2 DEF Cancel, Change
  <1> QED
    BY <1>1, <1>2 DEF Next, WriteBack, PowerLoss, Finished, vars, world

\* As long as no power was lost, what is at a destination is what a download to it that
\* succeeded has put there, or was there before; and what one has put stays until another
\* succeeds, however many race, fail or die.
THEOREM DownloadsStay ==
  Spec => [](losses = 0 => Store!SavedStays /\ Store!ObjectsWereSaved)
  <1> DEFINE Inv == losses = 0 => Store!IInv
  <1>1. Store!Distinct
    BY ValuesAssumption, WordsAssumption DEF Store!Distinct
  <1>2. Init => Inv
    <2> SUFFICES ASSUME Init PROVE Store!IInv
      OBVIOUS
    <2>1. Store!Init
      BY InitRefines DEF Promise!Init, Store!Init, Promise!Kinds, Store!Kinds, Requests, Outcomes
    <2> QED
      BY <1>1, <2>1, Store!Initially
  <1>3. IInv /\ IInv' /\ [Next]_vars /\ Inv => Inv'
    <2> SUFFICES ASSUME IInv, IInv', [Next]_vars, Inv, losses' = 0 PROVE Store!IInv'
      OBVIOUS
    <2>1. losses = 0 /\ ~PowerLoss
      <3>1. losses \in Nat
        BY DEF IInv, TypeOK
      <3> QED
        BY <3>1, LossesCount DEF PowerLoss
    <2>2. [Store!Step]_Store!vars
      BY <2>1, StepRefines, StoreStep
    <2> QED
      BY <1>1, <2>1, <2>2, Store!StepKeeps
  <1>4. Inv => (losses = 0 => Store!SavedStays /\ Store!ObjectsWereSaved)
    BY DEF Store!IInv
  <1> QED
    BY <1>2, <1>3, <1>4, Invariance, PTL DEF Spec
================================================================================
