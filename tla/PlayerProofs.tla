---------------------------- MODULE PlayerProofs ----------------------------
(***************************************************************************)
(* Proofs about the audio player, for any set of sounds and any number of  *)
(* requests.                                                               *)
(***************************************************************************)
EXTENDS Player, SequenceTheorems, TLAPS

-----------------------------------------------------------------------------
(* Queues *)

\* Moving the head of a queue to the end of what was served changes nothing
\* of the two together.
LEMMA MoveHead ==
  ASSUME NEW S, NEW s \in Seq(S), NEW q \in Seq(S), q # <<>>
  PROVE  /\ Append(s, Head(q)) \o Tail(q) = s \o q
         /\ Len(s) < Len(s \o q)
         /\ (s \o q)[Len(s) + 1] = Head(q)
<1>1. /\ Head(q) \in S /\ Tail(q) \in Seq(S) /\ Len(Tail(q)) = Len(q) - 1
      /\ \A i \in 1 .. Len(Tail(q)) : Tail(q)[i] = q[i + 1]
      /\ Len(q) \in Nat \ {0} /\ Head(q) = q[1]
  BY HeadTailProperties, EmptySeq
<1>2. /\ s \o q \in Seq(S) /\ Len(s \o q) = Len(s) + Len(q)
      /\ \A i \in 1 .. Len(s) + Len(q) :
           (s \o q)[i] = IF i <= Len(s) THEN s[i] ELSE q[i - Len(s)]
  BY ConcatProperties
<1> DEFINE a == Append(s, Head(q))
<1>3. /\ a \in Seq(S) /\ Len(a) = Len(s) + 1
      /\ \A i \in 1 .. Len(s) + 1 : a[i] = IF i <= Len(s) THEN s[i] ELSE Head(q)
  BY <1>1, LenProperties
<1> HIDE DEF a
<1>4. /\ a \o Tail(q) \in Seq(S) /\ Len(a \o Tail(q)) = Len(a) + Len(Tail(q))
      /\ \A i \in 1 .. Len(a) + Len(Tail(q)) :
           (a \o Tail(q))[i] = IF i <= Len(a) THEN a[i] ELSE Tail(q)[i - Len(a)]
  BY <1>1, <1>3, ConcatProperties
<1>5. Len(s) \in Nat
  BY LenProperties
<1>6. \A i \in 1 .. Len(s \o q) : (a \o Tail(q))[i] = (s \o q)[i]
  <2> TAKE i \in 1 .. Len(s \o q)
  <2>1. CASE i <= Len(s)
    BY <2>1, <1>1, <1>2, <1>3, <1>4, <1>5
  <2>2. CASE i = Len(s) + 1
    BY <2>2, <1>1, <1>2, <1>3, <1>4, <1>5
  <2>3. CASE i > Len(s) + 1
    <3>1. i - Len(a) \in 1 .. Len(Tail(q))
      BY <2>3, <1>1, <1>2, <1>3, <1>5
    <3>2. Tail(q)[i - Len(a)] = q[i - Len(a) + 1] /\ i - Len(a) + 1 = i - Len(s)
      BY <3>1, <1>1, <1>3, <1>5
    <3>3. QED
      BY <2>3, <3>1, <3>2, <1>1, <1>2, <1>3, <1>4, <1>5
  <2>4. i <= Len(s) \/ i = Len(s) + 1 \/ i > Len(s) + 1
    <3>1. i \in Int
      BY <1>1, <1>2, <1>5
    <3>2. QED
      BY <3>1, <1>5
  <2>5. QED
    BY <2>1, <2>2, <2>3, <2>4
<1>7. a \o Tail(q) = s \o q
  BY <1>1, <1>2, <1>3, <1>4, <1>5, <1>6, SeqEqual
<1>8. QED
  BY <1>1, <1>2, <1>5, <1>7 DEF a

\* A request joins the end of the waiting ones.
LEMMA AppendConcat ==
  ASSUME NEW S, NEW s \in Seq(S), NEW q \in Seq(S), NEW e \in S
  PROVE  s \o Append(q, e) = Append(s \o q, e)
<1>1. Append(q, e) = q \o <<e>> /\ Append(s \o q, e) = (s \o q) \o <<e>> /\ <<e>> \in Seq(S)
  BY ConcatProperties, AppendIsConcat
<1>2. QED
  BY <1>1, ConcatAssociative

-----------------------------------------------------------------------------
(* The inductive invariant *)

\* The player is constructed in a state of the inductive invariant.
LEMMA InitPlayerInv == Init => PlayerInv
BY EmptySeq, ConcatEmptySeq
   DEF Init, PlayerInv, TypeOK, SoundsInOrder, PlayingFlagFaithful, Pending

\* Every step of the sound task, of a caller, or of the power supply keeps it.
LEMMA StepPlayerInv == PlayerInv /\ [Next]_vars => PlayerInv'
<1> SUFFICES ASSUME PlayerInv, [Next]_vars PROVE PlayerInv'
  OBVIOUS
<1> USE DEF PlayerInv, TypeOK, SoundsInOrder, PlayingFlagFaithful, Pending
<1>1. CASE Play
  BY <1>1 DEF Play
<1>2. CASE GeneratorEnds
  BY <1>2 DEF GeneratorEnds
<1>3. CASE StopGenerator
  BY <1>3 DEF StopGenerator
<1>4. CASE QueueEmpty
  BY <1>4 DEF QueueEmpty
<1>5. CASE SelectFile
  <2>1. Append(started, Head(fileQueue)) \o Tail(fileQueue) = started \o fileQueue
    BY <1>5, MoveHead DEF SelectFile
  <2>2. Head(fileQueue) \in Sounds
    BY <1>5, HeadTailProperties DEF SelectFile
  <2>3. TypeOK'
    <3>1. Append(started, Head(fileQueue)) \in Seq(Sounds)
      BY <2>2, AppendProperties
    <3>2. QED
      BY <1>5, <3>1 DEF SelectFile
  <2>4. SoundsInOrder'
    BY <1>5, <2>1 DEF SelectFile
  <2>5. QED
    BY <1>5, <2>3, <2>4 DEF SelectFile
<1>6. CASE FinishSelect
  <2>1. Tail(fileQueue) \in Seq(Sounds)
    BY <1>6, HeadTailProperties DEF FinishSelect
  <2>2. QED
    BY <1>6, <2>1 DEF FinishSelect
<1>7. ASSUME NEW s \in Sounds, EnqueueFile(s) PROVE PlayerInv'
  <2>1. started \o Append(fileQueue, s) = Append(started \o fileQueue, s)
    BY AppendConcat
  <2>2. QED
    BY <1>7, <2>1 DEF EnqueueFile
<1>8. CASE PowerDown
  BY <1>8, EmptySeq, ConcatEmptySeq DEF PowerDown
<1>9. CASE UNCHANGED vars
  BY <1>9 DEF vars
<1>10. QED
  BY <1>1, <1>2, <1>3, <1>4, <1>5, <1>6, <1>7, <1>8, <1>9 DEF Next, SoundTask

\* The inductive invariant, with the types of all variables, always holds.
THEOREM PlayerInvHolds == Spec => []PlayerInv
BY InitPlayerInv, StepPlayerInv, PTL DEF Spec

\* No sound is lost, played twice or played out of its turn.
THEOREM NoSoundLost == Spec => []SoundsInOrder
BY PlayerInvHolds, PTL DEF PlayerInv

\* playing() tells whether a file sounds, but for the moments in which the
\* sound task is between the generator and the flag.
THEOREM FlagIsFaithful == Spec => []PlayingFlagFaithful
BY PlayerInvHolds, PTL DEF PlayerInv

-----------------------------------------------------------------------------
(* The player's steps are steps of SoundQueue *)

\* The queue starts with nothing asked for and nothing started.
LEMMA InitIsSoundQueue == Init => SQ!Init
BY DEF Init, SQ!Init

\* Taking the front of the queue starts the first sound not yet started.
LEMMA StepIsSoundQueue == PlayerInv /\ [Next]_vars => [SQ!Next]_(SQ!vars)
<1> SUFFICES ASSUME PlayerInv, [Next]_vars PROVE [SQ!Next]_(SQ!vars)
  OBVIOUS
<1> USE DEF SQ!Next, SQ!vars
<1>1. CASE Play \/ GeneratorEnds \/ StopGenerator \/ QueueEmpty \/ FinishSelect
  BY <1>1 DEF Play, GeneratorEnds, StopGenerator, QueueEmpty, FinishSelect
<1>2. CASE SelectFile
  <2>1. requested = started \o fileQueue /\ fileQueue # <<>>
    BY <1>2 DEF SelectFile, PlayerInv, SoundsInOrder, Pending
  <2>2. /\ Len(started) < Len(requested)
        /\ requested[Len(started) + 1] = Head(fileQueue)
    BY <2>1, MoveHead DEF PlayerInv, TypeOK
  <2>3. QED
    BY <1>2, <2>2 DEF SelectFile, SQ!Start
<1>3. ASSUME NEW s \in Sounds, EnqueueFile(s) PROVE SQ!Request(s)
  BY <1>3 DEF EnqueueFile, SQ!Request
<1>4. CASE PowerDown
  BY <1>4 DEF PowerDown, SQ!PowerOff
<1>5. CASE UNCHANGED vars
  BY <1>5 DEF vars
<1>6. QED
  BY <1>1, <1>2, <1>3, <1>4, <1>5 DEF Next, SoundTask

\* The safety half of the player's promise: started sounds are always a
\* prefix of the requested ones, extended one by one.
THEOREM PlayerIsSoundQueue == Spec => SQ!Init /\ [][SQ!Next]_(SQ!vars)
BY InitIsSoundQueue, StepIsSoundQueue, PlayerInvHolds, PTL DEF Spec

-----------------------------------------------------------------------------
(* Liveness.  Fairness is about ENABLED, of which the provers know nothing;  *)
(* what the guards of an action say of it is a hypothesis of the theorem.    *)

\* The sound task is created and then goes on: Spec's fairness with the
\* guards for ENABLED.
PlayerGoesOn ==
  /\ []<>~(soundPc = "off") \/ []<><<Play>>_vars
  /\ []<>(soundPc = "off") \/ []<><<SoundTask>>_vars

\* The fairness of SoundQueue in the same form: a sound that waits is not
\* the next for ever.
NextIsStarted ==
  []<>(Len(started) >= Len(requested)) \/ []<><<SQ!Start>>_(SQ!vars)

\* Play is enabled before the task runs, the task from then on, and a start
\* needs a sound that waits.
GuardsEnable ==
  /\ soundPc = "off" => ENABLED <<Play>>_vars
  /\ ~(soundPc = "off") => ENABLED <<SoundTask>>_vars
  /\ ENABLED <<SQ!Start>>_(SQ!vars) => Len(started) < Len(requested)

\* The flag can only be up where the sound task is about to lower it.
LEMMA UpOnlyThere == PlayerInv /\ isPlaying => soundPc \in {"loop", "ended"}
BY DEF PlayerInv, TypeOK

\* While the flag is up, only the sound task and a reset change where that
\* task is: others may enqueue as they like.
LEMMA StepUp ==
  ASSUME PlayerInv, [Next]_vars, isPlaying, isPlaying'
  PROVE  /\ soundPc = "ended" => soundPc' = "ended" /\ ~SoundTask
         /\ soundPc = "loop" => soundPc' \in {"loop", "ended"}
         /\ soundPc = "loop" /\ SoundTask => soundPc' = "ended"
<1>1. soundPc \in {"loop", "ended"}
  BY UpOnlyThere
<1>2. CASE SoundTask
  BY <1>1, <1>2 DEF SoundTask, GeneratorEnds, StopGenerator, QueueEmpty, SelectFile, FinishSelect
<1>3. CASE ~SoundTask
  BY <1>1, <1>3 DEF Next, Play, EnqueueFile, PowerDown, vars
<1>4. QED
  BY <1>2, <1>3

\* Whoever waits for playing() to become FALSE gets there if only the sound
\* task goes on, however many sounds are enqueued meanwhile.
LEMMA FlagDropsWhileTaskGoesOn == Init /\ [][Next]_vars /\ PlayerGoesOn => FlagDrops
<1> DEFINE Up      == isPlaying
           Ended   == soundPc = "ended"
           Looping == soundPc = "loop"
<1>1. Init /\ [][Next]_vars => []PlayerInv
  BY InitPlayerInv, StepPlayerInv, PTL
<1>2. PlayerInv /\ Up => (Looping \/ Ended) /\ ~(soundPc = "off")
  BY UpOnlyThere
<1>3. PlayerInv /\ [Next]_vars /\ Up /\ Ended => ~Up' \/ Ended'
  BY StepUp
<1>4. PlayerInv /\ [Next]_vars /\ Up /\ Ended /\ <<SoundTask>>_vars => ~Up'
  BY StepUp
<1>5. PlayerInv /\ [Next]_vars /\ Up /\ Looping => ~Up' \/ Looping' \/ Ended'
  BY StepUp
<1>6. PlayerInv /\ [Next]_vars /\ Up /\ Looping /\ <<SoundTask>>_vars => ~Up' \/ Ended'
  BY StepUp
<1> HIDE DEF Ended, Looping
<1>7. QED
  BY <1>1, <1>2, <1>3, <1>4, <1>5, <1>6, PTL DEF FlagDrops, PlayerGoesOn

\* The rounds of the sound task while a sound waits: only the task itself
\* ends each part, and playNext() ends with a start.
Waiting == Len(started) < Len(requested)

\* One step of each round.
LEMMA StepWaiting ==
  ASSUME PlayerInv, [Next]_vars, Waiting, Waiting'
  PROVE  /\ soundPc = "off" => soundPc' \in {"off", "loop"} /\ (Play => soundPc' = "loop")
         /\ soundPc = "loop" => soundPc' \in {"loop", "ended"}
                                /\ (SoundTask => soundPc' = "ended")
         /\ soundPc = "ended" => soundPc' \in {"ended", "playNext"}
                                 /\ (SoundTask => soundPc' = "playNext")
         /\ soundPc = "playNext" => IF SoundTask THEN <<SQ!Start>>_(SQ!vars)
                                                 ELSE soundPc' = "playNext"
         /\ soundPc = "selected" => soundPc' \in {"selected", "loop"}
                                    /\ (SoundTask => soundPc' = "loop")
<1>1. ~PowerDown
  BY DEF PowerDown, Waiting
<1>2. /\ started \in Seq(Sounds) /\ requested \in Seq(Sounds) /\ fileQueue \in Seq(Sounds)
      /\ Len(started) \in Nat /\ Len(requested) \in Nat
  BY LenProperties DEF PlayerInv, TypeOK
<1>3. ASSUME SoundTask, soundPc = "playNext" PROVE soundPc' = "selected" /\ <<SQ!Start>>_(SQ!vars)
  <2>1. fileQueue # <<>>
    <3>1. requested = started \o fileQueue
      BY <1>3 DEF PlayerInv, SoundsInOrder, Pending
    <3>2. fileQueue = <<>> => requested = started
      BY <3>1, <1>2, ConcatEmptySeq
    <3>3. QED
      BY <3>2, <1>2 DEF Waiting
  <2>2. SelectFile
    BY <1>3, <2>1 DEF SoundTask, GeneratorEnds, StopGenerator, QueueEmpty, FinishSelect
  <2>3. /\ started' = Append(started, Head(fileQueue)) /\ requested' = requested
        /\ requested[Len(started) + 1] = Head(fileQueue)
    BY <1>3, <2>1, <2>2, <1>2, MoveHead DEF SelectFile, PlayerInv, SoundsInOrder, Pending
  <2>4. Len(started') = Len(started) + 1
    BY <2>3, <1>2, <2>1, HeadTailProperties, AppendProperties
  <2>5. started' # started
    BY <2>4, <1>2
  <2>6. QED
    BY <2>2, <2>3, <2>5 DEF SelectFile, SQ!Start, SQ!vars, Waiting
<1>4. CASE SoundTask
  BY <1>3, <1>4 DEF SoundTask, GeneratorEnds, StopGenerator, QueueEmpty, SelectFile, FinishSelect,
     Play
<1>5. CASE ~SoundTask
  BY <1>1, <1>5 DEF Next, Play, EnqueueFile, vars
<1>6. QED
  BY <1>4, <1>5

\* Every sound that waits is the next in its turn, and then started.
LEMMA NextIsStartedWhileTaskGoesOn ==
  Init /\ [][Next]_vars /\ PlayerGoesOn => NextIsStarted
<1> DEFINE Looping  == soundPc = "loop"
           Ended    == soundPc = "ended"
           Choosing == soundPc = "playNext"
           Selected == soundPc = "selected"
<1>1. Init /\ [][Next]_vars => []PlayerInv
  BY InitPlayerInv, StepPlayerInv, PTL
<1>2. PlayerInv => /\ soundPc = "off" \/ Looping \/ Ended \/ Choosing \/ Selected
                   /\ Waiting \/ Len(started) >= Len(requested)
  <2>1. PlayerInv => Len(started) \in Nat /\ Len(requested) \in Nat
    BY LenProperties DEF PlayerInv, TypeOK
  <2>2. QED
    BY <2>1 DEF PlayerInv, TypeOK, Waiting
<1>3. PlayerInv /\ [Next]_vars /\ Waiting /\ Waiting' =>
        /\ soundPc = "off" => ((soundPc = "off")' \/ Looping') /\ (<<Play>>_vars => Looping')
        /\ Looping => (Looping' \/ Ended') /\ (<<SoundTask>>_vars => Ended')
        /\ Ended => (Ended' \/ Choosing') /\ (<<SoundTask>>_vars => Choosing')
        /\ Selected => (Selected' \/ Looping') /\ (<<SoundTask>>_vars => Looping')
  BY StepWaiting
<1>4. PlayerInv /\ [Next]_vars /\ Waiting /\ Waiting' /\ Choosing =>
        /\ Choosing' \/ <<SQ!Start>>_(SQ!vars)
        /\ <<SoundTask>>_vars => <<SQ!Start>>_(SQ!vars)
  BY StepWaiting
<1>5. Looping \/ Ended \/ Choosing \/ Selected => ~(soundPc = "off")
  OBVIOUS
<1> HIDE DEF Looping, Ended, Choosing, Selected
<1>6. QED
  BY <1>1, <1>2, <1>3, <1>4, <1>5, PTL DEF PlayerGoesOn, NextIsStarted

\* The guards and Spec's fairness together.
LEMMA PlayerIsScheduled == Spec /\ []GuardsEnable => PlayerGoesOn
BY PTL DEF Spec, GuardsEnable, PlayerGoesOn

\* For any sounds, and any number of them, the player keeps the whole promise
\* of SoundQueue: each sound is started, once and in its turn, and in the end.
THEOREM PlayerServesQueue == Spec /\ []GuardsEnable => ImplementsSoundQueue
<1>1. Spec => Init /\ [][Next]_vars
  BY PTL DEF Spec
<1>2. Spec /\ []GuardsEnable => NextIsStarted
  BY <1>1, PlayerIsScheduled, NextIsStartedWhileTaskGoesOn, PTL
<1>3. Len(started) < Len(requested) => ~(Len(started) >= Len(requested))
  OBVIOUS
<1>4. []GuardsEnable /\ NextIsStarted => WF_(SQ!vars)(SQ!Start)
  BY <1>3, PTL DEF GuardsEnable, NextIsStarted
<1>5. QED
  BY <1>2, <1>4, PlayerIsSoundQueue, PTL DEF ImplementsSoundQueue, SQ!Spec

\* Who waits for playing() to drop does not wait for ever, even while others
\* go on enqueueing.
THEOREM PlayingDrops == Spec /\ []GuardsEnable => FlagDrops
<1>1. Spec => Init /\ [][Next]_vars
  BY PTL DEF Spec
<1>2. QED
  BY <1>1, PlayerIsScheduled, FlagDropsWhileTaskGoesOn, PTL
=============================================================================
