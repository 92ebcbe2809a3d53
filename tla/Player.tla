------------------------------- MODULE Player -------------------------------
(***************************************************************************)
(* The audio player (src/audio/Player.cpp).  Its "sound" task, on a core   *)
(* of its own, feeds the audio generator and takes the next file from the  *)
(* queue when one ends; other tasks enqueue files and poll playing().      *)
(*                                                                         *)
(* The queue is under queueMutex, the flag isPlaying under nothing: each   *)
(* assignment of it that another task can see is a step of its own.        *)
(***************************************************************************)
EXTENDS Naturals, Sequences

CONSTANTS
  Sounds,       \* the paths a waypoint can name
  MaxRequests   \* bound: files enqueued while the power stays on

ASSUME PlayerConstantsOK == MaxRequests \in Nat

VARIABLES
  fileQueue,
  running,    \* audioGenerator->isRunning()
  isPlaying,
  soundPc,    \* where the sound task is; "off" before play()
  requested,  \* history: the files enqueued since power-on
  started     \* history: the files given to the audio generator since then

vars == <<fileQueue, running, isPlaying, soundPc, requested, started>>

TypeOK ==
  /\ fileQueue \in Seq(Sounds)
  /\ running \in BOOLEAN
  /\ isPlaying \in BOOLEAN
  /\ soundPc \in {"off", "loop", "ended", "playNext", "selected"}
  /\ requested \in Seq(Sounds)
  /\ started \in Seq(Sounds)

\* init(): begin() on a source with no file open leaves the generator stopped.
Init ==
  /\ fileQueue = <<>>
  /\ running = FALSE
  /\ isPlaying = FALSE
  /\ soundPc = "off"
  /\ requested = <<>>
  /\ started = <<>>

-----------------------------------------------------------------------------
(* play() and the sound task *)

Play ==
  /\ soundPc = "off"
  /\ soundPc' = "loop"
  /\ UNCHANGED <<fileQueue, running, isPlaying, requested, started>>

\* audioGenerator->loop() returns FALSE: the file ended, or none was running.
\* While it returns TRUE nothing changes here.
GeneratorEnds ==
  /\ soundPc = "loop"
  /\ running' = FALSE
  /\ soundPc' = "ended"
  /\ UNCHANGED <<fileQueue, isPlaying, requested, started>>

\* Mutant: the sound task does not clear the flag when a file ends.
StopButKeepFlag ==
  /\ soundPc = "ended"
  /\ soundPc' = "playNext"
  /\ UNCHANGED <<fileQueue, running, isPlaying, requested, started>>

\* Mutant: the file is rewound and begun again.
ReplayFile ==
  /\ soundPc = "ended"
  /\ running' = isPlaying
  /\ soundPc' = IF isPlaying THEN "loop" ELSE "playNext"
  /\ UNCHANGED <<fileQueue, isPlaying, requested, started>>

\* stop() and isPlaying = false, here and again under !isRunning().
StopGenerator ==
  /\ soundPc = "ended"
  /\ isPlaying' = FALSE
  /\ soundPc' = "playNext"
  /\ UNCHANGED <<fileQueue, running, requested, started>>

\* playNext() finds the queue empty.
QueueEmpty ==
  /\ soundPc = "playNext"
  /\ fileQueue = <<>>
  /\ isPlaying' = FALSE
  /\ soundPc' = "loop"
  /\ UNCHANGED <<fileQueue, running, requested, started>>

\* Mutant: the last file enqueued is taken instead of the first.
SelectLast ==
  /\ soundPc = "playNext"
  /\ fileQueue # <<>>
  /\ started' = Append(started, fileQueue[Len(fileQueue)])
  /\ running' \in BOOLEAN
  /\ soundPc' = "selected"
  /\ UNCHANGED <<fileQueue, isPlaying, requested>>

\* playNext() takes queueMutex and selects the front of the queue.  begin()
\* fails, and nothing runs, when there is no such file.
SelectFile ==
  /\ soundPc = "playNext"
  /\ fileQueue # <<>>
  /\ started' = Append(started, Head(fileQueue))
  /\ running' \in BOOLEAN
  /\ soundPc' = "selected"
  /\ UNCHANGED <<fileQueue, isPlaying, requested>>

\* Mutant: the queue is not popped.
FinishWithoutPop ==
  /\ soundPc = "selected"
  /\ isPlaying' = TRUE
  /\ soundPc' = "loop"
  /\ UNCHANGED <<fileQueue, running, requested, started>>

\* The rest of playNext(): pop, raise the flag, release queueMutex.
FinishSelect ==
  /\ soundPc = "selected"
  /\ fileQueue' = Tail(fileQueue)
  /\ isPlaying' = TRUE
  /\ soundPc' = "loop"
  /\ UNCHANGED <<running, requested, started>>

SoundTask == GeneratorEnds \/ StopGenerator \/ QueueEmpty \/ SelectFile \/ FinishSelect

-----------------------------------------------------------------------------
(* Other tasks *)

\* enqueueFile() by another task; it waits while the sound task holds
\* queueMutex.
EnqueueFile(s) ==
  /\ soundPc # "selected"
  /\ Len(requested) < MaxRequests
  /\ fileQueue' = Append(fileQueue, s)
  /\ requested' = Append(requested, s)
  /\ UNCHANGED <<running, isPlaying, soundPc, started>>

\* Power is cut or the chip restarts: the player is constructed anew.
PowerDown ==
  /\ fileQueue' = <<>> /\ running' = FALSE /\ isPlaying' = FALSE
  /\ soundPc' = "off"
  /\ requested' = <<>> /\ started' = <<>>

Next ==
  \/ Play
  \/ SoundTask
  \/ \E s \in Sounds : EnqueueFile(s)
  \/ PowerDown

\* The sound task is scheduled for ever and every sound file ends; begin()
\* calls play() once the constructor has run.
Spec == Init /\ [][Next]_vars /\ WF_vars(Play) /\ WF_vars(SoundTask)

-----------------------------------------------------------------------------
(* Properties *)

\* The files enqueued that were not yet given to the generator.
Pending == IF soundPc = "selected" THEN Tail(fileQueue) ELSE fileQueue

\* No sound is lost, played twice or played out of its turn: those started,
\* followed by those still waiting, are those that were asked for.
SoundsInOrder == started \o Pending = requested

\* playing() can be FALSE while a file sounds only in the few instructions
\* of playNext() under the lock, and TRUE with no file sounding only until
\* the sound task comes round again.
PlayingFlagFaithful ==
  /\ running /\ ~isPlaying => soundPc = "selected"
  /\ isPlaying /\ ~running => soundPc \in {"loop", "ended"}

\* playing() does not stay up: who waits for it to drop, waits in vain only
\* while files keep coming.
FlagDrops == isPlaying ~> ~isPlaying

\* Strengthens SoundsInOrder enough to be inductive.
PlayerInv ==
  /\ TypeOK
  /\ SoundsInOrder
  /\ PlayingFlagFaithful
  /\ soundPc = "selected" => fileQueue # <<>>
  /\ soundPc \in {"off", "playNext"} => ~running /\ ~isPlaying
  /\ soundPc = "ended" => ~running
  /\ soundPc = "selected" => ~isPlaying

SQ == INSTANCE SoundQueue

\* Every sound is started, once and in its turn, while the power stays on.
ImplementsSoundQueue == SQ!Spec
=============================================================================
