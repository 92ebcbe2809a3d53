----------------------------- MODULE SoundQueue -----------------------------
(***************************************************************************)
(* What the audio player promises to those who enqueue: sounds are started *)
(* one by one, each once, in the order they were asked for, and while the  *)
(* power stays on every one of them is started in the end.                 *)
(***************************************************************************)
EXTENDS Naturals, Sequences

CONSTANT Sounds        \* the paths a waypoint can name

VARIABLES
  requested,  \* the sounds enqueued since power-on, in order
  started     \* the sounds handed to the audio generator, in order

vars == <<requested, started>>

TypeOK == requested \in Seq(Sounds) /\ started \in Seq(Sounds)

Init == requested = <<>> /\ started = <<>>

Request(s) ==
  /\ requested' = Append(requested, s)
  /\ UNCHANGED started

Start ==
  /\ Len(started) < Len(requested)
  /\ started' = Append(started, requested[Len(started) + 1])
  /\ UNCHANGED requested

\* Power-off forgets the sounds that were waiting.
PowerOff == requested' = <<>> /\ started' = <<>>

Next == (\E s \in Sounds : Request(s)) \/ Start \/ PowerOff

Spec == Init /\ [][Next]_vars /\ WF_vars(Start)
=============================================================================
