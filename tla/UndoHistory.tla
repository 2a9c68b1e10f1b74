----------------------------- MODULE UndoHistory -----------------------------
(***************************************************************************)
(* What the snapshot history of one table promises its users: a linear     *)
(* undo list.  A new step discards what had been undone and is appended;   *)
(* the list keeps the last Cap states; undo, redo and goto only move the   *)
(* position.  Nothing else ever changes the list.  Module Transform, the   *)
(* history that backend/services/transform_service.py keeps in Redis,      *)
(* implements this specification.                                          *)
(***************************************************************************)
EXTENDS Integers, Sequences

CONSTANTS
  Contents,   (* what a table may hold                                     *)
  Cap         (* how many states the list keeps                            *)

VARIABLES
  states,     (* the remembered states, the oldest first                   *)
  at          (* the position of the current one, from 0; -1: none yet     *)

vars == <<states, at>>

KeepLast(s) == SubSeq(s, IF Len(s) > Cap THEN Len(s) - Cap + 1 ELSE 1, Len(s))

Init ==
  /\ states = <<>>
  /\ at = -1

(* The first step of a table also remembers the state it started from.     *)
First(was, becomes) ==
  /\ states = <<>>
  /\ states' = <<was, becomes>>
  /\ at' = 1

Do(becomes) ==
  /\ states # <<>>
  /\ states' = KeepLast(Append(SubSeq(states, 1, at + 1), becomes))
  /\ at' = Len(states') - 1

Move(position) ==
  /\ position \in 0 .. Len(states) - 1
  /\ at' = position
  /\ UNCHANGED states

Next ==
  \/ \E was, becomes \in Contents : First(was, becomes)
  \/ \E becomes \in Contents : Do(becomes)
  \/ \E position \in 0 .. Len(states) - 1 : Move(position)

Spec == Init /\ [][Next]_vars

=============================================================================
