---- MODULE MCChatTurn ----
(* ChatTurn for TLC: turns are interchangeable where no liveness is checked. *)
EXTENDS ChatTurn, TLC
TurnSymmetry == Permutations(Turn)
====
