------------------------------- MODULE Absent -------------------------------
(* What the code writes as null: a value nobody reported, never a zero. *)
EXTENDS Naturals

CONSTANT Null

ASSUME AbsentIsNoNumber == Null \notin Nat
=============================================================================
