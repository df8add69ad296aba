----------------------------- MODULE MCSingleton -----------------------------
(* Instances of SingletonTask: three submissions of one task with the same  *)
(* arguments and one with other arguments, over two slots.                  *)
EXTENDS SingletonTask

CONSTANTS c1, c2, c3, d1, k1, k2

MCKeyOf == [c \in Call |-> IF c = d1 THEN k2 ELSE k1]
=============================================================================
