---------------------------- MODULE MCNativeUpdate ---------------------------
(* Two executors and two journal roots; the fence moves with the second grant. *)
EXTENDS NativeUpdate

CONSTANTS e1, e2, r1, r2

Fences == <<1, 2>>
=============================================================================
