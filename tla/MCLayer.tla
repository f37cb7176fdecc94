------------------------------ MODULE MCLayer ------------------------------
(* An instance of Layer for TLC: depth four, with siblings. *)
EXTENDS Layer, TLC

CONSTANTS a, b, c, d, e, f

Tree == a :> Root @@ b :> a @@ c :> b @@ d :> a @@ e :> b @@ f :> c
=============================================================================
