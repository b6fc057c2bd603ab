------------------------------ MODULE MCSpiffs ------------------------------
(* A SPIFFS volume of a few small blocks, for TLC. *)
EXTENDS Spiffs, TLC

MCOpenFlags == {{"R", "W", "CREAT"}, {"R", "W", "CREAT", "TRUNC"}, {"W", "APPEND"}}
MCView == <<f, fil>>
MCData == {<<1>>, <<2, 3, 4>>}
MCSymmetry == Permutations(Handles) \cup Permutations(Names)
=============================================================================
