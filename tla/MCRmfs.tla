------------------------------- MODULE MCRmfs -------------------------------
(* Small volumes for TLC. *)
EXTENDS Rmfs

(* Nothing, a part of a block, and more than a block. *)
SmallPayloads == {<<>>, <<2>>, <<3, 3, 3>>}
=============================================================================
