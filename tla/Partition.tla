------------------------------ MODULE Partition ------------------------------
(***************************************************************************)
(* Block partition of the iterations 0 .. trip-1 over a team, as computed  *)
(* by the loops of runtime/li_par_pool.c (static chunks and the per-worker *)
(* ranges of the stealing schedule) and runtime/li_par_reduce.c: worker w  *)
(* gets trip / team iterations and the first trip % team workers one more. *)
(* The code accumulates the first index in `cur`; PartitionProofs shows    *)
(* that the closed form below is what that loop computes.                  *)
(***************************************************************************)
EXTENDS Integers

\* The number of iterations of worker w.
BlockLen(trip, team, w) ==
  (trip \div team) + (IF w < trip % team THEN 1 ELSE 0)

BlockBeginNoExtra(trip, team, w) ==            \* mutant: the remainder is forgotten
  w * (trip \div team)

\* The first iteration of worker w: the value of `cur` when the loop gets to w.
BlockBegin(trip, team, w) ==
  w * (trip \div team) + (IF w < trip % team THEN w ELSE trip % team)

BlockEnd(trip, team, w) ==
  BlockBegin(trip, team, w) + BlockLen(trip, team, w)

\* The iterations of worker w, as a set.
Block(trip, team, w) ==
  BlockBegin(trip, team, w) .. (BlockEnd(trip, team, w) - 1)
=============================================================================
