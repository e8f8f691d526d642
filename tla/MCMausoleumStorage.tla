------------------------- MODULE MCMausoleumStorage -------------------------
(***************************************************************************)
(* What a behaviour of MausoleumStorage may spend: many writes of pages,   *)
(* and flushes of them that fail; two pins of a page; two transactions     *)
(* with images, with a checkpoint, or over three processes; writes of the  *)
(* log that fail, under transactions and under checkpoints.                *)
(***************************************************************************)
EXTENDS MausoleumStorage

Budget(n, w, p, t, c, f) ==
  [opens |-> n, writes |-> w, pins |-> p, txns |-> t, checkpoints |-> c, faults |-> f]
MCBudgets ==
  {Budget(3, 4, 1, 0, 1, {"flush"}), Budget(1, 4, 2, 0, 0, {}),
   Budget(2, 2, 1, 2, 0, {}), Budget(2, 1, 1, 2, 1, {}),
   Budget(3, 1, 1, 2, 0, {}), Budget(3, 1, 1, 1, 1, {}),
   Budget(2, 1, 1, 2, 0, {"log"}), Budget(2, 2, 1, 1, 0, {"log"}),
   Budget(2, 1, 1, 1, 1, {"log"})}

=============================================================================
