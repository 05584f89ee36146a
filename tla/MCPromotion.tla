----------------------------- MODULE MCPromotion -----------------------------
(***************************************************************************)
(* A small instance of Promotion.                                          *)
(***************************************************************************)
EXTENDS Promotion, TLC

CONSTANTS m1, m2, r1, r2

\* One run of one model, and one of the other or of both.
SmallSelects == r1 :> {{m1}} @@ r2 :> {{m2}, {m1, m2}}

SmallOptions ==
    { [waive |-> FALSE, require |-> TRUE, clean |-> TRUE],
      [waive |-> TRUE, require |-> FALSE, clean |-> TRUE] }
=============================================================================
