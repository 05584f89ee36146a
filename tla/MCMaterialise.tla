---------------------------- MODULE MCMaterialise ----------------------------
(***************************************************************************)
(* Small instances of Materialise.  Runs, catalogs and versions are        *)
(* interchangeable; environments are not.                                  *)
(***************************************************************************)
EXTENDS Materialise, TLC

CONSTANTS r1, r2, c1, c2, v1, v2

Symmetric == {p @@ q @@ s : p \in Permutations(Runs),
                            q \in Permutations(Catalogs),
                            s \in Permutations(Versions)}
=============================================================================
