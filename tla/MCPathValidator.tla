--------------------------- MODULE MCPathValidator ---------------------------
(* Constants of the model-checking runs of PathValidator.                  *)
EXTENDS PathValidator, TLC

Symmetry == Permutations(Thread)

Entry(p, filter, suppress, min, max) ==
  [path |-> p, filter |-> filter, suppress |-> suppress, silent |-> Unset,
   min |-> min, max |-> max]

(* Bounds that are whole seconds, keys that are missing, a path listed     *)
(* twice, and an object without a path.                                    *)
WholeSeconds ==
  { <<Entry("p", FALSE, TRUE, 8, 16), Entry("q", Unset, Unset, Unset, Unset)>>,
    <<Entry("p", FALSE, Unset, 4, 8), Entry("p", Unset, TRUE, 12, 20)>>,
    <<Entry("p", TRUE, TRUE, 8, 16), Entry(Unset, Unset, Unset, Unset, Unset)>>,
    <<>> }

(* None, and below, between and above the bounds, and on both sides of a   *)
(* half.                                                                   *)
Frequencies == {0, 3, 9, 10, 23}
=============================================================================
