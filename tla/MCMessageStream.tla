--------------------------- MODULE MCMessageStream ---------------------------
(* Constants of the model-checking runs of MessageStream: no limit, small  *)
(* ones, a negative one, and a time that is still to come.                 *)
EXTENDS MessageStream

SomeRecordLimits == {-1, 0, 1, 2, 3}

SomeTimeLimits == {-1, 0, 2, 12}
=============================================================================
