---------------------------- MODULE MCUdpReceiver ----------------------------
(* Constants of the model-checking runs of UdpReceiver.                    *)
EXTENDS UdpReceiver, TLC

Symmetry == Permutations(Worker)

(* A path, and another one listed twice.                                   *)
OneOrTwice == {<<"q">>, <<"p", "p">>}

(* All clients ask for the same path.                                      *)
SharedPath == {<<"p">>}
=============================================================================
