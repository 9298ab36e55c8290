------------------------------ MODULE MCSignIn ------------------------------
(* Two devices of one wallet, and a client with another.                    *)
EXTENDS SignIn, TLC

CONSTANTS c1, c2, c3, w1, w2, e1

TwoDevices == c1 :> w1 @@ c2 :> w1 @@ c3 :> w2
=============================================================================
