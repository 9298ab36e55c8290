---------------------------- MODULE MCMailQueue ----------------------------
(* Small instances of MailQueue for TLC.                                    *)
EXTENDS MailSafety, TLC

CONSTANTS p1, p2, w1, w2, w3

(* Two loops in one process, one in another.                                *)
TwoAndOne == (w1 :> p1) @@ (w2 :> p1) @@ (w3 :> p2)
=============================================================================
