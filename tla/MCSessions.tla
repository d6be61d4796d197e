----------------------------- MODULE MCSessions ------------------------------
(* Two browsers, one user each; the second one also tries to log in as the  *)
(* first user, with a password that is not accepted.                        *)
EXTENDS Sessions, TLC

CONSTANTS l1, l2, l3, b1, b2, anna, ben

MCBy    == l1 :> b1 @@ l2 :> b2 @@ l3 :> b2
MCName  == l1 :> anna @@ l2 :> ben @@ l3 :> anna
MCRight == {l1, l2}
=============================================================================
