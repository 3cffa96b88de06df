------------------------------- MODULE MCFido2 -------------------------------
(***************************************************************************)
(* Instance of Fido2 for TLC: two authenticators with a PIN each.          *)
(***************************************************************************)
EXTENDS Fido2, TLC

CONSTANTS c1, c2, d1, d2, p1, p2

MCManifest == <<d1, d2>>
MCDevicePin == d1 :> p2 @@ d2 :> p1
MCEnrolled == {<<>>, <<d1>>, <<d2>>}

=============================================================================
