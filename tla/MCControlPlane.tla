--------------------------- MODULE MCControlPlane ---------------------------
(***************************************************************************)
(* TLC instances of ControlPlane.                                          *)
(***************************************************************************)
EXTENDS ControlPlane, TLC

=============================================================================
