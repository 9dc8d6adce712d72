------------------------ MODULE MCCredentialRotation ------------------------
(* CredentialRotation and what it promises, for TLC. *)
EXTENDS RotationRefinement
=============================================================================
