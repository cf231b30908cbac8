------------------------------ MODULE MCStudio ------------------------------
(***************************************************************************)
(* A picture and a clip for one user, each a dollar.                         *)
(***************************************************************************)
EXTENDS Studio, TLC

CONSTANTS picture, clip

Prices == picture :> 1 @@ clip :> 1
=============================================================================
