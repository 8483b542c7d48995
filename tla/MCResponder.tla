---------------------------- MODULE MCResponder ----------------------------
(* A small instance of Responder for TLC.                                  *)
EXTENDS Responder
=============================================================================
