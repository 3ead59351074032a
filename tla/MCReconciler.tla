---------------------------- MODULE MCReconciler ----------------------------
(* The gestures of the reconciler's runs.                                   *)
EXTENDS Reconciler

MCAll == {"skip", "toggle", "script", "row", "album", "server"}
MCRows == {"row", "album"}
=============================================================================
