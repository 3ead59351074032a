---------------------------- MODULE MCTransport ----------------------------
(* Transport with the values of Transport_both.cfg.                         *)
EXTENDS Transport
=============================================================================
