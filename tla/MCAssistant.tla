---------------------------- MODULE MCAssistant ----------------------------
(* One conversation of an earlier visit and a new one, and a user who does *)
(* everything.                                                             *)
EXTENDS Assistant

Everything == {"open", "remove", "new", "send", "return", "sign", "reload"}
=============================================================================
