-------------------------- MODULE MCClientLifecycle --------------------------
(* ClientLifecycle for TLC.                                                 *)
EXTENDS ClientLifecycle

MCAllOps == {"connect", "disconnect", "logout", "reconnect"}

MCHandlers == {"streamend", "paired"}
=============================================================================
