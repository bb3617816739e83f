-------------------------- MODULE MCHandlerEngine --------------------------
(* An instance of HandlerEngine for TLC: one session of an agent at a time. *)
EXTENDS HandlerEngine
=============================================================================
