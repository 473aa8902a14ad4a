------------------------------- MODULE MCRuby -------------------------------
(* The instance of RubyBinding: one thread with every function.             *)
EXTENDS RubyBinding, MCSession
=============================================================================
