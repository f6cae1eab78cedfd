---------------------------- MODULE MCYaceLifecycle ---------------------------
(* YaceLifecycle on the small instances of MCYaceHandler.                  *)
EXTENDS YaceLifecycle, MCYaceHandler
===============================================================================
