----------------------------- MODULE MCRethWait -----------------------------
(* The poll loop of waitForRethContainerAt with a timeout of a few polls. *)
EXTENDS RethWait
=============================================================================
