------------------------------- MODULE MCServer -------------------------------
(* Module Server with the streams of a few producers and consumers. *)
EXTENDS Server
=============================================================================
