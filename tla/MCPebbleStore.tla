---------------------------- MODULE MCPebbleStore ----------------------------
(***************************************************************************)
(* Indexes of three bits; one stable key.                                 *)
(***************************************************************************)
EXTENDS PebbleStore

MCKey == {<<1>>}
=============================================================================
