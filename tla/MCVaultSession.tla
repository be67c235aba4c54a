--------------------------- MODULE MCVaultSession ---------------------------
(* VaultSession on a few threads, with either authentication method. *)
EXTENDS VaultSession
=============================================================================
