-------------------------- MODULE MCAdminTransport --------------------------
(* AdminTransport on two mutations and a read, each tried up to twice. *)
EXTENDS AdminTransport
=============================================================================
