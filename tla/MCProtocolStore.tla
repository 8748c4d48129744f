-------------------------- MODULE MCProtocolStore --------------------------
(* ProtocolStore with the FTSO protocol, the one of its requests.          *)
EXTENDS ProtocolStore

OnlyFtso == {"ftso"}

=============================================================================
