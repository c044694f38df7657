---------------------------- MODULE MCMpsReader ----------------------------
(***************************************************************************)
(* The MPS reader by itself, for what the repository says of its lookups.  *)
(***************************************************************************)
EXTENDS MpsReader, MpsFiles

NoJunk == {{}}
=============================================================================
