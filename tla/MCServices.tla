----------------------------- MODULE MCServices -----------------------------
(***************************************************************************)
(* Services for TLC, with the inputs that each part has for itself.        *)
(***************************************************************************)
EXTENDS Services, MCConfig, MCDispatch, MCRag, MCUploads, MCTools
=============================================================================
