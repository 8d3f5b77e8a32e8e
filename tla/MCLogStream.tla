----------------------------- MODULE MCLogStream -----------------------------
(* Two browsers: one may clear the file or start a deployment while the     *)
(* other one reads it.                                                      *)
EXTENDS LogStream

CONSTANTS b1, b2
=============================================================================
