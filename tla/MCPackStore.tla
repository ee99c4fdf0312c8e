----------------------------- MODULE MCPackStore ----------------------------
(* PackStore with three expansions and two downloads: a second boot finds    *)
(* what the first left.                                                      *)
EXTENDS PackStore
=============================================================================
