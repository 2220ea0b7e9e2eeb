---------------------------- MODULE MCBookStore ----------------------------
(* Small instances of BookStore for TLC. *)
EXTENDS BookStore
=============================================================================
