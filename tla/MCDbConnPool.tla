---------------------------- MODULE MCDbConnPool ----------------------------
(* DbConnPool with more clients than connections. *)
EXTENDS DbConnPool
=============================================================================
