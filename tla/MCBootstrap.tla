---------------------------- MODULE MCBootstrap -----------------------------
(* Bootstrap on a small instance: two roles stand for the three system roles. *)
EXTENDS Bootstrap, TLC

CONSTANTS STAFF, view, manage

SmallCatalogue == (ADMIN :> {view, manage}) @@ (STAFF :> {view})
=============================================================================
