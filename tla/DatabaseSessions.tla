-------------------------- MODULE DatabaseSessions ---------------------------
(***************************************************************************)
(* core/database.py: get_db gives each HTTP request a session of its own,  *)
(* closed when the request ends, whatever its answer.  A session is idle   *)
(* between two requests.                                                   *)
(***************************************************************************)
CONSTANT Sessions   \* database sessions, one per HTTP request in progress
=============================================================================
