----------------------------- MODULE MCWebServer -----------------------------
(* Model checking instances of WebServer. *)
EXTENDS WebServer
=============================================================================
