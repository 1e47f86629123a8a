---------------------------- MODULE MCEventLoop ----------------------------
(* A CLI client and a scraper, a few packets, both programs. *)
EXTENDS EventLoop
=============================================================================
