----------------------------- MODULE MCIpcConn -----------------------------
(* A connection with a few requests, which their callers may give up       *)
(* at any await.                                                           *)
EXTENDS IpcConn

Anywhere == {"header", "body", "wait"}
=============================================================================
