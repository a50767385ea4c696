----------------------------- MODULE MCProxyRequests -----------------------------
(***************************************************************************)
(* Two requests that compete for one connection.                           *)
(***************************************************************************)
EXTENDS ProxyRequests

CONSTANTS r1, r2

MCRequests == {r1, r2}
==================================================================================
