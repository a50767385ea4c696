------------------------------- MODULE MCSseReader -------------------------------
(***************************************************************************)
(* Two payloads, so that the lines of an event can be told apart.          *)
(***************************************************************************)
EXTENDS SseReader

CONSTANTS d1, d2

MCData == {d1, d2}
=================================================================================
