---------------------------- MODULE AnthropicStream ----------------------------
(***************************************************************************)
(* What a translated stream promises to an Anthropic client, whatever the  *)
(* upstream protocol: one message_start, blocks that only grow until they  *)
(* are stopped, message_stop only when every block is stopped, and nothing *)
(* at all after message_stop, an error event or a hang-up.                 *)
(***************************************************************************)
EXTENDS AnthropicBlocks

VARIABLES phase,    \* "streaming", "stopped", "failed" or "hungup"
          started,  \* message_start was sent
          wire      \* the blocks the client has been told about

vars == <<phase, started, wire>>

Init == phase = "streaming" /\ ~started /\ wire = <<>>

\* Any number of block events; none before message_start.
Write ==
    /\ phase = "streaming"
    /\ started => started'
    /\ Extends(wire, wire')
    /\ wire' # <<>> => started'

Deliver == Write /\ phase' = "streaming"

\* message_delta and message_stop.
Stop ==
    /\ Write
    /\ phase' = "stopped"
    /\ started'
    /\ \A i \in 1..Len(wire') : Sealed(wire'[i])

\* An error event, after what the failing step had already sent.
Fail == Write /\ phase' = "failed"

\* The client goes away.
HangUp ==
    /\ phase = "streaming"
    /\ phase' = "hungup"
    /\ UNCHANGED <<started, wire>>

Next == Deliver \/ Stop \/ Fail \/ HangUp

Spec == Init /\ [][Next]_vars
=================================================================================
