-------------------------------- MODULE Bridge --------------------------------
(***************************************************************************)
(* The bridge program (src/l2-contracts/programs/tachyon-bridge/src/       *)
(* lib.rs): one BridgeState account (seed "bridge").  send_cross_chain    *)
(* builds a CrossChainMessage whose nonce is total_messages_sent and      *)
(* posts it nowhere (the Wormhole call is a TODO); receive_cross_chain    *)
(* accepts any message carrying at least two signatures, none verified,   *)
(* and records nothing of it but a count.  The message contents are left  *)
(* out, since no instruction keeps them.                                   *)
(***************************************************************************)
EXTENDS Naturals

CONSTANTS
    BridgeSigners,  \* keys that sign or are passed as authority
    SigCounts,      \* lengths of the signatures vector a relayer passes
    MaxBridgeMsgs   \* bound on messages sent and received

VARIABLE bridge   \* BridgeState, or [exists |-> FALSE] before initialize

NoBridge == [exists |-> FALSE]

BridgeInit == bridge = NoBridge

(* initialize: `init` of the PDA by whoever pays first, with any          *)
(* authority; supported_chains is only logged.                             *)
InitializeBridge(authority) ==
    /\ ~bridge.exists
    /\ bridge' = [exists |-> TRUE, authority |-> authority,
                  total_messages_sent |-> 0, total_messages_received |-> 0,
                  is_active |-> TRUE]

(* send_cross_chain: any signer while active; the message takes the       *)
(* current count as its nonce.                                             *)
SendCrossChain ==
    /\ bridge.exists /\ bridge.is_active
    /\ bridge.total_messages_sent < MaxBridgeMsgs
    /\ bridge' = [bridge EXCEPT !.total_messages_sent = @ + 1]

(* receive_cross_chain: no signer, any message, at least two signatures,  *)
(* while active.                                                           *)
ReceiveCrossChain(sigCount) ==
    /\ bridge.exists /\ bridge.is_active
    /\ sigCount >= 2
    /\ bridge.total_messages_received < MaxBridgeMsgs
    /\ bridge' = [bridge EXCEPT !.total_messages_received = @ + 1]

(* add_chain: authority only, and changes nothing.                         *)
AddChain(signer) ==
    /\ bridge.exists /\ signer = bridge.authority
    /\ UNCHANGED bridge

(* set_active: authority only.                                             *)
SetActive(signer, b) ==
    /\ bridge.exists /\ signer = bridge.authority
    /\ bridge' = [bridge EXCEPT !.is_active = b]

BridgeNext ==
    \/ \E k \in BridgeSigners : InitializeBridge(k)
    \/ SendCrossChain
    \/ \E c \in SigCounts : ReceiveCrossChain(c)
    \/ \E k \in BridgeSigners : AddChain(k)
    \/ \E k \in BridgeSigners, b \in BOOLEAN : SetActive(k, b)
=============================================================================
