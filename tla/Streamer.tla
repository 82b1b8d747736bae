------------------------------ MODULE Streamer -------------------------------
(***************************************************************************)
(* The node's UDP packet batching                                          *)
(* (src/tachyon-node/src/streamer/oracle_packet.rs, oracle_socket.rs).     *)
(*                                                                         *)
(* One caller thread owns a socket made by bind_to (blocking, no read      *)
(* timeout) and one OraclePacketBatch, and calls recv_from and send_to on  *)
(* them.  A packet is named by the order its datagram arrived in (1, 2,    *)
(* ...); DefaultPacket stands for OraclePacket::default(), whose size is   *)
(* 0.  Payload bytes and addresses are left out: no step of either         *)
(* function branches on them, and every received size fits the 1280-byte   *)
(* buffer, so the data(0..size) check of send_to always succeeds.          *)
(*                                                                         *)
(* The socket is the kernel's: datagrams wait in a receive buffer of       *)
(* SocketBuf datagrams (later ones are dropped), and a pending socket      *)
(* error is returned by the next recv.  A recv on an empty buffer blocks   *)
(* in blocking mode and returns WouldBlock in non-blocking mode.  elapsed  *)
(* is start.elapsed() > max_wait; the clock sets it at some point of each  *)
(* recv_from call.                                                         *)
(***************************************************************************)
EXTENDS Naturals, Sequences

CONSTANTS
    PacketsPerBatch,  \* PACKETS_PER_BATCH
    BatchGrowth,      \* the 32 packets recv_from grows the batch by
    SocketBuf,        \* datagrams the socket's receive buffer holds
    MaxArrivals,      \* bound on datagrams arriving at the socket
    MaxCalls          \* bound on calls of recv_from and send_to

VARIABLES
    spc,          \* "idle", or "recv" inside recv_from's loop
    callResult,   \* what the last call returned, "none" while one runs
    nonblocking,  \* the socket's non-blocking flag
    sockErr,      \* a socket error is pending
    elapsed,      \* start.elapsed() > max_wait in the running call
    ri,           \* recv_from's i
    batch,        \* the caller's batch, as packet names
    arrived,      \* datagrams that reached the buffer: 1..arrived
    taken,        \* datagrams read from it: 1..taken
    callStart,    \* taken when the running recv_from began
    sent,         \* the packets send_to has sent, in order
    calls         \* calls made

streamerVars == <<spc, callResult, nonblocking, sockErr, elapsed, ri, batch,
                  arrived, taken, callStart, sent, calls>>

DefaultPacket == 0

StreamerInit ==
    /\ spc = "idle"
    /\ callResult = "none"
    /\ nonblocking = FALSE
    /\ sockErr = FALSE
    /\ elapsed = FALSE
    /\ ri = 0
    /\ batch = <<>>
    /\ arrived = 0
    /\ taken = 0
    /\ callStart = 0
    /\ sent = <<>>
    /\ calls = 0

(* OraclePacketBatch::resize: Vec::resize, cutting the batch or padding   *)
(* it with default packets.                                                *)
Resize(b, n) ==
    IF n <= Len(b) THEN SubSeq(b, 1, n)
    ELSE b \o [k \in 1..(n - Len(b)) |-> DefaultPacket]

(* min(i + 32, PACKETS_PER_BATCH).                                         *)
TargetSize(i) ==
    IF i + BatchGrowth <= PacketsPerBatch THEN i + BatchGrowth ELSE PacketsPerBatch

(* A datagram reaches the socket's buffer, or is dropped when it is full. *)
Arrive ==
    /\ arrived < MaxArrivals /\ arrived - taken < SocketBuf
    /\ arrived' = arrived + 1
    /\ UNCHANGED <<spc, callResult, nonblocking, sockErr, elapsed, ri, batch,
                   taken, callStart, sent, calls>>

(* An error (an ICMP report, an interrupted call) becomes pending.        *)
SocketError ==
    /\ ~sockErr
    /\ sockErr' = TRUE
    /\ UNCHANGED <<spc, callResult, nonblocking, elapsed, ri, batch, arrived,
                   taken, callStart, sent, calls>>

(* The clock passes start + max_wait.                                      *)
WaitElapses ==
    /\ spc = "recv" /\ ~elapsed
    /\ elapsed' = TRUE
    /\ UNCHANGED <<spc, callResult, nonblocking, sockErr, ri, batch, arrived,
                   taken, callStart, sent, calls>>

(* recv_from, entry: set_nonblocking(false)? and start = Instant::now().  *)
RecvBegin ==
    /\ spc = "idle" /\ calls < MaxCalls
    /\ calls' = calls + 1
    /\ \/ /\ callResult' = "recv_err"
          /\ UNCHANGED <<spc, nonblocking, elapsed, ri, callStart>>
       \/ /\ spc' = "recv" /\ nonblocking' = FALSE /\ elapsed' = FALSE
          /\ ri' = 0 /\ callStart' = taken
          /\ callResult' = "none"
    /\ UNCHANGED <<sockErr, batch, arrived, taken, sent>>

(* The loop's exit: batch.truncate(i) and Ok(i).                          *)
Truncate(b, n) == IF n <= Len(b) THEN SubSeq(b, 1, n) ELSE b

(* A variant of the exit that returns Ok(i) without truncating (mutant).  *)
ReturnOkUntruncated(b, n) ==
    /\ batch' = b
    /\ spc' = "idle" /\ callResult' = "recv_ok"

ReturnOk(b, n) ==
    /\ batch' = Truncate(b, n)
    /\ spc' = "idle" /\ callResult' = "recv_ok"

(* A variant of the break condition that lets i reach the batch size      *)
(* (mutant).                                                               *)
LoopDoneLate(i) == elapsed \/ i > PacketsPerBatch

(* The loop's break condition after a datagram is read.                  *)
LoopDone(i) == elapsed \/ i >= PacketsPerBatch

(* One turn of the loop that reads a datagram: it is written to batch[i], *)
(* i += 1; after the first, set_nonblocking(true)? (its failure returns   *)
(* the error, the batch neither truncated nor the datagram handed back);  *)
(* then the loop breaks when max_wait has passed or the batch is full.    *)
RecvPacket ==
    LET b == [Resize(batch, TargetSize(ri)) EXCEPT ![ri + 1] = taken + 1]
        i == ri + 1
    IN  /\ spc = "recv" /\ ~sockErr /\ taken < arrived
        /\ taken' = taken + 1 /\ ri' = i
        /\ \/ /\ i = 1
              /\ batch' = b /\ spc' = "idle" /\ callResult' = "recv_err"
              /\ UNCHANGED nonblocking
           \/ /\ nonblocking' = (i = 1 \/ nonblocking)
              /\ IF LoopDone(i)
                 THEN ReturnOk(b, i)
                 ELSE batch' = b /\ UNCHANGED <<spc, callResult>>
        /\ UNCHANGED <<sockErr, elapsed, arrived, callStart, sent, calls>>

(* A variant of the WouldBlock turn that never checks max_wait (mutant).  *)
RecvWouldBlockSpin ==
    /\ spc = "recv" /\ nonblocking /\ ~sockErr /\ taken = arrived
    /\ batch' = Resize(batch, TargetSize(ri)) /\ UNCHANGED <<spc, callResult>>
    /\ UNCHANGED <<nonblocking, sockErr, elapsed, ri, arrived, taken,
                   callStart, sent, calls>>

(* A turn whose recv finds the buffer empty in non-blocking mode: on      *)
(* WouldBlock the loop goes round again unless max_wait has passed.       *)
RecvWouldBlock ==
    /\ spc = "recv" /\ nonblocking /\ ~sockErr /\ taken = arrived
    /\ IF elapsed
       THEN ReturnOk(Resize(batch, TargetSize(ri)), ri)
       ELSE batch' = Resize(batch, TargetSize(ri)) /\ UNCHANGED <<spc, callResult>>
    /\ UNCHANGED <<nonblocking, sockErr, elapsed, ri, arrived, taken,
                   callStart, sent, calls>>

(* A turn whose recv returns the pending error: with i > 0 the loop        *)
(* breaks and returns Ok(i); with i = 0 recv_from returns the error, the  *)
(* batch left at its resized length.                                      *)
RecvError ==
    /\ spc = "recv" /\ sockErr
    /\ sockErr' = FALSE
    /\ IF ri > 0
       THEN ReturnOk(Resize(batch, TargetSize(ri)), ri)
       ELSE /\ batch' = Resize(batch, TargetSize(ri))
            /\ spc' = "idle" /\ callResult' = "recv_err"
    /\ UNCHANGED <<nonblocking, elapsed, ri, arrived, taken, callStart,
                   sent, calls>>

RecvLoop == RecvPacket \/ RecvWouldBlock \/ RecvError

(* send_to: one send_to per packet of the batch in order, stopping at the *)
(* first that fails and returning its error.                              *)
SendTo ==
    /\ spc = "idle" /\ calls < MaxCalls
    /\ calls' = calls + 1
    /\ \E n \in 0..Len(batch) :
          /\ sent' = sent \o SubSeq(batch, 1, n)
          /\ \/ n = Len(batch) /\ callResult' = "send_ok"
             \/ callResult' = "send_err"
    /\ UNCHANGED <<spc, nonblocking, sockErr, elapsed, ri, batch, arrived,
                   taken, callStart>>

StreamerNext ==
    \/ Arrive \/ SocketError \/ WaitElapses
    \/ RecvBegin \/ RecvLoop \/ SendTo

(* The thread keeps running its loop, and time passes.                    *)
StreamerFairness == WF_streamerVars(RecvLoop) /\ WF_streamerVars(WaitElapses)

-----------------------------------------------------------------------------
(* recv_from indexes batch[i] only below the length it just resized the   *)
(* batch to: i stays under PACKETS_PER_BATCH inside the loop, so          *)
(* min(i + 32, PACKETS_PER_BATCH) always exceeds it and the index never   *)
(* panics, however many datagrams a call reads.                            *)
BatchIndexInBounds == spc = "recv" => ri < TargetSize(ri)

(* When recv_from returns Ok(i), the batch holds exactly the i datagrams  *)
(* the call read from the socket, in the order they arrived: none lost,   *)
(* none left over from an earlier call, no default packet after them.     *)
RecvReturnsReceived ==
    callResult = "recv_ok" =>
        /\ ri >= 1 /\ taken = callStart + ri
        /\ batch = [k \in 1..ri |-> callStart + k]

(* Once recv_from has read a datagram it returns, whatever the socket      *)
(* does next: the non-blocking loop spins on WouldBlock only until         *)
(* max_wait has passed.                                                     *)
RecvReturns == (spc = "recv" /\ ri > 0) ~> (spc = "idle")
=============================================================================
