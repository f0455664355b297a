----------------------------- MODULE MobyEvents -----------------------------
(***************************************************************************)
(* pkg/provider/internal/mobyevents: the goroutine behind the events of    *)
(* the Docker, Podman and Swarm providers.  It dials the events API, hands *)
(* what it reads to build and offers the result on an unbuffered channel;  *)
(* when the connection drops it waits and dials again, for ever.  Time is  *)
(* left out: the backoff ends at some moment.                              *)
(***************************************************************************)
EXTENDS ProviderCalls

(* A subscription adds to the stream its connection and the messages on it *)
(* that were not read yet.                                                 *)
NewMobyStream ==
    [chan |-> NewStream.chan, cancelled |-> FALSE, out |-> "none", owed |-> 0,
     conn |-> "dial", wire |-> <<>>]

Streaming == stream.chan = "open" /\ UNCHANGED <<cfg, work, calls, asked>>

(* dial: from here on the platform's messages reach this connection. *)
Dial ==
    /\ Streaming
    /\ stream.conn = "dial"
    /\ stream' = [stream EXCEPT !.conn = "open"]

(* The platform's side of a connection: messages that pass the filter of   *)
(* the subscription are sent; falls is the number of stops they are about. *)
Emit(msgs, falls) ==
    /\ Len(stream.wire) < MaxWire
    /\ stream' = IF stream.conn # "open" \/ stream.chan # "open" THEN stream
                 ELSE [stream EXCEPT !.wire = @ \o msgs, !.owed = @ + falls]

(* The connection ends, with an error or without, while consume is in its  *)
(* select; what was not read yet is lost, and so is what happens until the *)
(* next dial.                                                              *)
Drop ==
    /\ Streaming
    /\ stream.conn = "open"
    /\ stream.out = "none"
    /\ stream' = [stream EXCEPT !.conn = "backoff", !.wire = <<>>, !.owed = 0]

(* linearBackoff is over. *)
Redial ==
    /\ Streaming
    /\ stream.conn = "backoff"
    /\ stream' = [stream EXCEPT !.conn = "dial"]

(* consume reads a message and offers event, what build makes of it, or    *)
(* "none".                                                                 *)
Consume(event) ==
    /\ Streaming
    /\ stream.conn = "open"
    /\ stream.out = "none"
    /\ stream.wire # <<>>
    /\ stream' = [stream EXCEPT !.wire = Tail(@), !.out = event]

(* Mutant of Close: the send does not watch the context. *)
CloseUnlessSending ==
    /\ Streaming
    /\ stream.cancelled
    /\ stream.out = "none"
    /\ stream' = [Closed EXCEPT !.conn = "closed", !.wire = <<>>]

(* Every select of the goroutine watches the context: the backoff's, the   *)
(* read's and the send's.                                                  *)
Close ==
    /\ Streaming
    /\ stream.cancelled
    /\ stream' = [Closed EXCEPT !.conn = "closed", !.wire = <<>>]

Serve(event) == Dial \/ Redial \/ Consume(event)
=============================================================================
