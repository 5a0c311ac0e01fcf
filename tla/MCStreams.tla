------------------------------ MODULE MCStreams ------------------------------
(* Small instances of Streams: instances a (which creates the stream) b, c. *)
EXTENDS Streams

CONSTANTS a, b, c
=============================================================================
