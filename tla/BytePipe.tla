------------------------------ MODULE BytePipe ------------------------------
(***************************************************************************)
(* What one direction of a TCP connection promises: bytes come out in the  *)
(* order in which they went in, each once, and the end of the stream is    *)
(* seen only when everything has come out.  Byte number k has the value k. *)
(***************************************************************************)
EXTENDS Naturals, Sequences

VARIABLES put,      \* number of bytes that went in
          closed,   \* nothing more goes in
          got,      \* the bytes that came out
          eof       \* the end was seen

pipeVars == <<put, closed, got, eof>>

PipeInit == put = 0 /\ closed = FALSE /\ got = <<>> /\ eof = FALSE

(* Both ends may move in one step, since a byte can pass in one call.      *)
PipeNext ==
    /\ put' >= put /\ (closed => put' = put) /\ (closed => closed')
    /\ \E n \in Len(got) .. put' : got' = [k \in 1 .. n |-> k]
    /\ eof => eof' /\ got' = got
    /\ eof' => closed' /\ Len(got') = put'

PipeSpec == PipeInit /\ [][PipeNext]_pipeVars
=============================================================================
