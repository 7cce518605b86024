-------------------------------- MODULE Sbuf --------------------------------
(***************************************************************************)
(* The circular socket buffers of the user-mode network (slirp/sbuf.c):    *)
(* one for each direction of a TCP connection.  The pointers sb_rptr and   *)
(* sb_wptr are offsets from sb_data; the bytes left behind by sbdrop stay  *)
(* in the array, as they do in the program.                                *)
(***************************************************************************)
EXTENDS Integers, Sequences

Lesser(a, b) == IF a < b THEN a ELSE b
Greater(a, b) == IF a > b THEN a ELSE b

sbreserve(size) ==
    [data |-> [i \in 0 .. size - 1 |-> 0], datalen |-> size,
     rptr |-> 0, wptr |-> 0, cc |-> 0]

sbspace(sb) == sb.datalen - sb.cc

(* sb_cc is only reduced by what there is to drop.                         *)
sbdrop(sb, num) ==
    LET n == Lesser(num, sb.cc)
    IN  [sb EXCEPT !.cc = @ - n, !.rptr = (@ + n) % sb.datalen]

(* Put the bytes at the write pointer, around the end of the array.        *)
PutBytes(sb, bytes) ==
    LET at(i) == (i - sb.wptr) % sb.datalen
    IN  [sb EXCEPT
           !.data = [i \in DOMAIN @ |->
                       IF at(i) < Len(bytes) THEN bytes[at(i) + 1] ELSE @[i]],
           !.wptr = (@ + Len(bytes)) % sb.datalen,
           !.cc = @ + Len(bytes)]

(* What does not fit between the pointers is lost; with both pointers      *)
(* equal the buffer counts as empty, whatever sb_cc says.                  *)
sbappendsb(sb, bytes) ==
    LET room == IF sb.wptr < sb.rptr THEN sb.rptr - sb.wptr
                ELSE sb.datalen - sb.wptr + sb.rptr
    IN  PutBytes(sb, SubSeq(bytes, 1, Lesser(Len(bytes), room)))

sbcopy(sb, off, len) ==
    [i \in 1 .. len |-> sb.data[(sb.rptr + off + i - 1) % sb.datalen]]

(* The number of bytes soread may take from the host: the free space, cut  *)
(* to a multiple of the segment size when it is larger than a segment.     *)
sopreprbuf(sb, mss) ==
    LET len == sbspace(sb)
    IN  IF len > mss THEN len - (len % mss) ELSE len
=============================================================================
