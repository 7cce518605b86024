------------------------------ MODULE JsConsole ------------------------------
(***************************************************************************)
(* The console of the program in the browser or in the PDF                 *)
(* (src/tinyemu/jsemu.c): a ring of characters that JavaScript fills and   *)
(* virt_machine_run empties into the guest's console buffers.              *)
(*                                                                         *)
(* JavaScript has one thread: a call from it and a call of                 *)
(* virt_machine_run each run to completion.                                *)
(***************************************************************************)
EXTENDS RxQueue

CONSTANTS
    Chars,      \* characters
    FifoSize,   \* sizeof(console_fifo)
    BufSize     \* bytes read into one console buffer at most

ASSUME FifoAssumption ==
    /\ FifoSize \in Nat \ {0} /\ BufSize \in Nat \ {0}
    /\ Chars # {}

VARIABLES
    console_fifo, console_fifo_windex, console_fifo_rindex, console_fifo_count,
    console_resize_pending,
    console_size,   \* the size in the device's configuration space is set
    queued          \* history: characters accepted from JavaScript and not
                    \* read, oldest first

fifoVars == <<console_fifo, console_fifo_windex, console_fifo_rindex, console_fifo_count>>
sizeVars == <<console_resize_pending, console_size>>
vars == <<rxVars, fifoVars, sizeVars, queued>>

Lines == UNION {[1 .. n -> Chars] : n \in 1 .. BufSize}   \* contents of a buffer
FifoIndices == 0 .. (FifoSize - 1)

TypeOK ==
    /\ RxTypeOK
    /\ console_fifo \in [FifoIndices -> Chars]
    /\ console_fifo_windex \in FifoIndices /\ console_fifo_rindex \in FifoIndices
    /\ console_fifo_count \in 0 .. FifoSize
    /\ console_resize_pending \in BOOLEAN /\ console_size \in BOOLEAN
    /\ queued \in Seq(Chars)

\* Static variables start at 0; console_init.
Init ==
    /\ RxInit
    /\ console_fifo = [i \in FifoIndices |-> CHOOSE c \in Chars : TRUE]
    /\ console_fifo_windex = 0 /\ console_fifo_rindex = 0 /\ console_fifo_count = 0
    /\ console_resize_pending = TRUE /\ console_size = FALSE
    /\ queued = << >>

\* An index after n characters: both loops start again at 0 at the end.
Wrap(i) == IF i >= FifoSize THEN i - FifoSize ELSE i

\* console_queue_char: a character that finds the ring full is dropped.
console_queue_char(c) ==
    /\ IF console_fifo_count < FifoSize
       THEN /\ console_fifo' = [console_fifo EXCEPT ![console_fifo_windex] = c]
            /\ console_fifo_windex' = Wrap(console_fifo_windex + 1)
            /\ console_fifo_count' = console_fifo_count + 1
            /\ queued' = Append(queued, c)
       ELSE UNCHANGED <<fifoVars, queued>>
    /\ UNCHANGED <<rxVars, sizeVars, console_fifo_rindex>>

\* console_read: the next n characters, in at most two pieces.
NextChars(n) == [k \in 1 .. n |-> console_fifo[Wrap(console_fifo_rindex + k - 1)]]

Least(a, b) == IF a < b THEN a ELSE b

\* Mutation: the read index moves before the characters are copied.
CopyAfterMove(write_size) ==
    LET n == Least(write_size, console_fifo_count)
        r == Wrap(console_fifo_rindex + n)
    IN  /\ CanPut
        /\ console_fifo_count' = console_fifo_count - n
        /\ console_fifo_rindex' = r
        /\ IF n > 0 THEN Put([k \in 1 .. n |-> console_fifo[Wrap(r + k - 1)]])
           ELSE UNCHANGED rxVars
        /\ console_resize_pending' = FALSE
        /\ console_size' = (console_size \/ console_resize_pending)
        /\ queued' = SubSeq(queued, n + 1, Len(queued))
        /\ UNCHANGED <<console_fifo, console_fifo_windex>>

\* Mutation: the read index moves by the length asked for.
SkipAsked(write_size) ==
    LET n == Least(write_size, console_fifo_count)
    IN  /\ CanPut
        /\ console_fifo_count' = console_fifo_count - n
        /\ console_fifo_rindex' = Wrap(console_fifo_rindex + write_size)
        /\ IF n > 0 THEN Put(NextChars(n)) ELSE UNCHANGED rxVars
        /\ console_resize_pending' = FALSE
        /\ console_size' = (console_size \/ console_resize_pending)
        /\ queued' = SubSeq(queued, n + 1, Len(queued))
        /\ UNCHANGED <<console_fifo, console_fifo_windex>>

\* The console part of virt_machine_run.  write_size is the room in the
\* buffer that virtio_console_get_write_len found, cut to sizeof(buf).
virt_machine_run(write_size) ==
    LET n == Least(write_size, console_fifo_count)
    IN  /\ CanPut
        /\ console_fifo_count' = console_fifo_count - n
        /\ console_fifo_rindex' = Wrap(console_fifo_rindex + n)
        /\ IF n > 0 THEN Put(NextChars(n)) ELSE UNCHANGED rxVars
        /\ console_resize_pending' = FALSE
        /\ console_size' = (console_size \/ console_resize_pending)
        /\ queued' = SubSeq(queued, n + 1, Len(queued))
        /\ UNCHANGED <<console_fifo, console_fifo_windex>>

-----------------------------------------------------------------------------
(* The guest, in the rest of virt_machine_run (external)                   *)

Post     == RxPost /\ UNCHANGED <<fifoVars, sizeVars, queued>>
SetReady == RxReady /\ UNCHANGED <<fifoVars, sizeVars, queued>>
Take     == RxTake /\ UNCHANGED <<fifoVars, sizeVars, queued>>
Reset    == RxReset /\ UNCHANGED <<fifoVars, sizeVars, queued>>

Next ==
    \/ \E c \in Chars : console_queue_char(c)
    \/ \E n \in 1 .. BufSize : virt_machine_run(n)
    \/ Post \/ SetReady \/ Take \/ Reset

Spec == Init /\ [][Next]_vars
-----------------------------------------------------------------------------
(* Properties                                                              *)

(* The ring holds the accepted characters, each once and in order,         *)
(* although the indices wrap, a read may stop anywhere and the ring may be *)
(* full; a full ring and an empty one are told apart by the count.         *)
CharsKept == NextChars(console_fifo_count) = queued

(* What a buffer is filled with are the oldest accepted characters, and    *)
(* these are then gone from the ring.                                      *)
OldestRead ==
    Len(filled') > Len(filled) =>
        \E n \in 1 .. Len(queued) :
            /\ filled' = Append(filled, SubSeq(queued, 1, n))
            /\ queued' = SubSeq(queued, n + 1, Len(queued))
ReadsInOrder == [][OldestRead]_vars
=============================================================================
