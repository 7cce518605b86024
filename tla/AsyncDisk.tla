----------------------------- MODULE AsyncDisk -----------------------------
(***************************************************************************)
(* What a BlockDevice of src/tinyemu/virtio.h promises to the VirtIO block *)
(* device: it serves one request at a time, moves the request's sectors in *)
(* order between the disk and the caller's buffer, touches no other        *)
(* sector, and ends the request only when every sector has been moved.     *)
(* A write is not atomic: sectors reach the disk one run after the other.  *)
(***************************************************************************)
EXTENDS Integers

CONSTANTS
    NbSectors,   \* bf_get_sector_count
    MaxLen,      \* the longest request, in sectors
    Vals         \* contents of a sector

Sector == 0 .. NbSectors - 1

VARIABLES
    disk,    \* disk[s]: contents of sector s
    busy,    \* a request is being served
    isWrite, start, count,   \* the request
    done,    \* sectors moved so far
    buf      \* the caller's buffer

vars == <<disk, busy, isWrite, start, count, done, buf>>

Buffer(n) == [0 .. n - 1 -> Vals]

Init ==
    /\ disk \in [Sector -> Vals]
    /\ busy = FALSE
    /\ isWrite = FALSE /\ start = 0 /\ count = 0 /\ done = 0
    /\ buf \in Buffer(0)

\* read_async / write_async, with any request that fits the disk.
Request ==
    /\ ~busy
    /\ busy' = TRUE
    /\ isWrite' \in BOOLEAN
    /\ start' \in Sector
    /\ count' \in 0 .. MaxLen
    /\ start' + count' <= NbSectors
    /\ done' = 0
    /\ buf' \in Buffer(count')
    /\ UNCHANGED disk

\* A run of sectors is moved.
Transfer ==
    /\ busy
    /\ done' \in done + 1 .. count
    /\ LET run == done .. done' - 1
       IN  IF isWrite
           THEN /\ disk' = [s \in Sector |->
                              IF s - start \in run THEN buf[s - start] ELSE disk[s]]
                /\ UNCHANGED buf
           ELSE /\ buf' = [i \in DOMAIN buf |->
                              IF i \in run THEN disk[start + i] ELSE buf[i]]
                /\ UNCHANGED disk
    /\ UNCHANGED <<busy, isWrite, start, count>>

\* The request ends: the call returns 0, or the completion callback runs.
\* The caller has its buffer back.
Complete ==
    /\ busy
    /\ done = count
    /\ busy' = FALSE
    /\ buf' \in Buffer(0)
    /\ UNCHANGED <<disk, isWrite, start, count, done>>

Next == Request \/ Transfer \/ Complete

Spec == Init /\ [][Next]_vars
=============================================================================
