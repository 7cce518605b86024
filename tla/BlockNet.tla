----------------------------- MODULE BlockNet ------------------------------
(***************************************************************************)
(* The HTTP block device of src/tinyemu/block_net.c: a disk image split    *)
(* into blocks that are fetched on demand and kept in an LRU cache, with   *)
(* written data kept in memory per cluster.                                *)
(*                                                                         *)
(* One request is served at a time (the VirtIO block device refuses others *)
(* until the completion callback).  bf_rw_async1 is a loop; each iteration *)
(* is one action.  It runs inside the client's call (is_sync) or inside    *)
(* the arrival of a block.  The completion callback may issue the next     *)
(* request before it returns, also in the middle of the loop that delivers *)
(* the blocks of a prefetched group.                                       *)
(*                                                                         *)
(* A loaded block is never modified, so its contents are those of the      *)
(* image on the server; the cache only records which blocks are there.     *)
(***************************************************************************)
EXTENDS Integers, Sequences, FiniteSets, SequencesExt

CONSTANTS
    BlockSize,            \* sectors per block
    SectorsPerCluster,    \* sectors per cluster: 8 in the code
    NbBlocks,
    CacheMax,             \* n_cached_blocks_max
    Prefetch,             \* the "prefetch" array: a sequence of block numbers
    PrefetchGroupLen,     \* prefetch_group_len
    MaxLen,               \* bound: the longest request, in sectors
    ClientKeepsBuffer     \* does the client keep a write buffer until the end?

ASSUME GeometryAssumption ==
    /\ BlockSize \in Nat \ {0} /\ SectorsPerCluster \in Nat \ {0}
    /\ NbBlocks \in Nat \ {0} /\ CacheMax \in Nat \ {0}
    /\ PrefetchGroupLen \in Nat \ {0} /\ MaxLen \in Nat
    /\ (BlockSize * NbBlocks) % SectorsPerCluster = 0
ASSUME PrefetchAssumption == Prefetch \in Seq(0 .. NbBlocks - 1)
ASSUME BufferAssumption == ClientKeepsBuffer \in BOOLEAN

NbSectors == BlockSize * NbBlocks
NClusters == NbSectors \div SectorsPerCluster
Sector    == 0 .. NbSectors - 1
Block     == 0 .. NbBlocks - 1
None      == -1          \* cur_block_num: no block awaited; also a NULL block

\* Sector contents: Image(s) on the server, Tag(i) for the i-th sector of a
\* write, and Garbage for memory nobody initialized or already freed.
Image(s) == s
Tag(i)   == NbSectors + i
Garbage  == NbSectors + MaxLen
Vals     == 0 .. Garbage

VARIABLES
    pc,             \* "init": bf_init_onload; "rw": bf_rw_async1;
                    \* "client": the caller has control; "out": event loop
    cached_blocks,  \* the LRU list, most recent first: [block_num, state]
    clusters,       \* clusters[c]: the written cluster, or << >> for NULL
    wget,           \* outstanding fs_wget requests: each the blocks it brings
    onload,         \* blocks of the arrived answer still to be delivered
    prefetch_idx,   \* bf_init_onload: entries of Prefetch handled
    tab_block,      \* PrefetchGroupRequest.tab_block being filled
    cur_block_num,
    is_write, sector_num, sector_index, sector_count, io_buf, is_sync,
    busy,           \* the client waits for the request to end
    data,           \* history: what the client asked to write
    halted          \* exit(1) was called

reqVars == <<is_write, sector_num, sector_index, sector_count, io_buf, is_sync, data>>
vars == <<pc, cached_blocks, clusters, wget, onload, prefetch_idx, tab_block,
          cur_block_num, reqVars, busy, halted>>

NullCluster == << >>
Contents    == [0 .. SectorsPerCluster - 1 -> Vals]
CachedBlock == [block_num : Block, state : {"LOADING", "LOADED"}]

\* The client lends its buffer for the time of the request.
BufLen == IF busy THEN sector_count ELSE 0

TypeOK ==
    /\ pc \in {"init", "rw", "client", "out"}
    /\ cached_blocks \in Seq(CachedBlock)
    /\ clusters \in [0 .. NClusters - 1 -> Contents \cup {NullCluster}]
    /\ \A r \in wget : r \in Seq(Block)
    /\ onload \in Seq(Block)
    /\ prefetch_idx \in 0 .. Len(Prefetch)
    /\ tab_block \in Seq(Block)
    /\ cur_block_num \in Block \cup {None}
    /\ is_write \in BOOLEAN /\ is_sync \in BOOLEAN
    /\ sector_num \in 0 .. NbSectors
    /\ sector_count \in 0 .. MaxLen
    /\ sector_index \in 0 .. sector_count
    /\ io_buf \in [0 .. BufLen - 1 -> Vals]
    /\ data \in [0 .. BufLen - 1 -> Vals]
    /\ busy \in BOOLEAN /\ halted \in BOOLEAN

\* Mutation: cur_block_num is left as mallocz made it.
InitCurBlockZero ==
    /\ pc = "init"
    /\ cached_blocks = << >>
    /\ clusters = [c \in 0 .. NClusters - 1 |-> NullCluster]
    /\ wget = {}
    /\ onload = << >>
    /\ prefetch_idx = 0
    /\ tab_block = << >>
    /\ cur_block_num = 0
    /\ is_write = FALSE /\ is_sync = TRUE
    /\ sector_num = 0 /\ sector_index = 0 /\ sector_count = 0
    /\ io_buf = << >> /\ data = << >>
    /\ busy = FALSE /\ halted = FALSE

Init ==
    /\ pc = "init"
    /\ cached_blocks = << >>
    /\ clusters = [c \in 0 .. NClusters - 1 |-> NullCluster]
    /\ wget = {}
    /\ onload = << >>
    /\ prefetch_idx = 0
    /\ tab_block = << >>
    /\ cur_block_num = None
    /\ is_write = FALSE /\ is_sync = TRUE
    /\ sector_num = 0 /\ sector_index = 0 /\ sector_count = 0
    /\ io_buf = << >> /\ data = << >>
    /\ busy = FALSE /\ halted = FALSE

-----------------------------------------------------------------------------
(* The block cache                                                         *)

Found(b) == \E i \in DOMAIN cached_blocks : cached_blocks[i].block_num = b

Loading(b) ==
    \E i \in DOMAIN cached_blocks : cached_blocks[i] = [block_num |-> b, state |-> "LOADING"]

\* bf_find_block: a block that is found moves to the front.
bf_find_block(b) ==
    IF Found(b)
    THEN LET i == CHOOSE i \in DOMAIN cached_blocks : cached_blocks[i].block_num = b
         IN  <<cached_blocks[i]>> \o RemoveAt(cached_blocks, i)
    ELSE cached_blocks

\* The entries of c at the positions in K, in the order of c.
Pick(c, K) ==
    [k \in 1 .. Cardinality(K) |->
        c[CHOOSE i \in K : Cardinality({j \in K : j <= i}) = k]]

\* The loop of bf_add_block: loaded blocks are freed from the tail until
\* there is room; blocks that are loading are kept.
Evict(c) ==
    LET excess == Len(c) - CacheMax + 1
        loaded == {i \in DOMAIN c : c[i].state = "LOADED"}
        freed  == {i \in loaded : Cardinality({j \in loaded : j >= i}) <= excess}
    IN  Pick(c, DOMAIN c \ freed)

\* bf_add_block.
bf_add_block(b) ==
    <<[block_num |-> b, state |-> "LOADING"]>> \o Evict(cached_blocks)

SetLoaded(b) ==
    [i \in DOMAIN cached_blocks |->
        IF cached_blocks[i].block_num = b
        THEN [cached_blocks[i] EXCEPT !.state = "LOADED"]
        ELSE cached_blocks[i]]

-----------------------------------------------------------------------------
(* bf_init_onload                                                          *)

\* One entry of the "prefetch" array.  A block that is not cached is added
\* and belongs to the request of its group, which is sent after the last
\* entry of the group if it brings anything.
bf_start_load_prefetch_group ==
    /\ pc = "init"
    /\ prefetch_idx < Len(Prefetch)
    /\ prefetch_idx' = prefetch_idx + 1
    /\ LET b    == Prefetch[prefetch_idx + 1]
           tab  == IF Found(b) THEN tab_block ELSE Append(tab_block, b)
           last == prefetch_idx' = Len(Prefetch) \/ prefetch_idx' % PrefetchGroupLen = 0
       IN  /\ cached_blocks' = IF Found(b) THEN bf_find_block(b) ELSE bf_add_block(b)
           /\ tab_block' = IF last THEN << >> ELSE tab
           /\ wget' = IF last /\ tab # << >> THEN wget \cup {tab} ELSE wget
    /\ UNCHANGED <<pc, clusters, onload, cur_block_num, reqVars, busy, halted>>

\* start_cb: the machine starts.
StartCb ==
    /\ pc = "init"
    /\ prefetch_idx = Len(Prefetch)
    /\ pc' = "out"
    /\ UNCHANGED <<cached_blocks, clusters, wget, onload, prefetch_idx, tab_block,
                   cur_block_num, reqVars, busy, halted>>

-----------------------------------------------------------------------------
(* Requests                                                                *)

\* The client (the VirtIO block device) issues a request from the event
\* loop or from inside the completion callback of the previous one.  It keeps
\* to the sectors that bf_get_sector_count announces: bf_rw_async1 does not
\* check the range, and what it does outside of the disk is not modelled.
ClientHasControl == pc = "client" \/ (pc = "out" /\ onload = << >>)

StartRequest(w, s, n) ==
    /\ ClientHasControl /\ ~busy
    /\ s + n <= NbSectors
    /\ busy' = TRUE
    /\ pc' = "rw" /\ is_sync' = TRUE
    /\ is_write' = w
    /\ sector_num' = s /\ sector_index' = 0 /\ sector_count' = n
    /\ data' = [i \in 0 .. n - 1 |-> IF w THEN Tag(i) ELSE Garbage]
    /\ io_buf' = data'
    /\ UNCHANGED <<cached_blocks, clusters, wget, onload, prefetch_idx, tab_block,
                   cur_block_num, halted>>

\* bf_read_async.
bf_read_async(s, n) == StartRequest(FALSE, s, n)

\* bf_write_async.
bf_write_async(s, n) == StartRequest(TRUE, s, n)

\* The completion callback, or the client's loop, returns.
ClientReturn ==
    /\ pc = "client"
    /\ pc' = "out"
    /\ UNCHANGED <<cached_blocks, clusters, wget, onload, prefetch_idx, tab_block,
                   cur_block_num, reqVars, busy, halted>>

-----------------------------------------------------------------------------
(* bf_rw_async1                                                            *)

cluster_num == sector_num \div SectorsPerCluster
block_num   == sector_num \div BlockSize
Remaining   == sector_count - sector_index

MinOf(a, b) == IF a < b THEN a ELSE b

InLoop == pc = "rw" /\ Remaining > 0

\* n sectors have been moved.
Moved(n) ==
    /\ sector_index' = sector_index + n
    /\ sector_num' = sector_num + n

\* Return 1: the request waits.  virtio_block_recv_request frees the buffer
\* of a write as soon as write_async returns.
ReturnWaiting ==
    /\ pc' = "out"
    /\ io_buf' \in IF is_sync /\ is_write /\ ~ClientKeepsBuffer
                   THEN {io_buf, [i \in DOMAIN io_buf |-> Garbage]}
                   ELSE {io_buf}

\* Mutation: the buffer is written from its beginning.
RwClusterFromStart ==
    /\ InLoop
    /\ clusters[cluster_num] # NullCluster
    /\ LET offset == sector_num % SectorsPerCluster
           n      == MinOf(Remaining, SectorsPerCluster - offset)
       IN  /\ Moved(n)
           /\ IF is_write
              THEN /\ clusters' = [clusters EXCEPT ![cluster_num] =
                          [i \in DOMAIN @ |-> IF i \in offset .. offset + n - 1
                                              THEN io_buf[i - offset]
                                              ELSE @[i]]]
                   /\ UNCHANGED io_buf
              ELSE /\ io_buf' = [i \in DOMAIN io_buf |->
                          IF i \in sector_index .. sector_index + n - 1
                          THEN clusters[cluster_num][offset + i - sector_index]
                          ELSE io_buf[i]]
                   /\ UNCHANGED clusters
    /\ UNCHANGED <<pc, cached_blocks, wget, onload, prefetch_idx, tab_block,
                   cur_block_num, is_write, sector_count, is_sync, data, busy, halted>>

\* The sector belongs to a written cluster.
RwCluster ==
    /\ InLoop
    /\ clusters[cluster_num] # NullCluster
    /\ LET offset == sector_num % SectorsPerCluster
           n      == MinOf(Remaining, SectorsPerCluster - offset)
       IN  /\ Moved(n)
           /\ IF is_write
              THEN /\ clusters' = [clusters EXCEPT ![cluster_num] =
                          [i \in DOMAIN @ |-> IF i \in offset .. offset + n - 1
                                              THEN io_buf[sector_index + i - offset]
                                              ELSE @[i]]]
                   /\ UNCHANGED io_buf
              ELSE /\ io_buf' = [i \in DOMAIN io_buf |->
                          IF i \in sector_index .. sector_index + n - 1
                          THEN clusters[cluster_num][offset + i - sector_index]
                          ELSE io_buf[i]]
                   /\ UNCHANGED clusters
    /\ UNCHANGED <<pc, cached_blocks, wget, onload, prefetch_idx, tab_block,
                   cur_block_num, is_write, sector_count, is_sync, data, busy, halted>>

\* The block is being loaded: wait for it.
RwWait ==
    /\ InLoop
    /\ clusters[cluster_num] = NullCluster
    /\ Loading(block_num)
    /\ cur_block_num' = block_num
    /\ cached_blocks' = bf_find_block(block_num)
    /\ ReturnWaiting
    /\ UNCHANGED <<clusters, wget, onload, prefetch_idx, tab_block, is_write, sector_num,
                   sector_index, sector_count, is_sync, data, busy, halted>>

\* The block is not cached: bf_start_load_block, then wait for it.
RwMiss ==
    /\ InLoop
    /\ clusters[cluster_num] = NullCluster
    /\ ~Found(block_num)
    /\ cur_block_num' = block_num
    /\ cached_blocks' = bf_add_block(block_num)
    /\ wget' = wget \cup {<<block_num>>}
    /\ ReturnWaiting
    /\ UNCHANGED <<clusters, onload, prefetch_idx, tab_block, is_write, sector_num,
                   sector_index, sector_count, is_sync, data, busy, halted>>

\* Mutation: the cluster is filled from the beginning of the block.
RwAllocFromStart ==
    /\ InLoop
    /\ clusters[cluster_num] = NullCluster
    /\ Found(block_num) /\ ~Loading(block_num)
    /\ is_write
    /\ cur_block_num' = block_num
    /\ cached_blocks' = bf_find_block(block_num)
    /\ LET offset == 0
       IN  clusters' = [clusters EXCEPT ![cluster_num] =
               [i \in 0 .. SectorsPerCluster - 1 |->
                   IF offset + i < BlockSize
                   THEN Image(block_num * BlockSize + offset + i)
                   ELSE Garbage]]
    /\ UNCHANGED <<pc, wget, onload, prefetch_idx, tab_block, reqVars, busy, halted>>

\* Mutation: the cluster is not filled from the block.
RwAllocEmpty ==
    /\ InLoop
    /\ clusters[cluster_num] = NullCluster
    /\ Found(block_num) /\ ~Loading(block_num)
    /\ is_write
    /\ cur_block_num' = block_num
    /\ cached_blocks' = bf_find_block(block_num)
    /\ LET offset == (cluster_num * SectorsPerCluster) % BlockSize
       IN  clusters' = [clusters EXCEPT ![cluster_num] =
               [i \in 0 .. SectorsPerCluster - 1 |->
                   IF FALSE
                   THEN Image(block_num * BlockSize + offset + i)
                   ELSE Garbage]]
    /\ UNCHANGED <<pc, wget, onload, prefetch_idx, tab_block, reqVars, busy, halted>>

\* A write to a loaded block: its cluster is allocated and filled from the
\* block, and the loop goes round again.  A cluster that reaches beyond the
\* block's buffer is filled with whatever lies behind it.
RwAlloc ==
    /\ InLoop
    /\ clusters[cluster_num] = NullCluster
    /\ Found(block_num) /\ ~Loading(block_num)
    /\ is_write
    /\ cur_block_num' = block_num
    /\ cached_blocks' = bf_find_block(block_num)
    /\ LET offset == (cluster_num * SectorsPerCluster) % BlockSize
       IN  clusters' = [clusters EXCEPT ![cluster_num] =
               [i \in 0 .. SectorsPerCluster - 1 |->
                   IF offset + i < BlockSize
                   THEN Image(block_num * BlockSize + offset + i)
                   ELSE Garbage]]
    /\ UNCHANGED <<pc, wget, onload, prefetch_idx, tab_block, reqVars, busy, halted>>

\* A read from a loaded block.
RwRead ==
    /\ InLoop
    /\ clusters[cluster_num] = NullCluster
    /\ Found(block_num) /\ ~Loading(block_num)
    /\ ~is_write
    /\ cur_block_num' = None
    /\ cached_blocks' = bf_find_block(block_num)
    /\ LET n == MinOf(Remaining, BlockSize - (sector_num % BlockSize))
       IN  /\ Moved(n)
           /\ io_buf' = [i \in DOMAIN io_buf |->
                  IF i \in sector_index .. sector_index + n - 1
                  THEN Image(sector_num + i - sector_index)
                  ELSE io_buf[i]]
    /\ UNCHANGED <<pc, clusters, wget, onload, prefetch_idx, tab_block, is_write,
                   sector_count, is_sync, data, busy, halted>>

\* Every sector has been moved: return 0, or call the completion callback.
\* The client has its buffer back.
RwDone ==
    /\ pc = "rw"
    /\ Remaining = 0
    /\ pc' = "client"
    /\ busy' = FALSE
    /\ io_buf' = << >> /\ data' = << >>
    /\ UNCHANGED <<cached_blocks, clusters, wget, onload, prefetch_idx, tab_block,
                   cur_block_num, is_write, sector_num, sector_index, sector_count,
                   is_sync, halted>>

-----------------------------------------------------------------------------
(* Answers of the server                                                   *)

\* fs_wget calls bf_read_onload or bf_prefetch_group_onload (the answers
\* may come in any order).
WgetOnload(r) ==
    /\ pc = "out" /\ onload = << >> /\ ~halted
    /\ r \in wget
    /\ wget' = wget \ {r}
    /\ onload' = r
    /\ UNCHANGED <<pc, cached_blocks, clusters, prefetch_idx, tab_block,
                   cur_block_num, reqVars, busy, halted>>

\* ... or fails, and the emulator exits.
WgetError(r) ==
    /\ pc = "out" /\ onload = << >> /\ ~halted
    /\ r \in wget
    /\ halted' = TRUE
    /\ UNCHANGED <<pc, cached_blocks, clusters, wget, onload, prefetch_idx, tab_block,
                   cur_block_num, reqVars, busy>>

\* Mutation: the request that waits is not continued.
UpdateNoResume ==
    /\ pc = "out" /\ onload # << >>
    /\ onload' = Tail(onload)
    /\ cached_blocks' = SetLoaded(Head(onload))
    /\ IF FALSE
       THEN pc' = "rw" /\ is_sync' = FALSE
       ELSE UNCHANGED <<pc, is_sync>>
    /\ UNCHANGED <<clusters, wget, prefetch_idx, tab_block, cur_block_num, is_write,
                   sector_num, sector_index, sector_count, io_buf, data, busy, halted>>

\* bf_update_block: the block is loaded, and the request that waits for it
\* continues.
bf_update_block ==
    /\ pc = "out" /\ onload # << >>
    /\ onload' = Tail(onload)
    /\ cached_blocks' = SetLoaded(Head(onload))
    /\ IF Head(onload) = cur_block_num
       THEN pc' = "rw" /\ is_sync' = FALSE
       ELSE UNCHANGED <<pc, is_sync>>
    /\ UNCHANGED <<clusters, wget, prefetch_idx, tab_block, cur_block_num, is_write,
                   sector_num, sector_index, sector_count, io_buf, data, busy, halted>>

-----------------------------------------------------------------------------
Start == ~halted /\ \E s \in Sector, n \in 0 .. MaxLen :
             bf_read_async(s, n) \/ bf_write_async(s, n)

Loop == RwCluster \/ RwWait \/ RwMiss \/ RwAlloc \/ RwRead \/ RwDone

Terminating == halted /\ UNCHANGED vars

Next ==
    \/ bf_start_load_prefetch_group \/ StartCb
    \/ Start \/ ClientReturn
    \/ Loop
    \/ \E r \in wget : WgetOnload(r) \/ WgetError(r)
    \/ bf_update_block
    \/ Terminating

\* The code runs, and the server answers every request.
Fairness ==
    /\ WF_vars(bf_start_load_prefetch_group \/ StartCb)
    /\ WF_vars(ClientReturn)
    /\ WF_vars(Loop)
    /\ WF_vars(bf_update_block)
    /\ \A b \in Block : WF_vars(\E r \in wget : Contains(r, b) /\ WgetOnload(r))

Spec == Init /\ [][Next]_vars /\ Fairness
-----------------------------------------------------------------------------
(* Properties                                                              *)

\* What the guest sees on the disk.
disk ==
    [s \in Sector |->
        LET c == clusters[s \div SectorsPerCluster]
        IN  IF c # NullCluster THEN c[s % SectorsPerCluster] ELSE Image(s)]

start == sector_num - sector_index

\* The request is parked until a block arrives.
Waiting == busy /\ pc # "rw"

AsyncDisk == INSTANCE AsyncDisk WITH
    isWrite <- is_write, count <- sector_count, done <- sector_index,
    buf <- IF is_write THEN data ELSE io_buf

(* The device behaves like a disk: whatever is cached, evicted, prefetched *)
(* or allocated, every read returns the current contents, every write      *)
(* changes exactly its sectors, and a request ends once, complete.         *)
RefinesAsyncDisk == AsyncDisk!Spec

(* bf_rw_async1 is resumed only for a request that waits, and one that     *)
(* waits will be resumed.  cur_block_num is left set when a write          *)
(* allocated a cluster last; the block it names may be evicted and fetched *)
(* again, and its arrival must not resume a request that has already ended *)
(* (the callback would run twice).  A parked request waits for a block     *)
(* that is loading, and the blocks that are loading are exactly those that *)
(* outstanding answers bring, each brought once: the assertion of          *)
(* bf_update_block holds, and no answer points to a freed CachedBlock.     *)
Due == wget \cup {onload, tab_block}
NoSpuriousResume ==
    /\ pc = "rw" => busy
    /\ Waiting => Loading(cur_block_num)
    /\ \A b \in Block : Loading(b) <=> \E r \in Due : Contains(r, b)
    /\ \A r1, r2 \in Due : r1 # r2 => ToSet(r1) \cap ToSet(r2) = {}
    /\ \A r \in Due : IsInjective(r)

(* A sector changes only if the request being served writes it.            *)
OnlyWrittenSectorsChange ==
    [][\A s \in Sector : disk'[s] # disk[s] =>
          is_write /\ s \in start .. start + sector_count - 1]_vars

(* What a write has moved so far is what the client asked to store.        *)
WriteStoresData ==
    busy /\ is_write =>
        \A i \in 0 .. sector_index - 1 : disk[start + i] = data[i]

(* What a read has moved so far is what the disk holds, also where an      *)
(* earlier write is kept in a cluster next to one never written.           *)
ReadSeesDisk ==
    busy /\ ~is_write =>
        \A i \in 0 .. sector_index - 1 : io_buf[i] = disk[start + i]

(* Every request ends, unless the server fails and the emulator exits.     *)
EveryRequestEnds == busy ~> (~busy \/ halted)
=============================================================================
