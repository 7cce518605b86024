------------------------------- MODULE FsNet -------------------------------
(***************************************************************************)
(* The in-memory file system whose files are downloaded on demand          *)
(* (fs_net.c), as operators on a state record S:                           *)
(*   ino    inode table; a free slot has type "free"                       *)
(*   file   the FSFile objects: guest fids and the file system's own       *)
(*   ois    the FSOpenInfo of every file being loaded; a free slot has n=0 *)
(*   cache  inode_cache_list, most recently used first; csize its size     *)
(*   blocks fs_blocks                                                      *)
(*   xhr    the command file's download (CmdXHRState)                      *)
(*   preload whether the preload lists have been parsed                    *)
(*   failed an assert of the code failed or freed memory was used          *)
(* Sizes are counted in blocks; a directory has one block per entry.  Of a *)
(* file's buffer, alloc is whether allocated_size # 0; a shrunk buffer     *)
(* keeps four fifths of it and never becomes empty.  Data                  *)
(* are sequences of units; the content of a file that is being downloaded  *)
(* appears when the transfer ends (the browser delivers it in one piece).  *)
(***************************************************************************)
EXTENDS Naturals, Sequences, FiniteSets, FiniteSetsExt, SequencesExt, Functions

CONSTANTS
  Inodes,        \* inode slots, 1 is the root
  Fids,          \* fids the guest uses: FSFile objects
  OpenInfos,     \* FSOpenInfo slots
  Names,         \* file names below the root
  FileList,      \* the server's list of files: a sequence of [name, id]
  ServerData,    \* file id -> its content on the server
  Preload,       \* file id -> sequence of [archive, name] loaded with it
  Archive,       \* archive name -> sequence of [name, id, size] packed in it
  CacheLimit,    \* inode_cache_size_limit
  MaxBlocks      \* fs_max_blocks

Root == 1
(* the file system's own FSFile objects, apart from the guest's fids *)
BootRoot == 101
BootFd == 102
XhrRoot == 103
XhrFile == 104
Files == Fids \union {BootRoot, BootFd, XhrRoot, XhrFile}
NoFile == [ino |-> 0, opened |-> FALSE, acc |-> "r", req |-> "none"]
FreeInode == [type |-> "free", ref |-> 0, open |-> 0, st |-> "LOCAL", size |-> 0,
              id |-> "none", data |-> <<>>, alloc |-> FALSE, oi |-> 0, cmd |-> FALSE, ent |-> {}]
NoXhr == [on |-> FALSE, req |-> 0]
FreeInfo == [n |-> 0, type |-> "REG", members |-> <<>>, off |-> 0, cb |-> 0]

Lowest(T) == CHOOSE x \in T : \A y \in T : x <= y
FreshInode(S) == Lowest({i \in Inodes : S.ino[i].type = "free"})
FreshInfo(S) == Lowest({o \in OpenInfos : S.ois[o].n = 0})
IsLoading(S, i) == S.ino[i].type = "reg" /\ S.ino[i].st = "LOADING"

(***************************************************************************)
(* The result of an operation: the state after it, whether it succeeded,   *)
(* and whether the answer comes later, with a download.                    *)
(***************************************************************************)
Done(S) == [ok |-> TRUE, async |-> FALSE, S |-> S]
Failed(S) == [ok |-> FALSE, async |-> FALSE, S |-> S]

(* Asserts and uses of freed memory. *)
Check(S, cond) == [S EXCEPT !.failed = @ \/ ~cond]

(***************************************************************************)
(* Loading: an FSOpenInfo ends, leaving the list of its archive.           *)
(***************************************************************************)
fs_open_end(S, o) ==
  [S EXCEPT !.ino = [i \in Inodes |-> IF S.ino[i].oi = o THEN [S.ino[i] EXCEPT !.oi = 0]
                                      ELSE S.ino[i]],
            !.ois = [p \in OpenInfos |->
     IF p = o THEN FreeInfo
     ELSE [S.ois[p] EXCEPT !.members = SelectSeq(@, LAMBDA q : q # o)]]]

(* the part of fs_wget_set_error before the callback *)
Unload(S, i) ==
  [Check(S, IsLoading(S, i)) EXCEPT !.ino[i].st = "UNLOADED", !.ino[i].data = <<>>,
                                    !.ino[i].alloc = FALSE]

(* fs_error_archive when no member has a callback: inode_free of an archive *)
fs_error_archive(S, a) ==
  FoldLeft(LAMBDA T, o : fs_open_end(Unload(T, T.ois[o].n), o), S, S.ois[a].members)

Uncache(S, i) ==
  [S EXCEPT !.cache = SelectSeq(@, LAMBDA j : j # i), !.csize = @ - S.ino[i].size]

(* the content is modified: it is local from now on *)
MakeLocal_Counted(S, i) ==
  IF S.ino[i].st # "LOADED" THEN S
  ELSE [S EXCEPT !.ino[i].st = "LOCAL", !.cache = SelectSeq(@, LAMBDA j : j # i)]
MakeLocal(S, i) ==
  IF S.ino[i].st # "LOADED" THEN S ELSE [Uncache(S, i) EXCEPT !.ino[i].st = "LOCAL"]

(***************************************************************************)
(* Inodes.                                                                 *)
(***************************************************************************)
inode_free_Running(S, i) ==
  LET n == S.ino[i]
      T == IF n.type = "reg" /\ n.st = "LOADED" THEN Uncache(S, i) ELSE S
  IN [Check(T, n.ref = 0 /\ n.open = 0) EXCEPT
        !.blocks = @ - (IF n.type = "reg" THEN n.size ELSE 0), !.ino[i] = FreeInode]
inode_free(S, i) ==
  LET n == S.ino[i]
      T == CASE n.type = "reg" /\ n.st = "LOADED" -> Uncache(S, i)
             [] IsLoading(S, i) ->
                  fs_open_end(IF S.ois[n.oi].type = "ARCHIVE" THEN fs_error_archive(S, n.oi)
                              ELSE S, n.oi)
             [] OTHER -> S
  IN [Check(T, n.ref = 0 /\ n.open = 0) EXCEPT
        !.blocks = @ - (IF n.type = "reg" THEN n.size ELSE 0), !.ino[i] = FreeInode]

Collect(S, i) ==
  IF S.ino[i].ref = 0 /\ S.ino[i].open = 0 THEN inode_free(S, i) ELSE S
inode_incref(S, i) == [S EXCEPT !.ino[i].ref = @ + 1]
inode_decref(S, i) ==
  Collect([Check(S, S.ino[i].ref >= 1) EXCEPT !.ino[i].ref = @ - 1], i)
inode_inc_open(S, i) == [S EXCEPT !.ino[i].open = @ + 1]
inode_dec_open(S, i) ==
  Collect([Check(S, S.ino[i].open >= 1) EXCEPT !.ino[i].open = @ - 1], i)

inode_new(S, type) == [S EXCEPT !.ino[FreshInode(S)] = [FreeInode EXCEPT !.type = type, !.ref = 1]]

Has(S, d, name) == \E e \in S.ino[d].ent : e.name = name
inode_search(S, d, name) == (CHOOSE e \in S.ino[d].ent : e.name = name).ino
inode_dir_add(S, d, name, i) ==
  [S EXCEPT !.ino[d].ent = @ \union {[name |-> name, ino |-> i]}, !.blocks = @ + 1]
inode_dirent_delete_no_decref(S, d, name) ==
  [S EXCEPT !.ino[d].ent = {e \in @ : e.name # name}, !.blocks = @ - 1]
inode_dirent_delete(S, d, name) ==
  inode_decref(inode_dirent_delete_no_decref(S, d, name), inode_search(S, d, name))

IsEmptyDir(S, i) == \A e \in S.ino[i].ent : e.name \in {".", ".."}
flush_dir(S, i) == inode_dirent_delete(inode_dirent_delete(S, i, "."), i, "..")

(***************************************************************************)
(* FSFile objects.  fid_create puts a new object in slot f; an object that *)
(* is already there (fid_set) is deleted after the new one took its        *)
(* reference.                                                              *)
(***************************************************************************)
fs_cmd_close(S, f) ==
  [S EXCEPT !.file[f].req = "none",
            !.xhr.req = IF S.file[f].req = "xhr" THEN 0 ELSE @]
fs_close(S, f) ==
  LET T == [S EXCEPT !.file[f].opened = FALSE]
  IN IF S.file[f].req = "none" THEN T ELSE fs_cmd_close(T, f)
fs_delete(S, f) ==
  [inode_dec_open(fs_close(S, f), S.file[f].ino) EXCEPT !.file[f] = NoFile]
fid_release(S, f) == IF S.file[f] = NoFile THEN S ELSE fs_delete(S, f)
fid_create(S, f, i) ==
  [fid_release(inode_inc_open(S, i), f) EXCEPT !.file[f] = [NoFile EXCEPT !.ino = i]]

(***************************************************************************)
(* Opening.  fs_trim_cache evicts, from the least recently used end, files *)
(* nobody has a fid for until the new size fits.                           *)
(***************************************************************************)
Evict(S, i) == [Uncache(S, i) EXCEPT !.ino[i].st = "UNLOADED", !.ino[i].data = <<>>,
                                     !.ino[i].alloc = FALSE]
fs_trim_cache_Open(S, added) ==
  FoldRight(LAMBDA i, T : IF T.csize + added <= CacheLimit THEN T ELSE Evict(T, i), S.cache, S)
fs_trim_cache(S, added) ==
  FoldRight(LAMBDA i, T : IF T.csize + added <= CacheLimit \/ T.ino[i].open # 0 THEN T
                          ELSE Evict(T, i),
            S.cache, S)

StartLoading(S, i, o, type) ==
  [S EXCEPT !.ino[i].st = "LOADING", !.ino[i].oi = o, !.ino[i].alloc = TRUE,
            !.ois[o] = [FreeInfo EXCEPT !.n = i, !.type = type]]
(* an FSOpenInfo has to be free, whatever is evicted *)
fs_open_wget(S, i, type) ==
  StartLoading(fs_trim_cache(Check(S, S.ino[i].st = "UNLOADED"), S.ino[i].size),
               i, FreshInfo(S), type)

(* inode_search_path: preloaded files are named from the root *)
Unloaded(S, name) ==
  /\ Has(S, Root, name)
  /\ LET n == S.ino[inode_search(S, Root, name)] IN n.type = "reg" /\ n.st = "UNLOADED"
fs_preload_file(S, name) ==
  IF Unloaded(S, name) THEN fs_open_wget(S, inode_search(S, Root, name), "REG") ELSE S

AddMember(S, a, i, off) ==
  LET o == S.ino[i].oi
  IN [S EXCEPT !.ois[o].off = off, !.ois[S.ino[a].oi].members = Append(@, o)]

TotalSize(pafs) == FoldLeft(LAMBDA n, p : n + p.size, 0, pafs)
(* member k of the archive a: it comes with the archive if size and id agree *)
PreloadMember(S, a, pafs, k) ==
  LET p == pafs[k]
      i == inode_search(S, Root, p.name)
  IN IF Unloaded(S, p.name) /\ S.ino[i].size = p.size /\ S.ino[i].id = p.id
     THEN AddMember(fs_open_wget(S, i, "ARCHIVE_FILE"), a, i,
                    TotalSize(SubSeq(pafs, 1, k - 1)))
     ELSE fs_preload_file(S, p.name)
fs_preload_archive(S, name) ==
  LET pafs == Archive[name]
      a == inode_search(S, Root, name)
      some == \E p \in Range(pafs) : Unloaded(S, p.name)
  IN CASE Unloaded(S, name) /\ some /\ TotalSize(pafs) = S.ino[a].size ->
            FoldLeftDomain(LAMBDA T, k : PreloadMember(T, a, pafs, k),
                           fs_open_wget(S, a, "ARCHIVE"), pafs)
       [] Unloaded(S, name) /\ ~some -> S
       [] OTHER -> FoldLeft(LAMBDA T, p : fs_preload_file(T, p.name), S, pafs)

fs_preload_files(S, id) ==
  IF ~S.preload \/ id \notin DOMAIN Preload THEN S
  ELSE FoldLeft(LAMBDA T, p : IF p.archive THEN fs_preload_archive(T, p.name)
                              ELSE fs_preload_file(T, p.name), S, Preload[id])

Cut(d, n) == [k \in 1..n |-> IF k <= Len(d) THEN d[k] ELSE "0"]
MayResize(S, n, size) ==
  /\ n.type = "reg"
  /\ \/ size = n.size
     \/ n.st = "UNLOADED"
     \/ n.st # "LOADING" /\ (size < n.size \/ (S.blocks + size) - n.size <= MaxBlocks)
Resized(S, i, size) ==
  LET n == S.ino[i]
      T == IF n.st # "UNLOADED" THEN [MakeLocal(S, i) EXCEPT !.ino[i].data = Cut(@, size),
                                                             !.ino[i].alloc = @ \/ size > n.size]
           ELSE [S EXCEPT !.ino[i].st = IF size = 0 THEN "LOCAL" ELSE @]
  IN [T EXCEPT !.ino[i].size = size, !.blocks = (@ + size) - n.size]
fs_truncate(S, i, size) ==
  LET n == S.ino[i]
  IN IF ~MayResize(S, n, size) THEN Failed(S)
     ELSE Done(IF size = n.size THEN S ELSE Resized(S, i, size))

(* the answer waits for the download: for one open only *)
Wait(S, i, f) ==
  LET o == S.ino[i].oi
  IN IF S.ois[o].cb # 0 THEN Failed(S)
     ELSE [ok |-> TRUE, async |-> TRUE, S |-> [S EXCEPT !.ois[o].cb = f]]
Now(S, f) == Done([S EXCEPT !.file[f].opened = TRUE])
WgetUnlessLoading(S, i) == IF S.ino[i].st = "LOADING" THEN S ELSE fs_open_wget(S, i, "REG")
OpenContent(S, i, f) ==
  CASE S.ino[i].st = "UNLOADED" ->
         Wait(WgetUnlessLoading(fs_preload_files(S, S.ino[i].id), i), i, f)
    [] S.ino[i].st = "LOADING" -> Wait(S, i, f)
    [] S.ino[i].st = "LOCAL" -> Now(S, f)
    [] OTHER -> Now([S EXCEPT !.cache = <<i>> \o SelectSeq(@, LAMBDA j : j # i)], f)
OpenInode(S, i, f, trunc) ==
  IF S.ino[i].type = "dir" THEN Now(S, f)
  ELSE OpenContent(IF trunc /\ S.file[f].acc # "r" THEN fs_truncate(S, i, 0).S ELSE S, i, f)
fs_open(S, f, acc, trunc, directory) ==
  LET i == S.file[f].ino
      T == fs_close(S, f)
  IN IF S.ino[i].type \in (IF directory THEN {"dir"} ELSE {"dir", "reg"})
     THEN OpenInode([T EXCEPT !.file[f].acc = acc], i, f, trunc)
     ELSE Failed(T)

(***************************************************************************)
(* The other operations.                                                   *)
(***************************************************************************)
Dir(S, f) == S.file[f].ino
IsDir(S, i) == S.ino[i].type = "dir"

fs_create(S, f, name, acc) ==
  LET i == FreshInode(S)
      d == Dir(S, f)
      T == inode_dir_add(inode_new(fs_close(S, f), "reg"), d, name, i)
      U == inode_inc_open(inode_dec_open(T, d), i)
  IN IF ~IsDir(S, d) \/ Has(S, d, name) THEN Failed(S)
     ELSE Done([U EXCEPT !.file[f].ino = i, !.file[f].opened = TRUE, !.file[f].acc = acc])

fs_mkdir(S, f, name) ==
  LET i == FreshInode(S)
      d == Dir(S, f)
      T == inode_new(S, "dir")
      U == inode_dir_add(inode_incref(T, i), i, ".", i)
      V == inode_dir_add(inode_incref(U, d), i, "..", d)
  IN IF ~IsDir(S, d) \/ Has(S, d, name) THEN Failed(S) ELSE Done(inode_dir_add(V, d, name, i))

(* fs_symlink and fs_mknod: type "lnk", or "reg" or "node" *)
fs_mknod(S, f, name, type) ==
  LET d == Dir(S, f)
  IN IF Has(S, d, name) THEN Failed(S)
     ELSE Done(inode_dir_add(inode_new(S, type), d, name, FreshInode(S)))

fs_link(S, df, f, name) ==
  LET i == S.file[f].ino
  IN IF IsDir(S, i) \/ Has(S, Dir(S, df), name) THEN Failed(S)
     ELSE Done(inode_dir_add(inode_incref(S, i), Dir(S, df), name, i))

fs_renameat_NoRef(S, f, name, nf, nname) ==
  LET d == Dir(S, f)
      nd == Dir(S, nf)
      over == Has(S, nd, nname)
      i == inode_search(S, d, name)
      T == IF over THEN inode_dirent_delete(S, nd, nname) ELSE S
  IN IF ~Has(S, d, name) \/ (over /\ IsDir(S, inode_search(S, nd, nname))) THEN Failed(S)
     ELSE Done(inode_dirent_delete(inode_dir_add(T, nd, nname, i), d, name))
fs_renameat(S, f, name, nf, nname) ==
  LET d == Dir(S, f)
      nd == Dir(S, nf)
      over == Has(S, nd, nname)
      i == inode_search(S, d, name)
      old == inode_search(S, nd, nname)
      T == IF over THEN inode_dirent_delete_no_decref(S, nd, nname) ELSE S
      U == inode_dirent_delete(inode_dir_add(inode_incref(T, i), nd, nname, i), d, name)
  IN IF ~Has(S, d, name) \/ (over /\ IsDir(S, old)) THEN Failed(S)
     ELSE Done(IF over THEN inode_decref(U, old) ELSE U)

fs_unlinkat(S, f, name) ==
  LET d == Dir(S, f)
      i == inode_search(S, d, name)
  IN IF name \in {".", ".."} \/ ~Has(S, d, name) \/ (IsDir(S, i) /\ ~IsEmptyDir(S, i))
     THEN Failed(S)
     ELSE Done(inode_dirent_delete(IF IsDir(S, i) THEN flush_dir(S, i) ELSE S, d, name))

Overwritten(S, i, off, data) ==
  [MakeLocal(S, i) EXCEPT !.ino[i].data =
     [k \in DOMAIN @ |-> IF k > off /\ k <= off + Len(data) THEN data[k - off] ELSE @[k]]]
fs_write(S, f, off, data) ==
  LET i == S.file[f].ino
      n == S.ino[i]
      size == IF off + Len(data) > n.size THEN off + Len(data) ELSE n.size
  IN IF \/ ~S.file[f].opened \/ n.type # "reg" \/ S.file[f].acc = "r"
        \/ ~MayResize(S, n, size)
     THEN Failed(S)
     ELSE Done(Overwritten(fs_truncate(S, i, size).S, i, off, data))

(***************************************************************************)
(* The command file.  fs_net_set_url turns a local file without a buffer   *)
(* into one that is downloaded, unless it is empty on the server; xhr      *)
(* downloads a URL into a file and answers through the fid; pbkdf2 answers *)
(* at once.                                                                *)
(***************************************************************************)
fs_net_set_url(S, name, id) ==
  LET i == inode_search(S, Root, name)
      n == S.ino[i]
      size == Len(ServerData[id])
  IN IF ~Has(S, Root, name) \/ n.type # "reg" \/ n.st # "LOCAL" \/ n.alloc THEN Failed(S)
     ELSE IF size = 0 THEN Done(S)
     ELSE Done([S EXCEPT !.ino[i].st = "UNLOADED", !.ino[i].size = size, !.ino[i].id = id,
                         !.blocks = @ + size])

XhrClose(S) == fs_delete(fs_delete(S, XhrFile), XhrRoot)
XhrBegun(r, f) ==
  IF ~r.ok THEN Failed(XhrClose(r.S))
  ELSE Done([r.S EXCEPT !.file[f].req = "xhr", !.xhr = [on |-> TRUE, req |-> f]])
fs_cmd_xhr(S, f, name) ==
  IF S.file[f].req # "none" THEN Failed(S)
  ELSE LET T == fid_create(fid_create(S, XhrRoot, Root), XhrFile, Root)
       IN XhrBegun(fs_create(fs_unlinkat(T, XhrFile, name).S, XhrFile, name, "rw"), f)
fs_cmd_pbkdf2(S, f) ==
  IF S.file[f].req # "none" THEN Failed(S) ELSE Done([S EXCEPT !.file[f].req = "reply"])

(* the download of an xhr command ended; data = <<>> when it failed *)
fs_cmd_xhr_on_load(S, data) ==
  [XhrClose(fs_write(S, XhrFile, 0, data).S) EXCEPT !.xhr = NoXhr,
     !.file = IF S.xhr.req = 0 THEN @ ELSE [@ EXCEPT ![S.xhr.req].req = "reply"]]

(***************************************************************************)
(* fs_mem_init and fs_create_cmd: the file system before the file list.    *)
(***************************************************************************)
EmptyFs ==
  LET S0 == [ino |-> [i \in Inodes |-> FreeInode], file |-> [f \in Files |-> NoFile],
             ois |-> [o \in OpenInfos |-> FreeInfo], cache |-> <<>>, csize |-> 0,
             blocks |-> 0, xhr |-> NoXhr, preload |-> FALSE, failed |-> FALSE]
      S1 == inode_incref(inode_incref(inode_new(S0, "dir"), Root), Root)
      S2 == inode_dir_add(inode_dir_add(S1, Root, ".", Root), Root, "..", Root)
      S3 == fs_create(fid_create(S2, BootRoot, Root), BootRoot, "cmd", "rw").S
  IN fs_delete([S3 EXCEPT !.ino[inode_search(S3, Root, "cmd")].cmd = TRUE], BootRoot)

(* filelist_load: one inode per line of the list *)
filelist_load(S) ==
  FoldLeft(LAMBDA T, line :
             fs_net_set_url(inode_dir_add(inode_new(T, "reg"), Root, line.name, FreshInode(T)),
                            line.name, line.id).S,
           S, FileList)
=============================================================================
