-------------------------------- MODULE P9Fs --------------------------------
(***************************************************************************)
(* The VirtIO 9P device (virtio.c) serving the network file system to a    *)
(* guest, with the downloads of fs_wget.c and the boot sequence of         *)
(* fs_net_init.  Everything runs on one thread, but the answer to an open  *)
(* that waited for a download is sent from inside the download's callback, *)
(* which goes on to serve the queued requests before it finishes its own   *)
(* work: stack holds the callers that are still to be resumed.             *)
(***************************************************************************)
EXTENDS FsNet

CONSTANTS
  MountFid,      \* the fid of the root it mounted
  KernelFiles,   \* kernel_file_list, the files loaded before the guest starts
  UrlIds,        \* file ids the guest gives to set_url
  Kept,          \* file ids of the files the guest neither removes nor overwrites
  MaxQueued,     \* requests the guest has outstanding
  MaxRequests,   \* requests in all
  MaxChanges     \* requests that change the tree or a file

VARIABLES
  fs,       \* the file system
  boot,     \* boot sequence: "start", "head", "list", "kernel", "run", or "exit"
  index,    \* FSNetInitState.file_index
  queued,   \* number of requests not yet taken from the virtqueue
  busy,     \* req_in_progress
  stack,    \* callers to resume, innermost first
  requests, \* requests the guest made
  changes   \* of them, those that change the tree or a file

vars == <<fs, boot, index, queued, busy, stack, changes, requests>>

-----------------------------------------------------------------------------
(***************************************************************************)
(* virtio_9p_recv_request: what a request does to the file system.  A fid  *)
(* the device does not know is answered with an error.                     *)
(***************************************************************************)
Known(S, f) == S.file[f] # NoFile
Walk(S, r) ==
  LET i == Dir(S, r.fid)
      to == IF r.name = "" \/ ~Has(S, i, r.name) THEN i ELSE inode_search(S, i, r.name)
  IN Done(fid_create(S, r.newfid, to))

WriteCmd(S, r) ==
  CASE ~S.file[r.fid].opened \/ S.file[r.fid].acc = "r" -> Failed(S)
    [] r.cmd = "xhr" -> fs_cmd_xhr(S, r.fid, r.name)
    [] r.cmd = "set_url" -> fs_net_set_url(S, r.name, r.id)
    [] r.cmd = "pbkdf2" -> fs_cmd_pbkdf2(S, r.fid)
    [] OTHER -> Done(S)

(* requests on the tree *)
OnTree(S, r) ==
  CASE r.op = "link" -> IF Known(S, r.newfid) THEN fs_link(S, r.newfid, r.fid, r.name)
                        ELSE Failed(S)
    [] r.op = "mkdir" -> fs_mkdir(S, r.fid, r.name)
    [] r.op = "renameat" -> fs_renameat(S, r.fid, r.from, r.fid, r.name)
    [] r.op = "unlinkat" -> fs_unlinkat(S, r.fid, r.name)

(* requests on attributes and content; only setattr changes something of *)
(* readlink, getattr, setattr, xattrwalk, readdir, fsync, lock, getlock  *)
OnAttributes(S, r) ==
  IF r.op = "setattr" THEN fs_truncate(S, S.file[r.fid].ino, r.size) ELSE Done(S)

OnFid(S, r) ==
  CASE r.op = "lopen" -> fs_open(S, r.fid, r.acc, r.trunc, r.directory)
    [] r.op = "lcreate" -> fs_create(S, r.fid, r.name, "rw")
    [] r.op = "mknod" -> fs_mknod(S, r.fid, r.name, r.type)
    [] r.op \in {"link", "mkdir", "renameat", "unlinkat"} -> OnTree(S, r)
    [] OTHER -> OnAttributes(S, r)

Write(S, r) ==
  IF S.ino[S.file[r.fid].ino].cmd THEN WriteCmd(S, r) ELSE fs_write(S, r.fid, r.size, <<"w">>)
Request(S, r) ==
  CASE r.op = "attach" -> Done(fid_create(S, r.fid, Root))
    [] r.op = "clunk" -> Done(fid_release(S, r.fid))
    [] ~Known(S, r.fid) -> Failed(S)
    [] Known(S, r.fid) /\ r.op = "walk" -> Walk(S, r)
    [] Known(S, r.fid) /\ r.op = "write" -> Write(S, r)
    [] OTHER -> OnFid(S, r)

-----------------------------------------------------------------------------
(***************************************************************************)
(* The guest: a kernel that keeps the rules of its own file system layer   *)
(* (it creates nothing in a directory it removed, and does not rename a    *)
(* file onto itself), and works on the files it names from the root, which *)
(* MountFid stands for.  What a queued request asks is chosen when it is   *)
(* taken from the queue: nothing looks at it before.                       *)
(***************************************************************************)
Lookups ==
  [op : {"attach", "clunk", "getattr"}, fid : Fids]
    \union [op : {"walk"}, fid : Fids, newfid : Fids, name : Names \union {"", "cmd"}]
    \union [op : {"lopen"}, fid : Fids, acc : {"rw"}, trunc : {FALSE}, directory : BOOLEAN]
Changes ==
  [op : {"lopen"}, fid : Fids, acc : {"rw"}, trunc : {TRUE}, directory : {FALSE}]
    \union [op : {"lcreate", "mkdir", "unlinkat"}, fid : Fids, name : Names]
    \union [op : {"mknod"}, fid : Fids, name : Names, type : {"lnk"}]
    \union [op : {"link"}, fid : Fids, newfid : Fids, name : Names]
    \union [op : {"renameat"}, fid : Fids, from : Names, name : Names]
    \union [op : {"setattr"}, fid : Fids, size : {0, 2}]
    \union [op : {"write"}, fid : Fids, size : {1}, cmd : {"xhr", "pbkdf2"}, name : Names]
    \union [op : {"write"}, fid : Fids, size : {0}, cmd : {"set_url"}, name : Names,
            id : UrlIds]

LiveDir(S, f) == Known(S, f) /\ Has(S, Dir(S, f), ".")
MayRemove(S, d, name) == Has(S, d, name) => S.ino[inode_search(S, d, name)].id \notin Kept
Sensible(S, r) ==
  CASE r.op = "attach" -> r.fid = MountFid /\ ~Known(S, r.fid)
    [] r.op = "clunk" -> Known(S, r.fid) /\ r.fid # MountFid
    [] r.op \in {"getattr", "setattr"} -> Known(S, r.fid) /\ r.fid # MountFid
    [] r.op = "walk" -> /\ Known(S, r.fid) /\ IsDir(S, Dir(S, r.fid))
                        /\ ~Known(S, r.newfid) /\ r.newfid = CHOOSE f \in Fids : ~Known(S, f)
    [] r.op = "lopen" -> Known(S, r.fid) /\ r.fid # MountFid /\ ~S.file[r.fid].opened
                           /\ r.directory = IsDir(S, Dir(S, r.fid))
    [] r.op \in {"lcreate", "mkdir", "mknod"} ->
         LiveDir(S, r.fid) /\ (r.op = "lcreate" <=> r.fid # MountFid)
    [] r.op = "unlinkat" -> LiveDir(S, r.fid) /\ r.fid = MountFid /\ MayRemove(S, Root, r.name)
    [] r.op = "link" -> LiveDir(S, r.newfid) /\ Known(S, r.fid)
    [] r.op = "renameat" ->
         /\ LiveDir(S, r.fid) /\ r.fid = MountFid /\ MayRemove(S, Root, r.name)
         /\ Has(S, Dir(S, r.fid), r.from)
         /\ Has(S, Dir(S, r.fid), r.name) =>
              inode_search(S, Dir(S, r.fid), r.from) # inode_search(S, Dir(S, r.fid), r.name)
    [] r.op = "write" ->
         /\ Known(S, r.fid) /\ S.file[r.fid].opened
         /\ r.cmd = "xhr" => ~S.xhr.on /\ MayRemove(S, Root, r.name)
         /\ r.cmd = "set_url" =>
              /\ Has(S, Root, r.name)
              /\ S.ino[inode_search(S, Root, r.name)].open = 0
    [] OTHER -> TRUE


-----------------------------------------------------------------------------
(* a request is taken from the queue; an open may have to wait *)
Take ==
  \E r \in Lookups \union Changes :
    /\ Sensible(fs, r)
    /\ changes' = changes + (IF r \in Changes THEN 1 ELSE 0) /\ changes' <= MaxChanges
    /\ \E answer \in {Request(fs, r)} : fs' = answer.S /\ busy' = answer.async

(* the guest's notification, with nothing in progress: served at once *)
Submit ==
  /\ boot = "run" /\ stack = <<>> /\ ~busy
  /\ requests < MaxRequests /\ requests' = requests + 1
  /\ Take
  /\ UNCHANGED <<boot, index, queued, stack>>

(* the same while an open is in progress: queue_notify stops at once *)
SubmitBusy ==
  /\ boot = "run" /\ stack = <<>> /\ busy /\ queued < MaxQueued
  /\ requests < MaxRequests /\ requests' = requests + 1
  /\ queued' = queued + 1
  /\ UNCHANGED <<fs, boot, index, busy, stack, changes>>

(* queue_notify from the callback of an open *)
Notify_Once ==
  /\ stack # <<>> /\ Head(stack).k = "notify"
  /\ stack' = Tail(stack)
  /\ IF queued = 0 \/ busy THEN UNCHANGED <<fs, queued, busy, changes>>
     ELSE queued' = queued - 1 /\ Take
  /\ UNCHANGED <<boot, index, requests>>
Notify ==
  /\ stack # <<>> /\ Head(stack).k = "notify"
  /\ \/ /\ queued = 0 \/ busy
        /\ stack' = Tail(stack) /\ UNCHANGED <<fs, queued, busy, changes, requests>>
     \/ /\ queued > 0 /\ ~busy
        /\ queued' = queued - 1
        /\ Take
        /\ UNCHANGED <<stack, requests>>
  /\ UNCHANGED <<boot, index>>

-----------------------------------------------------------------------------
(***************************************************************************)
(* The end of a download.  fs_wget_set_loaded and fs_wget_set_error answer *)
(* the open that waits, if one does, and serve the next requests before    *)
(* the open information is released.                                       *)
(***************************************************************************)
(* the callback: virtio_9p_open_cb, or kernel_load_cb while booting *)
Callback(f) == IF f = BootFd THEN [k |-> "kernel"] ELSE [k |-> "notify"]
Finish(S, o, rest) ==
  LET f == S.ois[o].cb
  IN IF f = 0
     THEN fs' = fs_open_end(S, o) /\ stack' = rest /\ UNCHANGED busy
     ELSE /\ fs' = S
          /\ stack' = <<Callback(f), [k |-> "end", oi |-> o]>> \o rest
          /\ busy' = (busy /\ f = BootFd)

Loaded(S, i) ==
  LET f == S.ois[S.ino[i].oi].cb
      T == [Check(S, IsLoading(S, i)) EXCEPT
              !.ino[i].st = "LOADED", !.cache = <<i>> \o @, !.csize = @ + S.ino[i].size]
  IN IF f = 0 THEN T ELSE [T EXCEPT !.file[f].opened = TRUE]
fs_wget_set_loaded(S, i, rest) == Finish(Loaded(S, i), S.ino[i].oi, rest)
fs_wget_set_error(S, i, rest) == Finish(Unload(S, i), S.ino[i].oi, rest)

(* an assert of the code fails or freed memory is used: nothing else happens *)
Fail == fs' = [fs EXCEPT !.failed = TRUE] /\ stack' = <<>> /\ UNCHANGED busy

(* fs_open_cb: the transfer of o ended; a wrong size is an error *)
fs_open_cb(o, ok) ==
  LET i == fs.ois[o].n
      n == fs.ino[i]
      sent == IF n.id \in DOMAIN ServerData THEN ServerData[n.id] ELSE <<>>
      good == ok /\ n.size <= Len(sent)
      S == IF good THEN [fs EXCEPT !.ino[i].data = Cut(sent, n.size)] ELSE fs
      loop == [k |-> "loop", a |-> o, good |-> good,
               el |-> IF fs.ois[o].members = <<>> THEN 0 ELSE Head(fs.ois[o].members)]
      set == [k |-> "set", i |-> i, good |-> good]
  IN /\ fs.ois[o].n # 0 /\ fs.ois[o].type # "ARCHIVE_FILE"
     /\ stack = <<>>
     /\ fs' = S
     /\ stack' = IF fs.ois[o].type = "ARCHIVE" THEN <<loop, set>> ELSE <<set>>
     /\ UNCHANGED <<boot, index, queued, busy, changes, requests>>

(* list_for_each_safe: the element after el, read before el is used *)
After(S, a, el) ==
  LET ms == S.ois[a].members
      later == {k \in DOMAIN ms : k > 1 /\ ms[k - 1] = el}
  IN IF later = {} THEN 0 ELSE ms[Lowest(later)]

(* fs_read_archive and fs_error_archive: the next member of the archive *)
ArchiveMember ==
  LET fr == Head(stack)
      i == fs.ois[fr.el].n
      a == fs.ois[fr.a].n
      rest == <<[fr EXCEPT !.el = After(fs, fr.a, fr.el)]>> \o Tail(stack)
      off == fs.ois[fr.el].off
      S == [fs EXCEPT !.ino[i].data = SubSeq(fs.ino[a].data, off + 1, off + fs.ino[i].size)]
  IN /\ stack # <<>> /\ fr.k = "loop"
     /\ CASE fr.el = 0 -> stack' = Tail(stack) /\ UNCHANGED <<fs, busy>>
          [] fr.el # 0 /\ (a = 0 \/ i = 0) -> Fail
          [] OTHER -> IF fr.good THEN fs_wget_set_loaded(S, i, rest)
                      ELSE fs_wget_set_error(fs, i, rest)
     /\ UNCHANGED <<boot, index, queued, changes, requests>>

(* the downloaded file itself *)
SetState ==
  LET fr == Head(stack)
  IN /\ stack # <<>> /\ fr.k = "set"
     /\ IF ~IsLoading(fs, fr.i) THEN Fail
        ELSE IF fr.good THEN fs_wget_set_loaded(fs, fr.i, Tail(stack))
        ELSE fs_wget_set_error(fs, fr.i, Tail(stack))
     /\ UNCHANGED <<boot, index, queued, changes, requests>>

OpenEnd ==
  /\ stack # <<>> /\ Head(stack).k = "end"
  /\ fs' = fs_open_end(fs, Head(stack).oi)
  /\ stack' = Tail(stack)
  /\ UNCHANGED <<boot, index, queued, busy, changes, requests>>

(* fs_wget_file_on_load and fs_cmd_xhr_on_load *)
XhrLoaded(ok) ==
  /\ stack = <<>> /\ fs.xhr.on
  /\ fs' = fs_cmd_xhr_on_load(fs, IF ok THEN <<"x">> ELSE <<>>)
  /\ UNCHANGED <<boot, index, queued, busy, stack, changes, requests>>

-----------------------------------------------------------------------------
(***************************************************************************)
(* The boot sequence: "start", "head", the file list, the preload files.  BootFd *)
(* is the file being read and BootRoot the root.                           *)
(***************************************************************************)
BootFile(S, name) == fs_create(fid_create(S, BootFd, Root), BootFd, name, "rw").S
BootRead(S, name) ==
  fs_unlinkat(fs_delete(fs_write(S, BootFd, 0, <<"h">>).S, BootFd), BootRoot, name).S

fs_initial_sync ==
  /\ boot = "start"
  /\ boot' = "head"
  /\ fs' = BootFile(fid_create(fs, BootRoot, Root), ".head")
  /\ UNCHANGED <<index, queued, busy, stack, changes, requests>>

head_loaded(ok) ==
  /\ boot = "head"
  /\ boot' = IF ok THEN "list" ELSE "exit"
  /\ fs' = IF ok THEN BootFile(BootRead(fs, ".head"), ".filelist.txt") ELSE fs
  /\ UNCHANGED <<index, queued, busy, stack, changes, requests>>

filelist_loaded(ok) ==
  /\ boot = "list"
  /\ boot' = IF ok THEN "kernel" ELSE "exit"
  /\ fs' = IF ok THEN filelist_load(BootRead(fs, ".filelist.txt")) ELSE fs
  /\ stack' = IF ok THEN <<[k |-> "kernel"]>> ELSE <<>>
  /\ UNCHANGED <<index, queued, busy, changes, requests>>

(* preload_parse accepts a preload file only when its content is there *)
Parsed(S) ==
  \E k \in DOMAIN KernelFiles :
    /\ Has(S, Root, KernelFiles[k])
    /\ S.ino[inode_search(S, Root, KernelFiles[k])].st = "LOADED"
OpenKernel(S, name) ==
  IF ~Has(S, Root, name) THEN Failed(S)
  ELSE fs_open(fid_create(S, BootFd, inode_search(S, Root, name)), BootFd, "r", FALSE, FALSE)
kernel_load_cb ==
  /\ stack # <<>> /\ Head(stack).k = "kernel"
  /\ \E S \in {fid_release(fs, BootFd)} :
       \/ /\ index = Len(KernelFiles)
          /\ fs' = fs_delete([S EXCEPT !.preload = Parsed(S)], BootRoot)
          /\ boot' = "run" /\ stack' = Tail(stack)
          /\ UNCHANGED index
       \/ /\ index < Len(KernelFiles)
          /\ index' = index + 1
          /\ \E r \in {OpenKernel(S, KernelFiles[index + 1])} :
               /\ fs' = r.S
               /\ stack' = IF r.async THEN Tail(stack) ELSE stack
          /\ UNCHANGED boot
  /\ UNCHANGED <<queued, busy, changes, requests>>

-----------------------------------------------------------------------------
Init ==
  /\ fs = EmptyFs
  /\ boot = "start" /\ index = 0
  /\ queued = 0 /\ busy = FALSE /\ stack = <<>> /\ changes = 0 /\ requests = 0

Resume == Notify \/ ArchiveMember \/ SetState \/ OpenEnd \/ kernel_load_cb
Download(o) == \E ok \in BOOLEAN : fs_open_cb(o, ok)
Boot == fs_initial_sync \/ \E ok \in BOOLEAN : head_loaded(ok) \/ filelist_loaded(ok)
Next ==
  /\ ~fs.failed
  /\ \/ Resume
     \/ \E o \in OpenInfos : Download(o)
     \/ \E ok \in BOOLEAN : XhrLoaded(ok)
     \/ Boot
     \/ Submit
     \/ SubmitBusy

(* the emulator's thread runs, and every transfer ends or times out *)
Fairness == WF_vars(Resume) /\ WF_vars(Boot) /\ \A o \in OpenInfos : WF_vars(Download(o))
Spec == Init /\ [][Next]_vars /\ Fairness

-----------------------------------------------------------------------------
Count(T, P(_)) == Cardinality({x \in T : P(x)})
Links(i) ==
  SumFunction([d \in Inodes |-> Cardinality({e \in fs.ino[d].ent : e.ino = i})])

(* Reference counts are exact: an inode is counted once per directory entry *)
(* (the root once more) and once per FSFile, no entry or file names a freed *)
(* inode, and fs_blocks, which statfs reports, is what the inodes use.      *)
ReferencesExact ==
  /\ \A i \in Inodes :
       /\ fs.ino[i].ref = Links(i) + (IF i = Root THEN 1 ELSE 0)
       /\ fs.ino[i].open = Count(Files, LAMBDA f : fs.file[f].ino = i)
       /\ fs.ino[i].type # "free" => fs.ino[i].ref + fs.ino[i].open > 0
  /\ fs.blocks = SumFunction([i \in Inodes |-> fs.ino[i].size + Cardinality(fs.ino[i].ent)])

(* Loading is accounted for: the cache list holds exactly the loaded files, *)
(* each once, and its size is theirs; a file that is being loaded will be   *)
(* ended by a download of its own or of its archive; and the device is busy *)
(* with an open exactly while one of them will call it back.                *)
Waiting == {o \in OpenInfos : fs.ois[o].cb \in Fids /\ IsLoading(fs, fs.ois[o].n)
                               /\ fs.ino[fs.ois[o].n].oi = o}
LoadingExact ==
  /\ IsInjective(fs.cache)
  /\ Range(fs.cache) = {i \in Inodes : fs.ino[i].type = "reg" /\ fs.ino[i].st = "LOADED"}
  /\ fs.csize = SumFunction([k \in DOMAIN fs.cache |-> fs.ino[fs.cache[k]].size])
  /\ stack = <<>> => \A i \in Inodes : IsLoading(fs, i) =>
       /\ fs.ois[fs.ino[i].oi].n = i
       /\ fs.ois[fs.ino[i].oi].type = "ARCHIVE_FILE" =>
            \E a \in OpenInfos : fs.ino[i].oi \in Range(fs.ois[a].members)
  /\ Cardinality(Waiting) = (IF busy THEN 1 ELSE 0)

(* A file a fid has open has its content: it is not being loaded nor was it *)
(* evicted, and every unit of it is the server's or was written by someone. *)
OpenHasContent ==
  \A f \in Files : fs.file[f].opened /\ fs.ino[fs.file[f].ino].type = "reg" =>
    LET n == fs.ino[fs.file[f].ino]
    IN /\ n.st \in {"LOCAL", "LOADED"} /\ Len(n.data) = n.size
       /\ n.st = "LOADED" => n.data = SubSeq(ServerData[n.id], 1, n.size)
       /\ n.id # "none" => \A k \in 1..n.size :
            n.data[k] \in {"0", "w", "x"} \/ n.data[k] = ServerData[n.id][k]

(* No assert of the code fails and no open information is used after it was *)
(* freed, whatever the nested requests did (the assert of                   *)
(* fs_wget_set_loaded and fs_wget_set_error that the file is LOADING).      *)
AssertionsHold == ~fs.failed

(* An open that waits for a download is answered, whether the download      *)
(* succeeds or fails, and so is every request queued behind it.             *)
EveryRequestAnswered == (busy \/ queued > 0) ~> (~busy /\ queued = 0)
=============================================================================
