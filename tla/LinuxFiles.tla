----------------------------- MODULE LinuxFiles -----------------------------
(* Files of the Linux server (user/linux/main.c): descriptors and the open  *)
(* files they share, handles of the VFS server, working directories, hidden *)
(* temporary files, and the caches of what the VFS answered.  A message is  *)
(* one step; the VFS is the part of the state called v below.               *)
EXTENDS Integers, Sequences, SequencesExt, FiniteSets, FiniteSetsExt

CONSTANTS
  FilePids, FileFds,   \* processes, and slots of their descriptor tables
  MaxOpen,             \* open files at a time
  MaxHandle,           \* handles the VFS gives out, never the same twice
  MaxNode,             \* files
  MaxWrites,           \* writes
  FileNames,           \* names in a directory
  TmpNames,            \* hidden names in the order they are made up
  FScenarios           \* calls, and what is in their arguments, in a behaviour

VARIABLES fsrv, fmakes

fvars == <<fsrv, fmakes>>

Dirs == {"/", "etc", "run", "usr"}
Domains == {"etc", "run", "other"}
FPaths == (Dirs \ {"/"}) \X (FileNames \cup ToSet(TmpNames))
Handles == 1 .. MaxHandle
Nodes == 1 .. MaxNode
Shut == 0            \* a handle that is not open, a name of nothing
Bare == "."          \* the directory part of a name without one

\* linux_cache_domain_for_path of an absolute path
Domain(d) == IF d \in {"etc", "run"} THEN d ELSE "other"
\* linux_file_read_cache_allowed
ReadCached == {"etc", "usr"}

\* What a handle of the VFS is open on
Nothing == [dir |-> "", node |-> Shut]
Dir(d) == [Nothing EXCEPT !.dir = d]
File(n) == [Nothing EXCEPT !.node = n]

NoDesc == [kind |-> "none", file |-> 0, path |-> <<>>, tmp |-> FALSE]
NoFile == [handle |-> Shut, off |-> 0, size |-> 0, refs |-> 0, ahead |-> <<>>]
NoNode == [mode |-> 1, time |-> 0, data |-> <<>>, called |-> {}]

-----------------------------------------------------------------------------
(* Caches.  Entries hold the epoch of their domain and are used while it is *)
(* the current one: bumping the epoch forgets them.                         *)

Without(entries, doms) == SelectSeq(entries, LAMBDA e : e.domain \notin doms)

NoteMutation(s, doms) ==
  [s EXCEPT !.mine = [p \in FilePids |-> Without(@[p], doms)],
            !.all = Without(@, doms), !.lists = Without(@, doms),
            !.reads = Without(@, doms),
            !.files = [i \in DOMAIN @ |-> [@[i] EXCEPT !.ahead = Without(@, doms)]]]

\* The slot that comes next in a ring of one
Put(entries, e) == <<e>>

-----------------------------------------------------------------------------
(* What the VFS does.                                                       *)

Lookup(s, t) == s.v.name[t]
VfsOpen(s, what) ==
  [s EXCEPT !.v.open[s.v.next] = what, !.v.next = @ + 1]
VfsClose(s, h) == [s EXCEPT !.v.open[h] = Nothing]

UnusedNodes(s) ==
  {n \in Nodes : /\ \A t \in FPaths : s.v.name[t] # n /\ s.v.under[t] # n
                 /\ \A h \in Handles : s.v.open[h] # File(n)}
VfsCreate(s, t) ==
  LET n == Min(UnusedNodes(s))
  IN [s EXCEPT !.v.name[t] = n, !.v.node[n] = NoNode]
VfsUnlink(s, t) == [s EXCEPT !.v.name[t] = Shut]

\* Ghost: the domain of a name the file was called by, and the names that
\* were taken from a file somebody had open
Called(s, n, domain) == [s EXCEPT !.v.node[n].called = @ \cup {domain}]
Rebound(s, ts) ==
  [s EXCEPT !.v.rebound = @ \cup
     {t \in ts : \E p \in FilePids, fd \in FileFds : s.fds[p][fd].path = t}]

VfsAnswer(s, kind, t) ==
  LET n == Lookup(s, t)
      f == s.v.node[n]
  IN CASE n = Shut -> <<>>
       [] n # Shut /\ kind = "access" -> <<f.mode>>
       [] n # Shut /\ kind = "stat" -> <<f.mode, f.time, Len(f.data)>>

-----------------------------------------------------------------------------
(* Paths.  An argument is [base, dir, name]: base says where the text       *)
(* starts ("abs" the root, "cwd", or "fd", the first open directory).                        *)

DirFds(s, p) == {fd \in FileFds : s.fds[p][fd].kind = "dir"}
DirFd(s, p) == Min(DirFds(s, p))

BaseDir(s, p, a) ==
  CASE a.base = "abs" -> "/"
    [] a.base = "cwd" -> s.cwd[p].dir
    [] a.base = "fd" -> s.fds[p][DirFd(s, p)].path[1]

\* path_normalize: the file the argument names
Target(s, p, a) == <<IF a.dir = Bare THEN BaseDir(s, p, a) ELSE a.dir, a.name>>
\* linux_cache_domain_for_path(process, path): by the text alone
TextDomain(s, p, a) ==
  Domain(IF a.base = "abs" THEN a.dir ELSE s.cwd[p].dir)

\* linux_dirfd_base_handle, and linux_ensure_cwd_handle
EnsureCwd(s, p, a) ==
  IF a.base = "cwd" /\ s.cwd[p].handle = Shut
  THEN [VfsOpen(s, Dir("/")) EXCEPT !.cwd[p].handle = s.v.next,
                                   !.refs[s.v.next] = 1]
  ELSE s
BaseHandle(s, p, a) ==
  CASE a.base = "abs" -> Shut
    [] a.base = "cwd" -> s.cwd[p].handle
    [] a.base = "fd" -> s.files[s.fds[p][DirFd(s, p)].file].handle

\* linux_access_cache_get and linux_stat_cache_get: the cache of all
\* processes by normalised path, then the process's own by handle and text
Cached(s, p, kind, a) ==
  SelectSeq(s.all, LAMBDA e : e.kind = kind /\ e.path = Target(s, p, a))
  \o SelectSeq(s.mine[p], LAMBDA e :
       /\ e.kind = kind /\ e.text = a
       /\ e.base = BaseHandle(s, p, a) /\ e.domain = TextDomain(s, p, a))

\* linux_faccessat and linux_newfstatat
AskAt(s0, p, kind, a) ==
  LET s == EnsureCwd(s0, p, a)
      t == Target(s, p, a)
      e == [kind |-> kind, text |-> a, base |-> BaseHandle(s, p, a), path |-> t,
            domain |-> TextDomain(s, p, a), answer |-> VfsAnswer(s, kind, t)]
      n == Lookup(s, t)
      called == IF n = Shut THEN s ELSE Called(s, n, TextDomain(s, p, a))
  IN IF Cached(s, p, kind, a) # <<>> THEN called
     ELSE [called EXCEPT !.mine[p] = Put(@, e),
             !.all = IF Domain(t[1]) = "other" THEN @
                     ELSE Put(@, [e EXCEPT !.domain = Domain(t[1])])]

-----------------------------------------------------------------------------
(* Open files                                                               *)

NodeOf(s, fd) == s.v.open[s.files[fd.file].handle].node
FreeSlots(s, p) == {fd \in FileFds : s.fds[p][fd].kind = "none"}
NewFile(s) == Min({i \in DOMAIN s.files : s.files[i].refs = 0})

\* linux_unlink_hidden_path
UnlinkHidden(s, t) ==
  IF Lookup(s, t) = Shut THEN s
  ELSE NoteMutation(VfsUnlink(Rebound(s, {t}), t), {Domain(t[1])})

\* linux_close unlinks the hidden name with the last descriptor
Hide(s, fd) == fd.tmp /\ s.files[fd.file].refs <= 1

\* linux_open_file_ref_drop
OpenFileRefDrop(s, fd) ==
  IF s.files[fd.file].refs > 1
  THEN [s EXCEPT !.files[fd.file].refs = @ - 1]
  ELSE [VfsClose(s, s.files[fd.file].handle) EXCEPT !.files[fd.file] = NoFile]

\* linux_close of a descriptor in use
FClose(s, p, n) ==
  LET fd == s.fds[p][n]
      shown == IF Hide(s, fd) THEN UnlinkHidden(s, fd.path) ELSE s
      done == IF fd.kind \in {"file", "dir"} THEN OpenFileRefDrop(shown, fd) ELSE s
  IN [done EXCEPT !.fds[p][n] = NoDesc]

\* The tail of linux_openat and of linux_open_tmpfile, once the VFS gave a
\* handle: a descriptor, or nothing if the table or memory is exhausted
Install(s, p, kind, path, tmp, short) ==
  LET h == s.v.next - 1
      i == NewFile(s)
      fd == Min(FreeSlots(s, p))
      n == s.v.open[h].node
  IN IF FreeSlots(s, p) = {} \/ short
     THEN IF tmp THEN UnlinkHidden(VfsClose(s, h), path) ELSE VfsClose(s, h)
     ELSE [s EXCEPT
             !.files[i] = [NoFile EXCEPT !.handle = h, !.refs = 1,
                !.size = IF kind = "dir" THEN 0 ELSE Len(s.v.node[n].data)],
             !.fds[p][fd] = [kind |-> kind, file |-> i, path |-> path, tmp |-> tmp]]

\* linux_ftruncate to nothing
FtruncateFd(s, p, fd) ==
  LET d == s.fds[p][fd]
      n == NodeOf(s, d)
  IN NoteMutation(
       Called([s EXCEPT !.v.node[n].data = <<>>,
                 !.files[d.file] = [@ EXCEPT !.size = 0, !.off = 0, !.ahead = <<>>]],
              n, Domain(d.path[1])),
       {Domain(d.path[1])})

\* Mutant: the creation is noted in the domain of the text
Create_ByText(s, p, a) ==
  NoteMutation(VfsCreate(s, Target(s, p, a)), {TextDomain(s, p, a)})
\* A name made at the VFS and noted by its normalised path (linux_openat,
\* linux_mkdirat, linux_mknodat, linux_symlinkat)
Create(s, p, a) ==
  NoteMutation(VfsCreate(s, Target(s, p, a)), {Domain(Target(s, p, a)[1])})

\* linux_openat of a file
OpenFile(s0, p, a, how, short) ==
  LET s == EnsureCwd(s0, p, a)
      t == Target(s, p, a)
      fresh == Lookup(s, t) = Shut
      made == IF fresh THEN Create(s, p, a) ELSE s
      n == Lookup(made, t)
      got == Install(Called(VfsOpen(made, File(n)), n, TextDomain(s, p, a)),
                     p, "file", t, FALSE, short)
      fd == Min(FreeSlots(s, p))
  IN CASE ~fresh /\ {"creat", "excl"} \subseteq how ->
            VfsClose(VfsOpen(s, File(n)), s.v.next)
       [] fresh /\ "creat" \notin how -> s
       [] OTHER -> IF "trunc" \in how /\ FreeSlots(s, p) # {} /\ ~short
                   THEN FtruncateFd(got, p, fd) ELSE got

\* linux_openat of a directory
OpenDir(s, p, d, short) == Install(VfsOpen(s, Dir(d)), p, "dir", <<d>>, FALSE, short)

\* linux_open_tmpfile: the directory is opened to look at its type; the name
\* has the pid and a serial number in it, so it is new
OpenTmpfile(s, p, d, short) ==
  LET t == <<d, TmpNames[s.serial + 1]>>
      looked == [VfsClose(VfsOpen(s, Dir(d)), s.v.next) EXCEPT !.serial = @ + 1]
      made == NoteMutation(VfsCreate(looked, t), {Domain(d)})
      n == Lookup(made, t)
  IN Install(Called(VfsOpen(made, File(n)), n, Domain(d)), p, "file", t, TRUE, short)

-----------------------------------------------------------------------------
(* Reading and writing, a byte at a time                                    *)

At(data, off) == IF off < Len(data) THEN <<data[off + 1]>> ELSE <<>>
Slice(data, off, end) == SubSeq(data, off + 1, Min({end, Len(data)}))

\* linux_write_buffer: the size known to the open file places an append
WriteFd(s, p, fd, append) ==
  LET d == s.fds[p][fd]
      n == NodeOf(s, d)
      f == s.files[d.file]
      off == IF append THEN f.size ELSE f.off
      put == [i \in 1 .. Max({off + 1, Len(s.v.node[n].data)}) |->
                IF i = off + 1 THEN s.written + 1
                ELSE IF i <= Len(s.v.node[n].data) THEN s.v.node[n].data[i] ELSE 0]
  IN NoteMutation(
       Called([s EXCEPT !.written = @ + 1, !.v.node[n].data = put,
                 !.files[d.file] = [@ EXCEPT !.off = off + 1, !.ahead = <<>>,
                                             !.size = Max({@, off + 1})]],
              n, Domain(d.path[1])),
       {Domain(d.path[1])})

\* linux_open_file_readahead_fill
FillAhead(s, fd) ==
  LET f == s.files[fd.file]
      data == Slice(s.v.node[NodeOf(s, fd)].data, f.off, f.size)
  IN IF data = <<>> THEN [s EXCEPT !.files[fd.file].ahead = <<>>]
     ELSE [s EXCEPT !.files[fd.file].ahead =
             <<[domain |-> Domain(fd.path[1]), off |-> f.off, data |-> data]>>]

\* linux_open_file_readahead_get
Ahead(s, fd) ==
  LET f == s.files[fd.file]
  IN \E i \in DOMAIN f.ahead :
       /\ f.ahead[i].off <= f.off /\ f.off < f.ahead[i].off + Len(f.ahead[i].data)

\* linux_file_read_cache_get and _put around a read of the VFS
ThroughReads(s, fd, off) ==
  LET got == At(s.v.node[NodeOf(s, fd)].data, off)
  IN IF \/ got = <<>> \/ fd.path[1] \notin ReadCached
        \/ \E i \in DOMAIN s.reads : s.reads[i].path = fd.path /\ s.reads[i].off = off
     THEN s
     ELSE [s EXCEPT !.reads = Put(@, [domain |-> Domain(fd.path[1]), off |-> off,
                                      path |-> fd.path, data |-> got])]

\* linux_read of one byte: long reads pass the read-ahead by
ReadFd(s, p, fd, long) ==
  LET d == s.fds[p][fd]
      f == s.files[d.file]
      filled == IF Ahead(s, d) THEN s ELSE FillAhead(s, d)
      moved == [filled EXCEPT !.files[d.file].off = @ + 1]
      hit == \E i \in DOMAIN s.reads : s.reads[i].path = d.path /\ s.reads[i].off = f.off
      got == IF hit THEN 1 ELSE Len(At(s.v.node[NodeOf(s, d)].data, f.off))
  IN CASE f.off >= f.size -> s
       [] f.off < f.size /\ ~long /\ d.path[1] \in ReadCached
          /\ filled.files[d.file].ahead # <<>> -> moved
       [] OTHER -> [ThroughReads(s, d, f.off) EXCEPT !.files[d.file].off = @ + got]

\* linux_sendfile from a position: the offset comes back before the write
SendFile(s, p, from, to) ==
  LET d == s.fds[p][from]
      before == s.files[d.file].off
      read == ReadFd([s EXCEPT !.files[d.file].off = 0], p, from, FALSE)
      back == [read EXCEPT !.files[d.file].off = before]
  IN IF read.files[d.file].off = 0 THEN back ELSE WriteFd(back, p, to, FALSE)

\* linux_getdents64 of a directory: the listing of /etc is cached
\* (linux_dir_cache_fill)
Listing(s, d) == {t[2] : t \in {u \in FPaths : u[1] = d /\ Lookup(s, u) # Shut}}
GetDents(s, d) ==
  IF d # "etc" \/ s.lists # <<>> THEN s
  ELSE [s EXCEPT !.lists = <<[domain |-> "etc", names |-> Listing(s, d)]>>]

-----------------------------------------------------------------------------
(* Working directories                                                      *)

\* Mutant: a working directory is closed for everybody who is in it
CloseVfsHandle_Always(s, h) ==
  IF h = Shut THEN s ELSE [VfsClose(s, h) EXCEPT !.refs[h] = 0]
\* linux_close_vfs_handle and linux_file_ref_drop
CloseVfsHandle(s, h) ==
  CASE h = Shut -> s
    [] h # Shut /\ s.refs[h] > 1 -> [s EXCEPT !.refs[h] = @ - 1]
    [] h # Shut /\ s.refs[h] <= 1 -> [VfsClose(s, h) EXCEPT !.refs[h] = 0]

\* linux_process_set_cwd and the new handle
SetCwd(s, p, d, h) ==
  [s EXCEPT !.cwd[p] = [dir |-> d, handle |-> h], !.mine[p] = <<>>]

\* linux_chdir and linux_fchdir; short: no memory for the new name
ChangeDir(s, p, d, short) ==
  LET h == s.v.next
      opened == VfsOpen(s, Dir(d))
  IN IF short THEN VfsClose(opened, h)
     ELSE CloseVfsHandle([SetCwd(opened, p, d, h) EXCEPT !.refs[h] = 1],
                         s.cwd[p].handle)

-----------------------------------------------------------------------------
(* Processes                                                                *)

\* The part of linux_fork_process about files
ForkFiles(s, p, q) ==
  LET uses(i) == Cardinality({fd \in FileFds : s.fds[p][fd].file = i})
      h == s.cwd[p].handle
  IN [s EXCEPT !.fds[q] = s.fds[p], !.live = @ \cup {q}, !.mine[q] = <<>>,
        !.files = [i \in DOMAIN @ |-> IF @[i].refs = 0 THEN @[i]
                                      ELSE [@[i] EXCEPT !.refs = @ + uses(i)]],
        !.cwd[q] = s.cwd[p],
        !.refs = IF h = Shut THEN @ ELSE [@ EXCEPT ![h] = @ + 1]]

\* linux_process_reset: descriptors, then the working directory
ResetFiles(s, p) ==
  LET slots == SetToSortSeq({fd \in FileFds : s.fds[p][fd].kind # "none"}, <)
      closed == FoldLeft(LAMBDA t, fd : FClose(t, p, fd), s, slots)
  IN [CloseVfsHandle(closed, s.cwd[p].handle) EXCEPT
        !.cwd[p] = [dir |-> "/", handle |-> Shut], !.live = @ \ {p}, !.mine[p] = <<>>]

-----------------------------------------------------------------------------
(* The system.  A process makes the calls of its scenario; every argument   *)
(* that needs a handle, a file or a node finds one left.                    *)

FInit ==
  /\ fmakes \in FScenarios
  /\ fsrv =
       [live |-> {Min(FilePids)},
        fds |-> [p \in FilePids |-> [fd \in FileFds |-> NoDesc]],
        files |-> [i \in 1 .. MaxOpen |-> NoFile],
        cwd |-> [p \in FilePids |-> [dir |-> "/", handle |-> Shut]],
        refs |-> [h \in Handles |-> 0],
        mine |-> [p \in FilePids |-> <<>>], all |-> <<>>, lists |-> <<>>, reads |-> <<>>,
        serial |-> 0, written |-> 0,
        v |-> [name |-> [t \in FPaths |-> Shut], node |-> [n \in Nodes |-> NoNode],
               open |-> [h \in Handles |-> Nothing], next |-> 1,
               under |-> [t \in FPaths |-> -1], rebound |-> {}]]

FMakes(call) == call \in fmakes.calls
\* Two handles, an open file and a node are left
FRoom ==
  /\ fsrv.v.next < fmakes.handles /\ UnusedNodes(fsrv) # {}
  /\ \E i \in 1 .. MaxOpen : fsrv.files[i].refs = 0

Becomes(s) == fsrv' = s /\ fmakes' = fmakes

\* Descriptors a process has of a kind, and paths it can name
FdsOf(p, kinds) == {fd \in FileFds : fsrv.fds[p][fd].kind \in kinds}
Args(p) ==
  [base : fmakes.bases,
   dir : (fmakes.dirs \ {"/"}) \cup {Bare}, name : FileNames]
GoodArgs(p) ==
  {a \in Args(p) : /\ a.base = "abs" => a.dir # Bare
                   /\ a.base = "fd" => a.dir = Bare /\ DirFds(fsrv, p) # {}
                   /\ Target(fsrv, p, a) \in FPaths}
Present(p) == {a \in GoodArgs(p) : Lookup(fsrv, Target(fsrv, p, a)) # Shut}

FOpenAt ==
  /\ FMakes("open") /\ FRoom
  /\ \E p \in fsrv.live, how \in fmakes.hows, short \in BOOLEAN :
       \E a \in GoodArgs(p) : Becomes(OpenFile(fsrv, p, a, how, short))
FOpenDir ==
  /\ FMakes("opendir") /\ FRoom
  /\ \E p \in fsrv.live, d \in fmakes.dirs, short \in BOOLEAN :
       Becomes(OpenDir(fsrv, p, d, short))
FOpenTmp ==
  /\ FMakes("tmpfile") /\ FRoom /\ fsrv.serial < Len(TmpNames)
  /\ \E p \in fsrv.live, d \in fmakes.dirs \ {"/"}, short \in BOOLEAN :
       Becomes(OpenTmpfile(fsrv, p, d, short))
FCloseAt ==
  /\ FMakes("close")
  /\ \E p \in fsrv.live : \E fd \in FdsOf(p, {"file", "dir"}) :
       Becomes(FClose(fsrv, p, fd))

\* linux_dup_to, whose target is closed first
FDup ==
  /\ FMakes("dup")
  /\ \E p \in fsrv.live : \E from \in FdsOf(p, {"file", "dir"}) : \E to \in FileFds \ {from} :
       LET s == IF fsrv.fds[p][to].kind = "none" THEN fsrv ELSE FClose(fsrv, p, to)
       IN Becomes([s EXCEPT !.fds[p][to] = s.fds[p][from],
                            !.files[s.fds[p][from].file].refs = @ + 1])

FAsk ==
  /\ FMakes("ask") /\ fsrv.v.next <= fmakes.handles
  /\ \E p \in fsrv.live, kind \in fmakes.asks : \E a \in GoodArgs(p) :
       Becomes(AskAt(fsrv, p, kind, a))

\* linux_mkdirat, linux_mknodat, linux_symlinkat: EEXIST if it is there
FMake ==
  /\ FMakes("make") /\ FRoom
  /\ \E p \in fsrv.live : \E a \in GoodArgs(p) \ Present(p) :
       LET s == EnsureCwd(fsrv, p, a)
           t == Target(s, p, a)
           made == Create(s, p, a)
       IN Becomes(Called(made, Lookup(made, t), Domain(t[1])))

\* linux_unlinkat and linux_rmdir
Unlinked(s, t) == NoteMutation(VfsUnlink(Rebound(s, {t}), t), {Domain(t[1])})
FUnlink ==
  /\ FMakes("unlink") /\ fsrv.v.next <= fmakes.handles
  /\ \E p \in fsrv.live : \E a \in Present(p) :
       Becomes(Unlinked(EnsureCwd(fsrv, p, a), Target(fsrv, p, a)))

\* linux_renameat2 and linux_linkat: every domain changes
Moved(s, n, old, new, keep) ==
  LET gone == IF keep THEN {} ELSE {old}
      bound == Called(Rebound(s, {new} \cup gone), n, Domain(new[1]))
  IN NoteMutation([bound EXCEPT !.v.name = [t \in FPaths |->
       IF t = new THEN n ELSE IF t \in gone THEN Shut ELSE @[t]]], Domains)
FMove ==
  /\ fsrv.v.next < fmakes.handles
  /\ \E p \in fsrv.live, keep \in BOOLEAN :
       /\ FMakes(IF keep THEN "link" ELSE "rename")
       /\ \E a \in Present(p), b \in GoodArgs(p) :
            LET s == EnsureCwd(EnsureCwd(fsrv, p, a), p, b)
                old == Target(s, p, a)
                new == Target(s, p, b)
            IN /\ old # new /\ (keep => Lookup(s, new) = Shut)
               /\ Becomes(Moved(s, Lookup(s, old), old, new, keep))

\* linux_chmodat notes the normalised path
FChmodAt ==
  /\ FMakes("chmod") /\ fsrv.v.next <= fmakes.handles
  /\ \E p \in fsrv.live : \E a \in Present(p) :
       LET s == EnsureCwd(fsrv, p, a)
           t == Target(s, p, a)
           n == Lookup(s, t)
       IN Becomes(NoteMutation([Called(s, n, TextDomain(s, p, a))
                                  EXCEPT !.v.node[n].mode = 1 - @], {Domain(t[1])}))

\* linux_utimensat notes an absolute path as it is written, else every domain
FUtimens ==
  /\ FMakes("chmod") /\ fsrv.v.next <= fmakes.handles
  /\ \E p \in fsrv.live : \E a \in Present(p) :
       LET s == EnsureCwd(fsrv, p, a)
           n == Lookup(s, Target(s, p, a))
       IN Becomes(NoteMutation([Called(s, n, TextDomain(s, p, a))
                                  EXCEPT !.v.node[n].time = 1 - @],
                               IF a.base = "abs" THEN {Domain(a.dir)} ELSE Domains))

\* linux_mount puts an empty directory over d (the VFS refuses a second one),
\* linux_umount2 takes it away: other files answer to the same names
Names(d) == {t \in FPaths : t[1] = d}
Covered(s, d) == \E t \in Names(d) : s.v.under[t] >= 0
Mounted(s, d) ==
  [s EXCEPT !.v.under = [t \in FPaths |-> IF t[1] = d THEN s.v.name[t] ELSE @[t]],
            !.v.name = [t \in FPaths |-> IF t[1] = d THEN Shut ELSE @[t]]]
Unmounted(s, d) ==
  [s EXCEPT !.v.name = [t \in FPaths |-> IF t[1] = d THEN s.v.under[t] ELSE @[t]],
            !.v.under = [t \in FPaths |-> IF t[1] = d THEN -1 ELSE @[t]]]
FMount ==
  /\ FMakes("mount")
  /\ \E d \in fmakes.dirs \ {"/"} :
       LET s == Rebound(fsrv, Names(d))
       IN Becomes(NoteMutation(IF Covered(s, d) THEN Unmounted(s, d) ELSE Mounted(s, d),
                               {Domain(d)}))

\* linux_fchmod and linux_fchown: the path the descriptor was opened by
FChangeFd ==
  /\ FMakes("fchmod")
  /\ \E p \in fsrv.live : \E fd \in FdsOf(p, {"file"}) :
       LET d == fsrv.fds[p][fd]
           n == NodeOf(fsrv, d)
       IN Becomes(NoteMutation([fsrv EXCEPT !.v.node[n].mode = 1 - @],
                               {Domain(d.path[1])}))

\* linux_truncate and linux_chownat: opened, changed and closed
FTruncateAt ==
  /\ FMakes("truncate") /\ FRoom
  /\ \E p \in fsrv.live : FreeSlots(fsrv, p) # {} /\ \E a \in Present(p) :
       LET fd == Min(FreeSlots(fsrv, p))
           s == OpenFile(fsrv, p, a, {}, FALSE)
       IN Becomes(FClose(FtruncateFd(s, p, fd), p, fd))

FTruncateFd ==
  /\ FMakes("write")
  /\ \E p \in fsrv.live : \E fd \in FdsOf(p, {"file"}) :
       Becomes(FtruncateFd(fsrv, p, fd))

FWrite ==
  /\ FMakes("write") /\ fsrv.written < MaxWrites
  /\ \E p \in fsrv.live, append \in BOOLEAN : \E fd \in FdsOf(p, {"file"}) :
       Becomes(WriteFd(fsrv, p, fd, append))
FSendFile ==
  /\ FMakes("sendfile") /\ fsrv.written < MaxWrites
  /\ \E p \in fsrv.live : \E from \in FdsOf(p, {"file"}), to \in FdsOf(p, {"file"}) :
       Becomes(SendFile(fsrv, p, from, to))
FRead ==
  /\ FMakes("read")
  /\ \E p \in fsrv.live, long \in BOOLEAN : \E fd \in FdsOf(p, {"file"}) :
       Becomes(ReadFd(fsrv, p, fd, long))

\* linux_mmap_read of a page the descriptor's size reaches
FMmapRead ==
  /\ FMakes("mmap")
  /\ \E p \in fsrv.live, off \in 0 .. MaxWrites - 1 : \E fd \in FdsOf(p, {"file"}) :
       /\ off < fsrv.files[fsrv.fds[p][fd].file].size
       /\ Becomes(ThroughReads(fsrv, fsrv.fds[p][fd], off))
FSeek ==
  /\ FMakes("read")
  /\ \E p \in fsrv.live : \E fd \in FdsOf(p, {"file"}), to \in {0, 1} :
       Becomes([fsrv EXCEPT !.files[fsrv.fds[p][fd].file].off =
                              IF to = 0 THEN 0
                              ELSE fsrv.files[fsrv.fds[p][fd].file].size])
FGetDents ==
  /\ FMakes("list")
  /\ \E p \in fsrv.live : \E fd \in FdsOf(p, {"dir"}) :
       Becomes(GetDents(fsrv, fsrv.fds[p][fd].path[1]))

FChdir ==
  /\ FMakes("chdir") /\ fsrv.v.next <= fmakes.handles
  /\ \E p \in fsrv.live, short \in BOOLEAN :
       \E d \in fmakes.dirs \cup {fsrv.fds[p][fd].path[1] : fd \in FdsOf(p, {"dir"})} :
         Becomes(ChangeDir(fsrv, p, d, short))

\* linux_fork_process; failing: the child's task is not registered with proc,
\* and everything it inherited is given back
FFork ==
  /\ FMakes("fork")
  /\ \E p \in fsrv.live, q \in FilePids \ fsrv.live, failing \in BOOLEAN :
       LET s == ForkFiles(fsrv, p, q)
       IN Becomes(IF failing THEN ResetFiles(s, q) ELSE s)
FExit ==
  /\ FMakes("exit")
  /\ \E p \in fsrv.live : Becomes(ResetFiles(fsrv, p))

FNext ==
  \/ FOpenAt \/ FOpenDir \/ FOpenTmp \/ FCloseAt \/ FDup \/ FAsk \/ FMake \/ FUnlink
  \/ FMove \/ FChmodAt \/ FUtimens \/ FMount \/ FChangeFd \/ FTruncateAt \/ FTruncateFd
  \/ FWrite \/ FSendFile \/ FRead \/ FMmapRead \/ FSeek \/ FGetDents \/ FChdir
  \/ FFork \/ FExit

FSpec == FInit /\ [][FNext]_fvars

-----------------------------------------------------------------------------
(* Properties                                                               *)

\* Descriptors, open files and VFS state have the shapes the server keeps
FilesTypeOK ==
  /\ \A p \in FilePids, fd \in FileFds :
       /\ fsrv.fds[p][fd].kind \in {"none", "file", "dir"}
       /\ fsrv.fds[p][fd].file \in 0 .. MaxOpen
  /\ \A i \in 1 .. MaxOpen : fsrv.files[i].handle \in 0 .. MaxHandle
  /\ \A t \in FPaths : fsrv.v.name[t] \in 0 .. MaxNode

\* Nothing is left behind and nothing is let go too soon, whatever fails on
\* the way: an open file has as many references as descriptors, the handles
\* open at the VFS are exactly those of open files and working directories
\* (counted by file_refs), and the hidden name of an O_TMPFILE file is there
\* only while a descriptor of it is
NothingLeftOpen ==
  LET s == fsrv
      slots == FilePids \X FileFds
      held(i) == {x \in slots : s.fds[x[1]][x[2]].file = i}
      homes(h) == {p \in FilePids : s.cwd[p].handle = h}
      used == {i \in 1 .. MaxOpen : s.files[i].refs > 0}
  IN /\ \A i \in 1 .. MaxOpen : s.files[i].refs = Cardinality(held(i))
     /\ \A h \in Handles :
          /\ s.refs[h] = Cardinality(homes(h))
          /\ s.v.open[h] # Nothing <=>
               \/ homes(h) # {} \/ \E i \in used : s.files[i].handle = h
     /\ \A t \in FPaths : t[2] \in ToSet(TmpNames) /\ s.v.name[t] # Shut =>
          \E x \in slots : s.fds[x[1]][x[2]].tmp /\ s.fds[x[1]][x[2]].path = t

\* A file that was only ever called by names of one of the domains /etc, /run
\* and the rest is cached truthfully: what the access, stat, listing, read and
\* read-ahead caches would answer is what the VFS would answer now.  (A path
\* that somebody held open when it was given to another file is left out for
\* reads: the read cache knows files by their paths.)
CachesTellTheTruth ==
  LET s == fsrv
      local(n, d) == n = Shut \/ s.v.node[n].called \subseteq {d}
      entries == ToSet(s.all) \cup UNION {ToSet(s.mine[p]) : p \in FilePids}
  IN /\ \A e \in entries :
          e.domain = Domain(e.path[1]) /\ local(Lookup(s, e.path), e.domain) =>
            e.answer = VfsAnswer(s, e.kind, e.path)
     /\ \A e \in ToSet(s.lists) : e.names = Listing(s, "etc")
     /\ \A e \in ToSet(s.reads) :
          LET n == Lookup(s, e.path)
          IN n # Shut /\ local(n, e.domain) /\ e.path \notin s.v.rebound =>
               e.data = At(s.v.node[n].data, e.off)
     /\ \A i \in 1 .. MaxOpen : \A e \in ToSet(s.files[i].ahead) :
          LET n == s.v.open[s.files[i].handle].node
          IN local(n, e.domain) =>
               e.data = Slice(s.v.node[n].data, e.off, e.off + Len(e.data))

\* What the notes on the access cache claim: it never answers across a change
\* of the file system
NoAnswerAcrossMutation ==
  \A p \in FilePids : \A e \in ToSet(fsrv.mine[p]) :
    e.answer = VfsAnswer(fsrv, e.kind, e.path)
=============================================================================
