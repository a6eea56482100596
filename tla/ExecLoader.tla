----------------------------- MODULE ExecLoader -----------------------------
(* How a program is started: execve collects the arguments in the kernel, asks *)
(* the Linux server to rewrite them for a script, and hands them to the process *)
(* server, which reads the ELF file, clears the task, maps the segments and     *)
(* builds the initial stack.  Spawning enters at the process server.            *)
(* A string is a pair <<name, length>>; what is laid out is measured in units of *)
(* which a machine word takes EWord and a page EPage.                           *)
EXTENDS Integers, Sequences, FiniteSets, SequencesExt

CONSTANTS
  EScenarios,
  EMaxString, EMaxBytes, EMaxPointers,     \* LINUX_EXEC_MAX_STRING and the like
  EMaxPath,                                \* LINUX_MAX_PATH
  EMaxDepth,                               \* LINUX_SHEBANG_MAX_DEPTH
  ESpawnMax, EStackMax, ECmdMax,           \* PROC_SPAWN_BUFFER_MAX and the like
  EWord, EPage, EAuxPairs

VARIABLES ldr, edoes
evars == <<ldr, edoes>>

ENoString == <<0, 0>>
ERandomBytes == <<-1, 0>>
EPhdrsCopy == <<-2, 0>>
EWordsOf == <<-3, 0>>
ESize(str) == str[2] + 1
EBytes(strs) == FoldLeft(LAMBDA n, str : n + ESize(str), 0, strs)
EHasEmpty(strs) == \E i \in DOMAIN strs : strs[i][2] = 0

-----------------------------------------------------------------------------
(* The kernel: collecting, and the exchange with the Linux server.            *)

\* linux_exec_collect_args, linux_exec_collect_env: no argv, or an empty one, is
\* the path alone
EVectorOK(strs) ==
  Len(strs) <= EMaxPointers /\ \A i \in DOMAIN strs : ESize(strs[i]) <= EMaxString
ECollected(path, argv) == IF argv = <<>> THEN <<path>> ELSE argv
ECollectOK(argv, env) ==
  EVectorOK(argv) /\ EVectorOK(env) /\ EBytes(argv) + EBytes(env) <= EMaxBytes
\* linux_exec_serialize_args of the Linux server: a string longer than a path is
\* cut, and linux_exec_deserialize_args then misses its end
ECut(strs) == \E i \in DOMAIN strs : strs[i][2] > EMaxPath
ERewrite_KeepsName(argv, script, f) ==
  <<f.interp>> \o (IF f.arg = ENoString THEN <<>> ELSE <<f.arg>>) \o argv
\* linux_exec_rewrite_shebang_args
ERewrite(argv, script, f) ==
  <<f.interp>> \o (IF f.arg = ENoString THEN <<>> ELSE <<f.arg>>) \o <<script>> \o Tail(argv)
\* linux_exec_parse_shebang, linux_exec_prepare, and what the kernel makes of it
EParsed(f) == f.interp # ENoString
EReadBack(argv, env) == ~ECut(argv) /\ ~ECut(env)
EPrepareOK(argv, env) == ECollectOK(argv, env) /\ EReadBack(argv, env)

\* linux_exec_replace_buffer_create: five words of credentials, then the strings
ETotal(load, path, argv, env) ==
  5 * EWord + ESize(load) + ESize(path) + EBytes(argv) + EBytes(env)

-----------------------------------------------------------------------------
(* The process server: segments.                                              *)

EDown(n, to) == n - (n % to)
EUp(n, to) == EDown(n + to - 1, to)
EMaxOf(m, n) == IF m > n THEN m ELSE n
EMinOf(m, n) == IF m < n THEN m ELSE n
EBias(f) == IF f.dyn THEN f.bias ELSE 0

\* vfs_read_file: within the size of the file
EReads(f, offset, len) == offset <= f.size /\ len <= f.size - offset
EPageOf_FromStart(name, seg, bias, page) ==
  LET from == EMaxOf(page, seg.vaddr + bias)
      to == EMinOf(page + EPage, seg.vaddr + bias + seg.filesz)
      dst == from - page
      len == IF from < to THEN to - from ELSE 0
  IN [d \in 0 .. EPage - 1 |->
        IF d \in dst .. dst + len - 1 THEN <<name, seg.offset + (d - dst)>> ELSE ENoString]
\* one turn of the inner loop of map_load_segments
EPageOf(name, seg, bias, page) ==
  LET from == EMaxOf(page, seg.vaddr + bias)
      to == EMinOf(page + EPage, seg.vaddr + bias + seg.filesz)
      dst == from - page
      src == from - bias - seg.vaddr
      len == IF from < to THEN to - from ELSE 0
  IN [d \in 0 .. EPage - 1 |->
        IF d \in dst .. dst + len - 1 THEN <<name, seg.offset + src + (d - dst)>> ELSE ENoString]
EPagesOf(seg, bias) ==
  {p \in EDown(seg.vaddr + bias, EPage) .. EUp(seg.vaddr + bias + seg.memsz, EPage) - 1 :
     p % EPage = 0}
\* server_task_map refuses a page the task has already
ESegment(mem, f, seg) ==
  LET new == EPagesOf(seg, EBias(f))
  IN [ok |-> /\ mem.ok /\ seg.filesz <= seg.memsz /\ EReads(f, seg.offset, seg.filesz)
             /\ new \cap DOMAIN mem.at = {},
      at |-> [p \in DOMAIN mem.at \cup new |->
                IF p \in new THEN EPageOf(f.name, seg, EBias(f), p) ELSE mem.at[p]]]
ESegments(mem, f) == FoldLeft(LAMBDA m, seg : ESegment(m, f, seg), mem, f.segs)
\* elf_offset_to_vaddr, for the program headers
EPhdrSegs(f) ==
  {i \in DOMAIN f.segs : f.segs[i].offset <= f.phoff
                         /\ f.phoff + f.phsize <= f.segs[i].offset + f.segs[i].filesz}
EPhdrAddr(f) ==
  IF EPhdrSegs(f) = {} THEN 0
  ELSE LET seg == f.segs[CHOOSE i \in EPhdrSegs(f) : \A j \in EPhdrSegs(f) : i <= j]
       IN EBias(f) + seg.vaddr + (f.phoff - seg.offset)

-----------------------------------------------------------------------------
(* The process server: build_initial_stack, from the top down.                *)

\* what lies where: at is the place of each thing pushed, sp the lowest
EPush(k, thing, len) ==
  [ok |-> k.ok /\ len <= k.sp, sp |-> k.sp - len,
   at |-> Append(k.at, [thing |-> thing, from |-> k.sp - len, len |-> len])]
EPushString(k, str) == EPush(k, str, ESize(str))
EAlignSp(k, to) == [k EXCEPT !.sp = EDown(@, to)]
EPairs(hasInterp) == IF hasInterp THEN EAuxPairs + 1 ELSE EAuxPairs
EStackWords(argv, env, hasInterp) == 1 + Len(argv) + 1 + Len(env) + 1 + 2 * EPairs(hasInterp)
EStrings(argv, env, path) ==
  EPushString(FoldLeft(EPushString,
    FoldLeft(EPushString, [ok |-> TRUE, sp |-> EStackMax, at |-> <<>>], Reverse(env)),
    Reverse(argv)), path)
EStack_NoArgs(argv, env, path, f, hasInterp) ==
  EPush(EAlignSp(EPush(EAlignSp(EPush(EAlignSp(EStrings(argv, env, path), 2 * EWord),
                                      ERandomBytes, 2 * EWord),
                                EWord),
                       EPhdrsCopy, f.phsize),
                 2 * EWord),
        EWordsOf, (3 + Len(env) + 2 * EPairs(hasInterp)) * EWord)

EStack(argv, env, path, f, hasInterp) ==
  EPush(EAlignSp(EPush(EAlignSp(EPush(EAlignSp(EStrings(argv, env, path), 2 * EWord),
                                      ERandomBytes, 2 * EWord),
                                EWord),
                       EPhdrsCopy, f.phsize),
                 2 * EWord),
        EWordsOf, EStackWords(argv, env, hasInterp) * EWord)
-----------------------------------------------------------------------------
(* The state.                                                                 *)

EFile(str) == IF str[1] \in DOMAIN edoes.files THEN edoes.files[str[1]] ELSE edoes.missing
EInit ==
  /\ edoes \in EScenarios
  /\ \E argv \in edoes.argvs, env \in edoes.envs, path \in edoes.paths, how \in edoes.hows,
        fault \in edoes.faults :
       ldr = [stage |-> IF how = "spawn" THEN "decode" ELSE "collect", how |-> how, fault |-> fault,
              path |-> path, load |-> path, want |-> argv, argv |-> argv, env |-> env, depth |-> 0,
              res |-> "none", mem |-> [ok |-> how # "spawn", at |-> <<>>], old |-> how # "spawn",
              open |-> {}, leak |-> {}, token |-> FALSE, stack |-> <<>>, entry |-> ENoString,
              cmd |-> FALSE, parent |-> how = "vfork"]
EBecomes(s) == ldr' = s /\ UNCHANGED edoes
EAt(stage) == ldr.stage = stage
EFails(s, why) == [s EXCEPT !.stage = "failed", !.res = why]
EFault(at) == ldr.fault = at

\* linux_execve up to the shebang loop
ECollect ==
  /\ EAt("collect")
  /\ LET argv == ECollected(ldr.path, ldr.want)
     IN EBecomes(IF ECollectOK(argv, ldr.env)
                 THEN [ldr EXCEPT !.argv = argv, !.stage = "prefix"]
                 ELSE EFails(ldr, "E2BIG"))

\* linux_vfs_read_prefix, which does not close what is not a regular file
EReadPrefix ==
  /\ EAt("prefix")
  /\ LET f == EFile(ldr.load)
     IN EBecomes(
          CASE f.kind = "missing" -> EFails(ldr, "ENOENT")
            [] f.kind = "dir" -> EFails([ldr EXCEPT !.leak = @ \cup {"prefix"}], "EACCES")
            [] f.kind = "empty" \/ EFault("prefix") -> EFails(ldr, "EIO")
            [] f.kind # "script" -> [ldr EXCEPT !.stage = "replace"]
            [] ldr.depth + 1 = EMaxDepth -> EFails(ldr, "EINVAL")
            [] OTHER -> [ldr EXCEPT !.stage = "shebang"])

\* linux_exec_prepare_shebang with the Linux server's answer
EShebang ==
  /\ EAt("shebang")
  /\ LET f == EFile(ldr.load)
         argv == ERewrite(ldr.argv, ldr.load, f)
     IN EBecomes(IF ~EParsed(f) \/ ~EPrepareOK(argv, ldr.env)
                 THEN EFails(ldr, "EINVAL")
                 ELSE [ldr EXCEPT !.argv = argv, !.load = f.interp, !.depth = @ + 1,
                                  !.stage = "prefix"])

\* linux_proc_exec_replace: the buffer, then the token
EReplace ==
  /\ EAt("replace")
  /\ LET total == ETotal(ldr.load, ldr.path, ldr.argv, ldr.env)
     IN EBecomes(IF total > EMaxBytes THEN EFails(ldr, "E2BIG")
                 ELSE IF EHasEmpty(ldr.argv) \/ EHasEmpty(ldr.env) THEN EFails(ldr, "EFAULT")
                 ELSE IF EFault("token") THEN EFails(ldr, "ENOSYS")
                 ELSE [ldr EXCEPT !.token = TRUE, !.stage = "decode"])

\* exec_strings_from_spawn_buffer; spawn_buffer_string wants no empty string
EBufferOK(s) ==
  /\ ETotal(s.load, s.path, s.argv, s.env) <= ESpawnMax
  /\ s.argv # <<>> /\ ~EHasEmpty(s.argv) /\ ~EHasEmpty(s.env)
ESpawnDecode ==
  /\ EAt("decode") /\ ldr.how = "spawn"
  /\ EBecomes(IF EBufferOK(ldr) THEN [ldr EXCEPT !.stage = "main"] ELSE EFails(ldr, "EINVAL"))
\* exec_replace_from_message: the token is taken first
EDecode ==
  /\ EAt("decode") /\ ldr.how # "spawn"
  /\ LET s == [ldr EXCEPT !.token = FALSE]
     IN EBecomes(IF EBufferOK(s) THEN [s EXCEPT !.stage = "main"] ELSE EFails(s, "EINVAL"))

\* load_task_image, and vfs_open which keeps a directory open
EOpened(s, str, as) ==
  IF EFile(str).kind = "dir" THEN [s EXCEPT !.leak = @ \cup {as}]
  ELSE IF EFile(str).kind = "missing" THEN s
  ELSE [s EXCEPT !.open = @ \cup {as}]
EClosed(s) == [s EXCEPT !.open = {}]
EOut(s, why) == EFails(EClosed(s), why)
EGoodElf(f) == f.kind = "elf" /\ f.segs # <<>> /\ EReads(f, f.phoff, f.phsize)
EOpenMain ==
  /\ EAt("main")
  /\ LET s == EOpened(ldr, ldr.load, "main")
     IN EBecomes(IF EGoodElf(EFile(ldr.load)) /\ ~EFault("main")
                 THEN [s EXCEPT !.stage = "interp"] ELSE EOut(s, "EINVAL"))
EOpenInterp ==
  /\ EAt("interp")
  /\ LET f == EFile(ldr.load)
         s == EOpened(ldr, f.interp, "interp")
     IN EBecomes(IF f.interp = ENoString
                 THEN [ldr EXCEPT !.stage = "clear", !.entry = <<f.name, f.entry>>]
                 ELSE IF EGoodElf(EFile(f.interp)) /\ ~EFault("interp")
                 THEN [s EXCEPT !.stage = "clear",
                                !.entry = <<EFile(f.interp).name, EFile(f.interp).entry>>]
                 ELSE EOut(s, "EINVAL"))
\* bunix_task_clear: from here on the old program is gone
EClear ==
  /\ EAt("clear")
  /\ EBecomes(IF EFault("clear") THEN EOut(ldr, "EINVAL")
              ELSE [ldr EXCEPT !.old = FALSE, !.mem = [ok |-> TRUE, at |-> <<>>], !.stage = "map"])
EMap ==
  /\ EAt("map")
  /\ LET f == EFile(ldr.load)
         m == ESegments(ldr.mem, f)
         n == IF "interp" \in ldr.open THEN ESegments(m, EFile(f.interp)) ELSE m
     IN EBecomes(IF n.ok /\ ~EFault("map") THEN [ldr EXCEPT !.mem = n, !.stage = "stack"]
                 ELSE EOut([ldr EXCEPT !.mem = n], "EINVAL"))
EBuildStack ==
  /\ EAt("stack")
  /\ LET k == EStack(ldr.argv, ldr.env, ldr.path, EFile(ldr.load), "interp" \in ldr.open)
     IN EBecomes(IF k.ok /\ ~EFault("stack")
                 THEN EClosed([ldr EXCEPT !.stack = k.at, !.stage = "enter"])
                 ELSE EOut(ldr, "EINVAL"))

\* linux_exec_process, linux_proc_set_cmdline, linux_vfork_complete_task
ECmdline(argv) == ~EHasEmpty(argv) /\ EBytes(argv) <= ECmdMax
EEnter ==
  /\ EAt("enter")
  /\ EBecomes(IF ldr.how # "spawn" /\ EFault("enter") THEN EFails(ldr, "ESRCH")
              ELSE [ldr EXCEPT !.stage = "running", !.res = "ok", !.cmd = ECmdline(ldr.argv),
                               !.parent = FALSE])
\* linux_exit_current and linux_task_died
EDies ==
  /\ ldr.stage \in {"failed", "running"}
  /\ EBecomes([ldr EXCEPT !.stage = "dead", !.parent = FALSE])
ERest == EAt("dead") /\ UNCHANGED evars

ENext ==
  \/ ECollect \/ EReadPrefix \/ EShebang \/ EReplace \/ ESpawnDecode \/ EDecode \/ EOpenMain \/ EOpenInterp
  \/ EClear \/ EMap \/ EBuildStack \/ EEnter \/ EDies \/ ERest

-----------------------------------------------------------------------------
LoaderTypeOK ==
  /\ ldr.depth \in 0 .. EMaxDepth - 1 /\ ldr.parent \in BOOLEAN
  /\ ldr.open \subseteq {"main", "interp"}

\* The scripts from path down to the program that is loaded.
EIsScript(str) == EFile(str).kind = "script" /\ EFile(str).interp # ENoString
EChain[n \in 0 .. EMaxDepth] ==
  IF n = 0 THEN <<ldr.path>>
  ELSE LET c == EChain[n - 1]
       IN IF EIsScript(Last(c)) THEN Append(c, EFile(Last(c)).interp) ELSE c
EScripts == EChain[EMaxDepth]
EArgOf(str) == IF EFile(str).arg = ENoString THEN <<>> ELSE <<EFile(str).arg>>
EWanted ==
  LET names == ECollected(ldr.path, ldr.want)
      front == FlattenSeq([i \in 1 .. Len(EScripts) - 1 |->
                  LET j == Len(EScripts) - i IN <<EScripts[j + 1]>> \o EArgOf(EScripts[j])])
  IN IF Len(EScripts) = 1 \/ ldr.how = "spawn" THEN names
     ELSE front \o <<ldr.path>> \o Tail(names)
\* A program that runs finds on its stack the arguments and the environment it
\* was given, each once, in memory of its own, below the top of the stack.
EStackStrings == SelectSeq(ldr.stack, LAMBDA e : e.thing \notin {ERandomBytes, EPhdrsCopy, EWordsOf})
ETold ==
  ldr.stage = "running" =>
    /\ [i \in DOMAIN EStackStrings |-> EStackStrings[i].thing] =
         Reverse(ldr.env) \o Reverse(EWanted) \o <<ldr.path>>
    /\ \A i, j \in DOMAIN ldr.stack : i < j =>
         ldr.stack[j].from + ldr.stack[j].len <= ldr.stack[i].from
    /\ ldr.stack[Len(ldr.stack)].from >= 0
    /\ ldr.stack[Len(ldr.stack)].len >=
         EWord * (3 + Len(EWanted) + Len(ldr.env) + 2 * EPairs(EFile(ldr.load).interp # ENoString))
\* Its memory holds every segment of its file, and of the interpreter's: the
\* bytes of the file, then zeroes.  The program headers are where it is told.
EByte(a) == ldr.mem.at[EDown(a, EPage)][a % EPage]
ELoaded(f) ==
  \A i \in DOMAIN f.segs :
    \A n \in 0 .. f.segs[i].memsz - 1 :
      EByte(f.segs[i].vaddr + EBias(f) + n) =
        IF n < f.segs[i].filesz THEN <<f.name, f.segs[i].offset + n>> ELSE ENoString
EImage ==
  ldr.stage = "running" =>
    LET f == EFile(ldr.load) IN
      /\ ELoaded(f)
      /\ f.interp # ENoString => ELoaded(EFile(f.interp)) /\ ldr.entry[1] = EFile(f.interp).name
      /\ EPhdrAddr(f) # 0 => EByte(EPhdrAddr(f)) = <<f.name, f.phoff>>
\* Every file opened on the way is closed again but for directories, the token
\* is not left behind, and a vfork's parent goes on once its child runs or died.
EReleased ==
  ldr.stage \in {"failed", "running", "dead"} =>
    /\ ldr.open = {} /\ ~ldr.token
    /\ ldr.leak # {} => "dir" \in {EFile(ldr.load).kind, EFile(EFile(ldr.load).interp).kind}
    /\ ldr.parent => ldr.stage = "failed"
\* An execve that fails leaves the old program, unless it failed while mapping,
\* or its strings fit the kernel's limits and not the stack.
EFitsStack ==
  EStack(ldr.argv, ldr.env, ldr.path, EFile(ldr.load), EFile(ldr.load).interp # ENoString).ok
EWhole(f) ==
  LET m == ESegments([ok |-> TRUE, at |-> <<>>], f)
  IN IF f.interp = ENoString THEN m ELSE ESegments(m, EFile(f.interp))
EKeepsOld ==
  ldr.stage = "failed" /\ ldr.how # "spawn" /\ ldr.fault = "no" /\ ~ldr.old =>
    ~EFitsStack \/ ~EWhole(EFile(ldr.load)).ok
\* An execve of a program whose strings keep to the limits is not refused.
EKeepsLimits ==
  /\ ldr.how # "spawn" /\ ldr.fault = "no" /\ Len(EScripts) <= EMaxDepth
  /\ EGoodElf(EFile(Last(EScripts))) /\ EFile(Last(EScripts)).interp = ENoString
  /\ EWhole(EFile(Last(EScripts))).ok
  /\ \A str \in Range(EWanted) \cup Range(ldr.env) : str[2] \in 1 .. EMaxPath
  /\ Len(EWanted) <= EMaxPointers /\ Len(ldr.env) <= EMaxPointers
  /\ ETotal(Last(EScripts), ldr.path, EWanted, ldr.env) <= EMaxBytes
  /\ EBytes(ECollected(ldr.path, ldr.want)) + EBytes(ldr.env) <= EMaxBytes
  /\ EStack(EWanted, ldr.env, ldr.path, EFile(Last(EScripts)), FALSE).ok
EAccepts == ldr.stage = "failed" => ~EKeepsLimits
LoaderSound == ETold /\ EImage /\ EReleased /\ EKeepsOld /\ EAccepts
=============================================================================
