---------------------------- MODULE TmpfsServer -----------------------------
(* The tmpfs server: names (struct tmpfs_file) with their inodes, and open     *)
(* handles.  A path is the sequence of its components, <<>> the root.  A name *)
(* is its address: a freed one is given to the next allocation, so a handle   *)
(* that outlives its name may come to refer to another.  What the user server *)
(* says of an access is an input.                                             *)
EXTENDS Integers, Sequences, FiniteSets, SequencesExt

CONSTANTS
  TScenarios,
  MaxFile,          \* addresses for names, and as many inodes
  MaxSize,          \* largest file
  FirstCapacity     \* capacity of the first allocation: 64

VARIABLES tfs, tdoes
tvars == <<tfs, tdoes>>

-----------------------------------------------------------------------------
(* Names                                                                     *)

TIsRoot(t, p) == p = <<>> \/ p \in t.roots
TParent(p) == Front(p)
TUnder(p, q) == Len(p) > Len(q) /\ SubSeq(p, 1, Len(q)) = q     \* path_has_prefix_child
TFind(t, p) == {f \in DOMAIN t.files : ~t.files[f].gone /\ t.files[f].path = p}
TNode(t, f) == t.nodes[t.files[f].node]
TIsDir(t, p) == TIsRoot(t, p) \/ \E f \in TFind(t, p) : TNode(t, f).kind = "dir"
THas(t, p) == TIsRoot(t, p) \/ TFind(t, p) # {}
TChildren(t, p) ==
  {f \in DOMAIN t.files : ~t.files[f].gone /\ Len(t.files[f].path) = Len(p) + 1
                          /\ TUnder(t.files[f].path, p)}
TFree(S) == {i \in 1 .. MaxFile : i \notin S /\ \A j \in 1 .. i - 1 : j \in S}

\* inode_release, file_release, file_unlink: freed when the count reaches 0,
\* a count that only handles raise
TWithout(fn, i) == [j \in DOMAIN fn \ {i} |-> fn[j]]
TInodeRelease(t, i) ==
  IF t.nodes[i].refs <= 1 THEN [t EXCEPT !.nodes = TWithout(@, i)]
  ELSE [t EXCEPT !.nodes[i].refs = @ - 1]
TRelease_KeepsNode(t, f) ==                                          \* a mutant
  LET r == t.files[f].refs
  IN IF r <= 1 /\ t.files[f].gone THEN [t EXCEPT !.files = TWithout(@, f)]
     ELSE [t EXCEPT !.files[f].refs = IF r = 0 THEN 0 ELSE r - 1]
TRelease(t, f) ==
  LET r == t.files[f].refs
  IN IF r <= 1 /\ t.files[f].gone
     THEN TInodeRelease([t EXCEPT !.files = TWithout(@, f)], t.files[f].node)
     ELSE [t EXCEPT !.files[f].refs = IF r = 0 THEN 0 ELSE r - 1]
TDetach(t, f) ==
  TRelease([t EXCEPT !.files[f].gone = TRUE,
                     !.wild = @ \/ t.files[f].refs > 0], f)

TName(p, i) == [path |-> p, refs |-> 0, gone |-> FALSE, node |-> i, stray |-> FALSE]
TInode(kind) ==
  [refs |-> 1, kind |-> kind, mode |-> "old", size |-> 0, data |-> <<>>, wrote |-> {}]
TRoom(t) == TFree(DOMAIN t.files) # {} /\ TFree(DOMAIN t.nodes) # {}
TPlace(fn, i, v) == [j \in DOMAIN fn \cup {i} |-> IF j = i THEN v ELSE fn[j]]
\* file_create
TMake(t, p, kind) ==
  LET f == CHOOSE x \in TFree(DOMAIN t.files) : TRUE
      i == CHOOSE x \in TFree(DOMAIN t.nodes) : TRUE
  IN IF ~TIsDir(t, TParent(p)) \/ TFind(t, p) # {} \/ ~TRoom(t) THEN t
     ELSE [t EXCEPT !.files = TPlace(@, f, TName(p, i)),
                    !.nodes = TPlace(@, i, TInode(kind))]
\* mkdir_p_path: from the top, until something is in the way
TMakeDirs(t, p) ==
  LET step(r, n) ==
        LET q == SubSeq(p, 1, n)
            m == TMake(r.t, q, "dir")
        IN IF ~r.ok THEN r
           ELSE IF THas(r.t, q) THEN [r EXCEPT !.ok = TIsDir(r.t, q)]
           ELSE [ok |-> THas(m, q), t |-> m]
  IN FoldLeft(step, [ok |-> TRUE, t |-> t], [n \in 1 .. Len(p) |-> n]).t
\* file_link_to_path
TLinkTo(t, f, p) ==
  LET g == CHOOSE x \in TFree(DOMAIN t.files) : TRUE
      i == t.files[f].node
  IN IF TFind(t, p) # {} \/ ~TIsDir(t, TParent(p)) \/ TNode(t, f).kind = "dir"
        \/ TFree(DOMAIN t.files) = {} THEN t
     ELSE [t EXCEPT !.files = TPlace(@, g, TName(p, i)), !.nodes[i].refs = @ + 1]

\* file_move_to_path, which does not ask what the new parent is, and
\* file_move_subtree_to_path; short: no memory for the new paths
TStray(t, p) == ~TIsDir(t, TParent(p)) \/ \E f \in TFind(t, TParent(p)) : t.files[f].stray
TMove(t, f, new, short) ==
  IF TFind(t, new) # {} \/ short THEN t
  ELSE [t EXCEPT !.files[f].path = new, !.files[f].stray = TStray(t, new)]
TMoved(old, new, p) == new \o SubSeq(p, Len(old) + 1, Len(p))
TMoveTree_OnlyTop(t, f, new, short) == TMove(t, f, new, short)       \* a mutant
TMoveTree(t, f, new, short) ==
  LET old == t.files[f].path
      moves == {g \in DOMAIN t.files : ~t.files[g].gone /\
                  (t.files[g].path = old \/ TUnder(t.files[g].path, old))}
      taken == \E g \in moves : \E h \in TFind(t, TMoved(old, new, t.files[g].path)) : h \notin moves
  IN IF ~TIsDir(t, TParent(new)) \/ TUnder(new, old) \/ taken \/ short THEN t
     ELSE [t EXCEPT !.files = [g \in DOMAIN @ |->
            IF g \in moves THEN [@[g] EXCEPT !.path = TMoved(old, new, @)] ELSE @[g]]]
\* the rename handler: what is in the way goes first
TRename(t, f, new, keep, short) ==
  LET old == t.files[f].path
      at == TFind(t, new)
      dir == TNode(t, f).kind = "dir"
      over(g) == TNode(t, g).kind = "dir"
      refused == \/ dir /\ TUnder(new, old)
                 \/ at # {} /\ keep
                 \/ \E g \in at : over(g) # dir \/ (dir /\ TChildren(t, new) # {})
      clear == IF at = {} THEN t ELSE TDetach(t, CHOOSE g \in at : TRUE)
  IN IF old = new \/ refused THEN t
     ELSE IF dir THEN TMoveTree(clear, f, new, short) ELSE TMove(clear, f, new, short)

-----------------------------------------------------------------------------
(* Contents                                                                  *)

\* file_resize: the capacity doubles, and what is new is zero
TCapacity(old, size) ==
  IF size <= old THEN old
  ELSE CHOOSE c \in {FirstCapacity * 2 ^ k : k \in 0 .. MaxSize} :
         /\ c >= size /\ c >= old
         /\ \A d \in {FirstCapacity * 2 ^ k : k \in 0 .. MaxSize} : d >= size /\ d >= old => c <= d
TResized_Dirty(n, size) ==                                           \* a mutant
  [n EXCEPT !.data = [i \in 1 .. TCapacity(Len(@), size) |-> IF i <= Len(@) THEN @[i] ELSE 1]]
TResized(n, size) ==
  [n EXCEPT !.data = [i \in 1 .. TCapacity(Len(@), size) |-> IF i <= Len(@) THEN @[i] ELSE 0]]
\* file_set_size: growing clears, shrinking only forgets
TSetSize(n, size) ==
  LET m == TResized(n, size)
  IN [m EXCEPT !.size = size,
               !.data = [i \in DOMAIN @ |-> IF i > n.size /\ i <= size THEN 0 ELSE @[i]]]
\* the write handler: what lies between the old end and pos stays as it was
TWritten(n, pos, len) ==
  LET m == TResized(n, pos + len)
  IN [m EXCEPT !.data = [i \in DOMAIN @ |-> IF i > pos /\ i <= pos + len THEN 1 ELSE @[i]],
               !.wrote = @ \cup pos + 1 .. pos + len,
               !.size = IF pos + len > @ THEN pos + len ELSE @]
\* the read handler, and a page of a mapping
TRead(n, pos, len) == SubSeq(n.data, pos + 1, IF pos + len < n.size THEN pos + len ELSE n.size)

-----------------------------------------------------------------------------
(* Handles                                                                   *)

TOpened(t, kind, who, f, p) ==
  LET h == [kind |-> kind, owner |-> who, file |-> f, path |-> p,
            of |-> IF f = 0 THEN 0 ELSE t.files[f].node]
  IN [t EXCEPT !.opens = TPlace(@, t.next, h), !.next = @ + 1]
TOpenPath(t, p, who) ==
  LET f == CHOOSE x \in TFind(t, p) : TRUE
  IN IF TIsRoot(t, p) THEN TOpened(t, "dir", who, 0, p)
     ELSE IF TFind(t, p) = {} THEN t
     ELSE IF TNode(t, f).kind = "dir" THEN TOpened(t, "dir", who, 0, p)
     ELSE TOpened([t EXCEPT !.files[f].refs = @ + 1], "file", who, f, <<>>)
\* close_handle: a handle whose name is gone finds no magic there
TClose(t, h) ==
  LET o == t.opens[h]
      s == [t EXCEPT !.opens = TWithout(@, h)]
  IN IF o.kind = "file" /\ o.file \in DOMAIN s.files THEN TRelease(s, o.file) ELSE s
\* the inode a handle writes: none if its name was freed
TOpenNode(t, h) ==
  LET o == t.opens[h]
  IN IF o.kind = "file" /\ o.file \in DOMAIN t.files THEN {t.files[o.file].node} ELSE {}

-----------------------------------------------------------------------------
(* Requests.  Of the protocol of the VFS only a caller that was granted is     *)
(* served; the first to grant is the only one that may.                      *)

TInit ==
  /\ tdoes \in TScenarios
  /\ tfs = [roots |-> {}, files |-> <<>>, nodes |-> <<>>, opens |-> <<>>, next |-> 1,
            callers |-> {}, grantor |-> 0, wild |-> FALSE]
TDoes(op) == op \in tdoes.ops
TBecomes(t) == tfs' = t /\ UNCHANGED tdoes
TServed == tfs.callers # {}
TAt(p) == TFind(tfs, p)
\* parent_file_for_path, and the user server lets the task use it
TParentFound(p) == TIsRoot(tfs, TParent(p)) \/ TFind(tfs, TParent(p)) # {}

TGrant ==
  \E s \in tdoes.tasks, k \in tdoes.tasks \cup {0} :
    /\ tfs.grantor \in {0, s}
    /\ TBecomes([tfs EXCEPT !.grantor = s, !.callers = @ \cup {IF k = 0 THEN s ELSE k}])
\* mount_root: the VFS is told first; a root that is there is only told again
TMountRoot ==
  /\ TDoes("mount")
  /\ \E p \in tdoes.paths : TBecomes([tfs EXCEPT !.roots = @ \cup {p}])
TMkdirP == TDoes("mkdirp") /\ \E p \in tdoes.paths : TBecomes(TMakeDirs(tfs, p))
\* CREATE, MKDIR, MKNOD and SYMLINK
TCreate ==
  /\ TServed
  /\ \E p \in tdoes.paths, kind \in tdoes.kinds :
       /\ TParentFound(p) /\ ~TIsRoot(tfs, p)
       /\ TBecomes(TMake(tfs, p, kind))
\* a symlink whose target finds no memory is unlinked again
TSymlink ==
  /\ TServed /\ TDoes("symlink")
  /\ \E p \in tdoes.paths, short \in BOOLEAN :
       LET m == TMake(tfs, p, "link")
           f == CHOOSE x \in TFind(m, p) : TRUE
       IN /\ TParentFound(p) /\ TAt(p) = {} /\ TFind(m, p) # {}
          /\ TBecomes(IF short THEN TDetach(m, f)
                      ELSE [m EXCEPT !.nodes[m.files[f].node] = TWritten(@, 0, 1)])
TOpen ==
  /\ TServed /\ tfs.next <= tdoes.opens
  /\ \E p \in tdoes.paths, who \in tfs.callers : TBecomes(TOpenPath(tfs, p, who))
TCloseHandle == TServed /\ \E h \in DOMAIN tfs.opens : TBecomes(TClose(tfs, h))
TWrite ==
  /\ TServed /\ TDoes("write")
  /\ \E h \in DOMAIN tfs.opens, pos \in 0 .. MaxSize - 1 : \E i \in TOpenNode(tfs, h) :
       TBecomes([tfs EXCEPT !.nodes[i] = TWritten(@, pos, 1)])
TTruncate ==
  /\ TServed /\ TDoes("write")
  /\ \E size \in 0 .. MaxSize :
       \/ \E h \in DOMAIN tfs.opens : \E i \in TOpenNode(tfs, h) :
            TBecomes([tfs EXCEPT !.nodes[i] = TSetSize(@, size)])
       \/ \E p \in tdoes.paths : \E f \in TAt(p) :
            /\ TNode(tfs, f).kind = "file"
            /\ TBecomes([tfs EXCEPT !.nodes[tfs.files[f].node] = TSetSize(@, size)])
\* reply_set_meta, reply_utimens
TMeta(t, i) == [t EXCEPT !.nodes[i].mode = "new"]
\* CHMOD, CHOWN and UTIMENS, by path or by handle; a directory by its old path
TSetMeta ==
  /\ TServed /\ TDoes("meta")
  /\ \/ \E p \in tdoes.paths : \E f \in TAt(p) :
          TBecomes(TMeta(tfs, tfs.files[f].node))
     \/ \E h \in DOMAIN tfs.opens :
          LET o == tfs.opens[h] IN
          \E i \in IF o.kind = "dir" THEN {tfs.files[f].node : f \in TFind(tfs, o.path)}
                   ELSE TOpenNode(tfs, h) :
            TBecomes(TMeta(tfs, i))
TUnlink ==
  /\ TServed
  /\ \E p \in tdoes.paths : \E f \in TAt(p) :
       TParentFound(p) /\ TNode(tfs, f).kind # "dir" /\ TBecomes(TDetach(tfs, f))
TRmdir ==
  /\ TServed
  /\ \E p \in tdoes.paths : \E f \in TAt(p) :
       /\ TParentFound(p) /\ TNode(tfs, f).kind = "dir" /\ TChildren(tfs, p) = {}
       /\ TBecomes(TDetach(tfs, f))
TRenamePath ==
  /\ TServed /\ TDoes("rename")
  /\ \E p, q \in tdoes.paths, keep, short \in BOOLEAN : \E f \in TAt(p) :
       /\ ~TIsRoot(tfs, p) /\ ~TIsRoot(tfs, q) /\ TParentFound(p) /\ TParentFound(q)
       /\ TBecomes(TRename(tfs, f, q, keep, short))
TLinkPath ==
  /\ TServed /\ TDoes("link")
  /\ \E p, q \in tdoes.paths : \E f \in TAt(p) :
       /\ ~TIsRoot(tfs, p) /\ ~TIsRoot(tfs, q) /\ TParentFound(q)
       /\ TBecomes(TLinkTo(tfs, f, q))

TNext ==
  \/ TGrant \/ TMountRoot \/ TMkdirP \/ TCreate \/ TSymlink \/ TOpen \/ TCloseHandle
  \/ TWrite \/ TTruncate \/ TSetMeta \/ TUnlink \/ TRmdir \/ TRenamePath \/ TLinkPath
TSpec == TInit /\ [][TNext]_tvars

-----------------------------------------------------------------------------
(* Properties                                                                *)

\* Names refer to inodes there are, sizes stay within capacities, no two names
\* have one path, and only tasks that were granted own handles
TmpfsTypeOK ==
  /\ \A f \in DOMAIN tfs.files : tfs.files[f].node \in DOMAIN tfs.nodes
  /\ \A i \in DOMAIN tfs.nodes : tfs.nodes[i].size <= Len(tfs.nodes[i].data)
  /\ \A f, g \in DOMAIN tfs.files :
       ~tfs.files[f].gone /\ ~tfs.files[g].gone /\ tfs.files[f].path = tfs.files[g].path => f = g
  /\ \A h \in DOMAIN tfs.opens : tfs.opens[h].owner \in tfs.callers

\* However names are made, linked, moved over each other and unlinked: an inode
\* counts its names, so it is freed with the last one; the parent of a name is
\* a directory (unless the rename of a file put it below one); a byte that was
\* never written reads 0; and until a name is unlinked while open, a handle
\* refers to the inode it was opened for and every name counts its handles
TmpfsSound ==
  /\ \A i \in DOMAIN tfs.nodes :
       tfs.nodes[i].refs = Cardinality({f \in DOMAIN tfs.files : tfs.files[f].node = i})
  /\ \A f \in DOMAIN tfs.files :
       ~tfs.files[f].gone /\ ~tfs.files[f].stray => TIsDir(tfs, TParent(tfs.files[f].path))
  /\ \A i \in DOMAIN tfs.nodes, b \in 1 .. MaxSize :
       b \notin tfs.nodes[i].wrote => TRead(tfs.nodes[i], b - 1, 1) \in {<<>>, <<0>>}
  /\ ~tfs.wild =>
       /\ \A h \in DOMAIN tfs.opens : tfs.opens[h].kind = "file" =>
            tfs.opens[h].file \in DOMAIN tfs.files /\ TOpenNode(tfs, h) = {tfs.opens[h].of}
       /\ \A f \in DOMAIN tfs.files : tfs.files[f].refs =
            Cardinality({h \in DOMAIN tfs.opens : tfs.opens[h].file = f})
=============================================================================
