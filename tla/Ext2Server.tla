---------------------------- MODULE Ext2Server ------------------------------
(* The ext2 server: bitmaps and the free counts kept beside them, inodes,      *)
(* directory blocks, file blocks, and open handles, each with the copy of the *)
(* inode it was opened with.  Names are of one length, so a directory block   *)
(* has room for so many entries.  Writes to the device succeed.               *)
EXTENDS Integers, Sequences, FiniteSets, SequencesExt

CONSTANTS
  XScenarios,
  XInos, XInosPerGroup, XFirstIno,      \* inodes; the first that may be given out
  XBlocks, XBlocksPerGroup,             \* block 1 is the root directory's
  XDirect,                              \* EXT2_NDIR_BLOCKS
  XBlockSize, XDirSlots,
  XMaxOver                              \* how often a directory replaces a sibling

VARIABLES xfs, xdoes
xvars == <<xfs, xdoes>>

XRoot == 1
XGroups == 0 .. (XBlocks - 1) \div XBlocksPerGroup
XGroupOf(i) == (i - 1) \div XInosPerGroup                     \* inode_group_index
XBlockGroup(b) == (b - 1) \div XBlocksPerGroup
XGroupBlocks(g) == {b \in 1 .. XBlocks : XBlockGroup(b) = g}
XNoBlocks == [l \in 1 .. XDirect |-> 0]
XNone == [kind |-> "none", links |-> 0, size |-> 0, blk |-> XNoBlocks, blocks |-> 0]
XEmpty == [n \in {} |-> 0]
XZero == [up |-> 0, ents |-> XEmpty, data |-> [i \in 1 .. XBlockSize |-> 0]]

-----------------------------------------------------------------------------
(* The bitmaps                                                               *)

XFreeInos(x) ==
  {i \in XFirstIno .. XInos : i \notin x.ibm /\ x.gfi[XGroupOf(i)] > 0 /\ x.fi > 0}
XFreeBlocks(x) == {b \in 1 .. XBlocks : b \notin x.bbm /\ x.gfb[XBlockGroup(b)] > 0 /\ x.fb > 0}
XLeast(S) == CHOOSE i \in S : \A j \in S : i <= j
XAllocInode(x, i) ==
  [x EXCEPT !.ibm = @ \cup {i}, !.fi = @ - 1, !.gfi[XGroupOf(i)] = @ - 1]
XFreeInode(x, i) ==
  IF i \notin x.ibm THEN x
  ELSE [x EXCEPT !.ibm = @ \ {i}, !.fi = @ + 1, !.gfi[XGroupOf(i)] = @ + 1]
XAllocBlock_NoZero(x, b) ==                                              \* a mutant
  [x EXCEPT !.bbm = @ \cup {b}, !.fb = @ - 1, !.gfb[XBlockGroup(b)] = @ - 1]
XAllocBlock(x, b) ==
  [x EXCEPT !.bbm = @ \cup {b}, !.fb = @ - 1, !.gfb[XBlockGroup(b)] = @ - 1,
            !.block[b] = XZero]
XFreeBlock(x, b) ==
  IF b \notin x.bbm THEN x
  ELSE [x EXCEPT !.bbm = @ \ {b}, !.fb = @ + 1, !.gfb[XBlockGroup(b)] = @ + 1]
XUsedDirs(x, i, d) ==
  IF x.gdirs[XGroupOf(i)] + d < 0 THEN x ELSE [x EXCEPT !.gdirs[XGroupOf(i)] = @ + d]

-----------------------------------------------------------------------------
(* Directories                                                               *)

XIsDir(x, i) == i # 0 /\ x.ino[i].kind = "dir"
XEntries(x, i) == x.block[x.ino[i].blk[1]].ents
XEntry(x, i, name) ==
  IF XIsDir(x, i) /\ name \in DOMAIN XEntries(x, i) THEN XEntries(x, i)[name] ELSE 0
\* lookup_path: an inode, or 0
XLookup(x, p) == FoldLeft(LAMBDA i, name : XEntry(x, i, name), XRoot, p)
XHasSpace(x, i) == Cardinality(DOMAIN XEntries(x, i)) < XDirSlots
XSetEntry(x, i, name, to) ==
  LET b == x.ino[i].blk[1]
  IN [x EXCEPT !.block[b].ents =
        [n \in DOMAIN @ \cup {name} |-> IF n = name THEN to ELSE @[n]]]
XRemoveEntry(x, i, name) ==
  LET b == x.ino[i].blk[1]
  IN [x EXCEPT !.block[b].ents = [n \in DOMAIN @ \ {name} |-> @[n]]]
XDotDot(x, i, up) == [x EXCEPT !.block[x.ino[i].blk[1]].up = up]
XEmptyDir(x, i) == DOMAIN XEntries(x, i) = {}
XLinks(x, i, d) == [x EXCEPT !.ino[i].links = @ + d]

-----------------------------------------------------------------------------
(* Blocks of a file.  n is the copy of inode i that is worked with: its field *)
(* and the field on disk are assigned together.                               *)

XSetBlock(r, i, l, b, d) ==
  [r EXCEPT !.n.blk[l] = b, !.n.blocks = @ + d,
            !.x.ino[i].blk[l] = b, !.x.ino[i].blocks = r.n.blocks + d]
XEnsureBlock(r, i, l) ==
  IF r.n.blk[l] # 0 THEN r
  ELSE IF XFreeBlocks(r.x) = {} THEN [r EXCEPT !.ok = FALSE]
  ELSE LET b == XLeast(XFreeBlocks(r.x))
       IN XSetBlock([r EXCEPT !.x = XAllocBlock(@, b)], i, l, b, 1)
\* one byte
XWriteByte(r, i, off) ==
  LET l == off \div XBlockSize + 1
      e == XEnsureBlock(r, i, l)
  IN IF ~r.ok \/ ~e.ok THEN [r EXCEPT !.ok = FALSE]
     ELSE [e EXCEPT !.x.block[e.n.blk[l]].data[(off % XBlockSize) + 1] = i]
\* free_direct_blocks_from: a block that is not allocated stops it
XFreeStep(r, i, l) ==
  LET b == r.n.blk[l]
      c == [r EXCEPT !.n.blk[l] = 0, !.x.ino[i].blk[l] = 0]
  IN IF ~r.ok \/ b = 0 THEN r
     ELSE IF b \notin r.x.bbm THEN [c EXCEPT !.ok = FALSE]
     ELSE LET left == IF r.n.blocks >= 1 THEN r.n.blocks - 1 ELSE 0
          IN [c EXCEPT !.x = XFreeBlock([@ EXCEPT !.ino[i].blocks = left], b),
                       !.n.blocks = left]
XFreeFrom(r, i, keep) ==
  FoldLeft(LAMBDA s, l : IF l > keep THEN XFreeStep(s, i, l) ELSE s, r,
           [l \in 1 .. XDirect |-> l])
XWork(x, n) == [x |-> x, n |-> n, ok |-> TRUE]
XClear(x, i) == XFreeInode([x EXCEPT !.ino[i] = XNone], i)
\* release_unlinked_inode, release_unlinked_directory
XReleaseFile(x, i) ==
  LET r == XFreeFrom(XWork(x, x.ino[i]), i, 0)
  IN IF x.ino[i].links > 1 THEN XLinks(x, i, -1)
     ELSE IF x.ino[i].kind = "link" THEN XClear(x, i)
     ELSE IF r.ok THEN XClear(r.x, i) ELSE r.x
XReleaseDir(x, i) ==
  LET r == XFreeFrom(XWork(x, x.ino[i]), i, 0)
  IN IF r.ok THEN XClear(XUsedDirs(r.x, i, -1), i) ELSE r.x

-----------------------------------------------------------------------------
(* The operations.  A path is found, or its parent is; p is the parent's     *)
(* inode.                                                                    *)

XNew(kind, b) ==
  [kind |-> kind, links |-> IF kind = "dir" THEN 2 ELSE 1,
   size |-> IF kind = "file" THEN 0 ELSE XBlockSize,
   blk |-> [XNoBlocks EXCEPT ![1] = b], blocks |-> IF b = 0 THEN 0 ELSE 1]
\* reply_create and reply_symlink: an inode without an entry is freed again
XCreated(x, p, name, kind) ==
  LET i == XLeast(XFreeInos(x))
      y == [XAllocInode(x, i) EXCEPT !.ino[i] = XNew(kind, 0)]
  IN IF XFreeInos(x) = {} THEN x
     ELSE IF XHasSpace(x, p) THEN XSetEntry(y, p, name, i) ELSE XFreeInode(y, i)
XMadeDir_KeepsBlock(x, p, name) ==                                       \* a mutant
  LET i == XLeast(XFreeInos(x))
      b == XLeast(XFreeBlocks(x))
      y == [XAllocBlock(XAllocInode(x, i), b) EXCEPT
              !.ino[i] = XNew("dir", b), !.block[b].up = p]
  IN IF XFreeInos(x) = {} \/ XFreeBlocks(x) = {} THEN x
     ELSE IF ~XHasSpace(x, p) THEN XFreeInode(y, i)
     ELSE XUsedDirs(XLinks(XSetEntry(y, p, name, i), p, 1), i, 1)
XMadeDir(x, p, name) ==
  LET i == XLeast(XFreeInos(x))
      b == XLeast(XFreeBlocks(x))
      y == [XAllocBlock(XAllocInode(x, i), b) EXCEPT
              !.ino[i] = XNew("dir", b), !.block[b].up = p]
  IN IF XFreeInos(x) = {} \/ XFreeBlocks(x) = {} THEN x
     ELSE IF ~XHasSpace(x, p) THEN XFreeInode(XFreeBlock(y, b), i)
     ELSE XUsedDirs(XLinks(XSetEntry(y, p, name, i), p, 1), i, 1)
XUnlinked(x, p, name) == XReleaseFile(XRemoveEntry(x, p, name), XEntry(x, p, name))
XRemovedDir(x, p, name) ==
  XReleaseDir(XLinks(XRemoveEntry(x, p, name), p, -1), XEntry(x, p, name))
XLinked(x, i, p, name) ==
  IF XHasSpace(x, p) THEN XLinks(XSetEntry(x, p, name, i), i, 1) ELSE x
\* reply_rename, inode i from p, old to q, new, where inode t may be.  A directory
\* put over another of the same parent leaves that one's ".." in the parent's count.
XMayReplace(x, i, t) ==
  t # 0 => (XIsDir(x, t) <=> XIsDir(x, i)) /\ (XIsDir(x, t) => XEmptyDir(x, t))
XRenamed_SameUp(x, i, p, old, q, new, t) ==                              \* a mutant
  LET moved == XIsDir(x, i) /\ p # q
      b == XRemoveEntry(XSetEntry(x, q, new, i), p, old)
      c == IF moved THEN XLinks(IF t = 0 THEN XLinks(b, q, 1) ELSE b, p, -1) ELSE b
  IN IF t = 0 /\ ~XHasSpace(x, q) THEN x
     ELSE IF t = 0 THEN c
     ELSE IF XIsDir(x, t)
     THEN XReleaseDir(IF p = q THEN [c EXCEPT !.over[p] = @ + 1] ELSE c, t)
     ELSE XReleaseFile(c, t)
XRenamed(x, i, p, old, q, new, t) ==
  LET moved == XIsDir(x, i) /\ p # q
      a == IF moved THEN XDotDot(x, i, q) ELSE x
      b == XRemoveEntry(XSetEntry(a, q, new, i), p, old)
      c == IF moved THEN XLinks(IF t = 0 THEN XLinks(b, q, 1) ELSE b, p, -1) ELSE b
  IN IF t = 0 /\ ~XHasSpace(x, q) THEN x
     ELSE IF t = 0 THEN c
     ELSE IF XIsDir(x, t)
     THEN XReleaseDir(IF p = q THEN [c EXCEPT !.over[p] = @ + 1] ELSE c, t)
     ELSE XReleaseFile(c, t)

-----------------------------------------------------------------------------
(* Messages.  A ghost: stale, an inode was written through a copy that no    *)
(* longer agreed with it; over, per directory, the renames above.            *)

\* load_initial_mount: an image that holds the root directory alone
XMounted ==
  [ibm |-> 1 .. XFirstIno - 1, bbm |-> {1}, fi |-> XInos - XFirstIno + 1, fb |-> XBlocks - 1,
   gfi |-> [g \in XGroups |-> Cardinality({i \in XFirstIno .. XInos : XGroupOf(i) = g})],
   gfb |-> [g \in XGroups |-> Cardinality(XGroupBlocks(g) \ {1})],
   gdirs |-> [g \in XGroups |-> IF g = 0 THEN 1 ELSE 0],
   ino |-> [i \in 1 .. XInos |-> IF i = XRoot THEN XNew("dir", 1) ELSE XNone],
   block |-> [b \in 1 .. XBlocks |-> IF b = 1 THEN [XZero EXCEPT !.up = XRoot] ELSE XZero],
   opens |-> [h \in {} |-> 0], next |-> 1, callers |-> {}, grantor |-> 0,
   stale |-> FALSE, over |-> [i \in 1 .. XInos |-> 0]]
XInit == xdoes \in XScenarios /\ xfs = XMounted

XDoes(op) == op \in xdoes.ops
XBecomes(x) == xfs' = x /\ UNCHANGED xdoes
XServed == xfs.callers # {}                              \* sender_is_vfs_caller
XName(p) == p[Len(p)]
XParent(p) == XLookup(xfs, Front(p))
XGrant ==
  /\ \E sender, task \in xdoes.tasks :
       /\ xfs.grantor \in {0, sender} /\ task \notin xfs.callers
       /\ XBecomes([xfs EXCEPT !.grantor = sender, !.callers = @ \cup {task}])
XCreate ==
  /\ XServed
  /\ \E p \in xdoes.paths, kind \in xdoes.kinds :
       /\ XLookup(xfs, p) = 0 /\ XIsDir(xfs, XParent(p))
       /\ XBecomes(IF kind = "dir" THEN XMadeDir(xfs, XParent(p), XName(p))
                   ELSE XCreated(xfs, XParent(p), XName(p), kind))
XUnlink ==
  /\ XServed
  /\ \E p \in xdoes.paths :
       /\ XLookup(xfs, p) # 0 /\ ~XIsDir(xfs, XLookup(xfs, p))
       /\ XBecomes(XUnlinked(xfs, XParent(p), XName(p)))
XRmdir ==
  /\ XServed
  /\ \E p \in xdoes.paths :
       /\ XIsDir(xfs, XLookup(xfs, p)) /\ XEmptyDir(xfs, XLookup(xfs, p))
       /\ XBecomes(XRemovedDir(xfs, XParent(p), XName(p)))
XLink ==
  /\ XServed /\ XDoes("link")
  /\ \E p, q \in xdoes.paths :
       /\ XLookup(xfs, p) # 0 /\ ~XIsDir(xfs, XLookup(xfs, p))
       /\ XLookup(xfs, q) = 0 /\ XIsDir(xfs, XParent(q))
       /\ XBecomes(XLinked(xfs, XLookup(xfs, p), XParent(q), XName(q)))
XRename ==
  /\ XServed /\ XDoes("rename")
  /\ \E p, q \in xdoes.paths :
       LET i == XLookup(xfs, p)
           t == XLookup(xfs, q)
       IN /\ p # q /\ i # 0 /\ XIsDir(xfs, XParent(q)) /\ t # i
          /\ ~(XIsDir(xfs, i) /\ IsPrefix(p, q)) /\ XMayReplace(xfs, i, t)
          /\ XIsDir(xfs, t) => xfs.over[XParent(q)] < XMaxOver
          /\ XBecomes(XRenamed(xfs, i, XParent(p), XName(p), XParent(q), XName(q), t))
XOpen ==
  /\ XServed /\ xfs.next <= xdoes.opens
  /\ \E p \in xdoes.paths, who \in xfs.callers :
       LET i == XLookup(xfs, p) IN
       /\ i # 0
       /\ XBecomes([xfs EXCEPT !.next = @ + 1,
            !.opens = [h \in DOMAIN @ \cup {xfs.next} |->
              IF h = xfs.next THEN [owner |-> who, ino |-> i, inode |-> xfs.ino[i]]
              ELSE @[h]]])
XClose ==
  \E h \in DOMAIN xfs.opens :
    XBecomes([xfs EXCEPT !.opens = [g \in DOMAIN @ \ {h} |-> @[g]]])
\* the handle's copy and the inode, of which links are not used
XAgree(x, h) ==
  [x.opens[h].inode EXCEPT !.links = 0] = [x.ino[x.opens[h].ino] EXCEPT !.links = 0]
XThrough(h, r) ==
  XBecomes([r.x EXCEPT !.opens[h].inode = r.n, !.stale = @ \/ ~XAgree(xfs, h)])
\* the size is written when all bytes are, and only to grow
XSized(r, i, size) ==
  IF r.ok THEN [r EXCEPT !.n.size = size, !.x.ino[i].size = size] ELSE r
XWrite ==
  \E h \in DOMAIN xfs.opens, off \in 0 .. XDirect * XBlockSize, len \in xdoes.lens :
    LET o == xfs.opens[h]
        r == FoldLeft(LAMBDA s, k : XWriteByte(s, o.ino, off + k - 1),
                      XWork(xfs, o.inode), [k \in 1 .. len |-> k])
    IN /\ o.inode.kind = "file" /\ off <= o.inode.size
       /\ off + len <= XDirect * XBlockSize
       /\ XThrough(h, IF off + len > o.inode.size THEN XSized(r, o.ino, off + len) ELSE r)
XTruncate ==
  \E h \in DOMAIN xfs.opens, size \in xdoes.lens \cup {0} :
    LET o == xfs.opens[h]
        keep == IF size = 0 THEN 0 ELSE (size - 1) \div XBlockSize + 1
    IN /\ o.inode.kind = "file" /\ size <= o.inode.size
       /\ XThrough(h, XSized(XFreeFrom(XWork(xfs, o.inode), o.ino, keep), o.ino, size))
\* the mode is the copy's file type and the new permissions
XChmod ==
  /\ XDoes("chmod")
  /\ \E h \in DOMAIN xfs.opens :
       LET o == xfs.opens[h]
       IN XThrough(h, XWork([xfs EXCEPT !.ino[o.ino].kind = o.inode.kind], o.inode))

\* what a stale write leads to is left out
XNext ==
  /\ ~xfs.stale
  /\ \/ XGrant \/ XCreate \/ XUnlink \/ XRmdir \/ XLink \/ XRename \/ XOpen \/ XClose
     \/ XWrite \/ XTruncate \/ XChmod
XSpec == XInit /\ [][XNext]_xvars

-----------------------------------------------------------------------------
(* Properties                                                                *)

\* Handles belong to tasks that were granted, and a counter is never negative
Ext2TypeOK ==
  /\ \A h \in DOMAIN xfs.opens : h < xfs.next /\ xfs.opens[h].owner \in xfs.callers
  /\ xfs.fi >= 0 /\ xfs.fb >= 0
  /\ \A g \in XGroups : xfs.gfi[g] >= 0 /\ xfs.gfb[g] >= 0 /\ xfs.gdirs[g] >= 0

XInUse == {i \in 1 .. XInos : xfs.ino[i].kind # "none" /\ i \in xfs.ibm}
XOwners(b) ==
  {o \in XInUse \X (1 .. XDirect) : xfs.ino[o[1]].kind # "link" /\ xfs.ino[o[1]].blk[o[2]] = b}
XNames(i) ==
  {e \in {<<d, n>> : d \in {d \in XInUse : XIsDir(xfs, d)},
                     n \in UNION {{p[k] : k \in 1 .. Len(p)} : p \in xdoes.paths}} :
     XEntry(xfs, e[1], e[2]) = i}
XSubdirs(d) == {n \in DOMAIN XEntries(xfs, d) : XIsDir(xfs, XEntries(xfs, d)[n])}

\* What a check of the file system would find in order, as long as no inode was
\* written through a handle whose copy of it is stale: a block is allocated
\* exactly if one inode has it, once; an inode exactly if an entry names it; the
\* counts of group and file system are those of the bitmaps; an inode counts its
\* names, a directory ".", its entry and the ".." of its subdirectories, and its
\* own ".." is its parent; and no file shows bytes that were written to another
Ext2Sound ==
  ~xfs.stale =>
    /\ \A b \in 1 .. XBlocks : Cardinality(XOwners(b)) = IF b \in xfs.bbm THEN 1 ELSE 0
    /\ XInUse = xfs.ibm \ (2 .. XFirstIno - 1)
    /\ \A i \in XInUse :
         /\ xfs.ino[i].kind # "link" => xfs.ino[i].blocks =
              Cardinality({l \in 1 .. XDirect : xfs.ino[i].blk[l] # 0})
         /\ xfs.ino[i].kind # "dir" => xfs.ino[i].links = Cardinality(XNames(i)) /\ XNames(i) # {}
         /\ XIsDir(xfs, i) =>
              /\ xfs.ino[i].links = 2 + Cardinality(XSubdirs(i)) + xfs.over[i]
              /\ i # XRoot => XNames(i) # {} /\ \A e \in XNames(i) :
                                XNames(i) = {e} /\ xfs.block[xfs.ino[i].blk[1]].up = e[1]
         /\ xfs.ino[i].kind = "file" => \A l \in 1 .. XDirect : xfs.ino[i].blk[l] # 0 =>
              \A k \in 1 .. XBlockSize : xfs.block[xfs.ino[i].blk[l]].data[k] \in {0, i}
    /\ xfs.fb = XBlocks - Cardinality(xfs.bbm)
    /\ \A g \in XGroups :
         /\ xfs.gfb[g] = Cardinality(XGroupBlocks(g) \ xfs.bbm)
         /\ xfs.gfi[g] = Cardinality({i \in 1 .. XInos : XGroupOf(i) = g} \ xfs.ibm)
         /\ xfs.gdirs[g] = Cardinality({i \in XInUse : XIsDir(xfs, i) /\ XGroupOf(i) = g})
=============================================================================
