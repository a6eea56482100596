---------------------------- MODULE UnionServer -----------------------------
(* The unionfs server: a lower layer that is only read, an upper layer, and    *)
(* whiteouts that hide paths of the lower one.  A path is the sequence of its  *)
(* components below the mount; the content of a file is one token.  The upper *)
(* layer answers as tmpfs does.                                               *)
EXTENDS Integers, Sequences, FiniteSets, SequencesExt

CONSTANTS
  UScenarios,
  UMaxNode,         \* files ever made in the upper layer
  UMaxLinks         \* symlinks followed by one open: 8

VARIABLES ufs, udoes
uvars == <<ufs, udoes>>

-----------------------------------------------------------------------------
(* The layers.  An entry has a kind, a node of the upper layer and a target.  *)

UHas(u, p) == p = <<>> \/ p \in DOMAIN u.upper
UKind(u, p) == IF p = <<>> THEN "dir" ELSE u.upper[p].kind
ULowHas(u, p) == p = <<>> \/ p \in DOMAIN u.lower
ULowKind(u, p) == IF p = <<>> THEN "dir" ELSE u.lower[p].kind
UBelow(S, p) == {q \in S : IsStrictPrefix(p, q)}
\* visible_path_exists
UVisible(u, p) == UHas(u, p) \/ (p \notin u.white /\ ULowHas(u, p))
UIsFile(u, p) ==
  IF UHas(u, p) THEN UKind(u, p) = "file" ELSE UVisible(u, p) /\ ULowKind(u, p) = "file"
UVal(u, p) == IF UHas(u, p) THEN u.val[u.upper[p].node] ELSE "low"

\* the upper layer: its state and the reply
URep(u, r) == [u |-> u, r |-> r]
UPut(u, p, e) == [u EXCEPT !.upper = [q \in DOMAIN @ \cup {p} |-> IF q = p THEN e ELSE @[q]]]
UDrop(u, S) == [u EXCEPT !.upper = [q \in DOMAIN @ \ S |-> @[q]]]
UParentIsDir(u, p) == UHas(u, Front(p)) /\ UKind(u, Front(p)) = "dir"
UUpMake(u, p, kind, to) ==
  IF UHas(u, p) THEN URep(u, "exist")
  ELSE IF ~UParentIsDir(u, p) THEN URep(u, "noent")
  ELSE IF kind # "file" THEN URep(UPut(u, p, [kind |-> kind, node |-> 0, to |-> to]), "ok")
  ELSE URep([UPut(u, p, [kind |-> kind, node |-> u.nodes + 1, to |-> to])
               EXCEPT !.nodes = @ + 1, !.val[u.nodes + 1] = "empty"], "ok")
UUpRemove(u, p, dir) ==
  IF ~UHas(u, p) THEN URep(u, "noent")
  ELSE IF (UKind(u, p) = "dir") # dir THEN URep(u, "kind")
  ELSE IF UBelow(DOMAIN u.upper, p) # {} THEN URep(u, "notempty")
  ELSE URep(UDrop(u, {p}), "ok")
UUpRename(u, p, q) ==
  LET S == {p} \cup UBelow(DOMAIN u.upper, p)
      New(s) == q \o SubSeq(s, Len(p) + 1, Len(s))
      w == UDrop(u, S \cup {q})
  IN IF ~UHas(u, p) \/ ~UParentIsDir(u, q) THEN URep(u, "noent")
     ELSE IF p = q THEN URep(u, "ok")
     ELSE IF IsPrefix(p, q)
             \/ (UHas(u, q) /\ ((UKind(u, p) = "dir") # (UKind(u, q) = "dir")
                                \/ UBelow(DOMAIN u.upper, q) # {})) THEN URep(u, "kind")
     ELSE URep([w EXCEPT !.upper = [r \in DOMAIN @ \cup {New(s) : s \in S} |->
                 IF r \in DOMAIN @ THEN @[r]
                 ELSE u.upper[CHOOSE s \in S : New(s) = r]]], "ok")
UUpLink(u, p, q) ==
  IF ~UHas(u, p) \/ ~UParentIsDir(u, q) THEN URep(u, "noent")
  ELSE IF UHas(u, q) THEN URep(u, "exist")
  ELSE IF UKind(u, p) = "dir" THEN URep(u, "kind")
  ELSE URep(UPut(u, q, u.upper[p]), "ok")
\* FS_MKDIR_P
UUpDirs(u, p) ==
  FoldLeft(LAMBDA s, n :
             LET q == SubSeq(p, 1, n) IN
             IF s.r # "ok" THEN s
             ELSE IF UHas(s.u, q) THEN URep(s.u, IF UKind(s.u, q) = "dir" THEN "ok" ELSE "kind")
             ELSE UUpMake(s.u, q, "dir", <<>>),
           URep(u, "ok"), [n \in 1 .. Len(p) |-> n])

-----------------------------------------------------------------------------
(* Copying up                                                                *)

\* materialize_upper_parent
UParents(u, p) == UUpDirs(u, Front(p))
\* copy_lower_file_to_upper: a file that the upper layer has is written over
UCopyFile_Empty(u, p) ==                                                 \* a mutant
  LET a == UParents(u, p)
      b == UUpMake(a.u, p, "file", <<>>).u
  IN IF a.r # "ok" \/ ~UHas(b, p) \/ UKind(b, p) # "file" THEN URep(a.u, "failed")
     ELSE URep(b, "ok")
UCopyFile(u, p) ==
  LET a == UParents(u, p)
      b == UUpMake(a.u, p, "file", <<>>).u
  IN IF a.r # "ok" \/ ~UHas(b, p) \/ UKind(b, p) # "file" THEN URep(a.u, "failed")
     ELSE URep([b EXCEPT !.val[b.upper[p].node] = "low"], "ok")
\* copy_lower_path_mutable_to_upper
UCopyPath(u, p) ==
  IF p \in u.white \/ ~ULowHas(u, p) \/ ULowKind(u, p) # "file" THEN URep(u, "failed")
  ELSE UCopyFile(u, p)
\* an operation of the upper layer, repeated on a copy if it finds nothing
URetry(first, copy, second) ==
  IF first.r = "noent" /\ copy.r = "ok" THEN second ELSE first
UWhite(u, p) == [u EXCEPT !.white = @ \cup {p}]
UUnwhite(u, p) == [u EXCEPT !.white = @ \ {p}]

-----------------------------------------------------------------------------
(* Ghosts: obj, the file each path names, and cont, what was last written to  *)
(* it, as one file system would have them; odd, after a step that the layers  *)
(* are known to get wrong.                                                    *)

UOdd(u, b) == [u EXCEPT !.odd = @ \/ b]
UObj(u, p) == IF p \in DOMAIN u.obj THEN u.obj[p] ELSE 0
UName(u, p, o) == [u EXCEPT !.obj = [q \in DOMAIN @ \cup {p} |-> IF q = p THEN o ELSE @[q]]]
UForget(u, S) == [u EXCEPT !.obj = [q \in DOMAIN @ \ S |-> @[q]]]
UNewObj(u, p) ==
  UName([u EXCEPT !.objs = @ + 1, !.cont = Append(@, "empty")], p, u.objs + 1)
UMoveObj(u, p, q) ==
  LET S == {s \in DOMAIN u.obj : IsPrefix(p, s)}
      New(s) == q \o SubSeq(s, Len(p) + 1, Len(s))
      w == UForget(u, S \cup {q})
  IN [w EXCEPT !.obj = [r \in DOMAIN @ \cup {New(s) : s \in S} |->
        IF r \in DOMAIN @ THEN @[r] ELSE u.obj[CHOOSE s \in S : New(s) = r]]]
\* lower entries below p that show
ULowBelow(u, p) == {q \in UBelow(DOMAIN u.lower, p) : q \notin u.white}

-----------------------------------------------------------------------------
(* Messages                                                                  *)

\* reply_mutate: CREATE, MKNOD and MKDIR.  A CREATE does not look for the path
\* in the lower layer.
UMake(u, p, kind) ==
  LET a == UParents(u, p)
      b == UUpMake(a.u, p, kind, <<>>)
      c == UUnwhite(b.u, p)
  IN IF kind = "dir" /\ UVisible(u, p) THEN u
     ELSE IF a.r # "ok" \/ b.r # "ok" THEN a.u
     ELSE UOdd(IF kind = "file" THEN UNewObj(c, p) ELSE c, kind = "file" /\ UVisible(u, p))
\* reply_symlink
USymlinked(u, p, to) ==
  LET a == UParents(u, p)
      b == UUpMake(a.u, p, "link", to)
  IN IF a.r # "ok" \/ b.r # "ok" THEN a.u
     ELSE UOdd(UForget(UUnwhite(b.u, p), {p}), UVisible(u, p))
\* UNLINK and RMDIR: what the upper layer does not remove is hidden, if the
\* lower one has it with that kind, empty or not
URemove_NoWhite(u, p, dir) ==                                            \* a mutant
  LET b == UUpRemove(u, p, dir)
      hides == ULowHas(u, p) /\ ULowKind(u, p) = IF dir THEN "dir" ELSE "file"
  IN IF b.r = "ok" THEN UForget(b.u, {p})
     ELSE IF hides THEN UForget(UOdd(UWhite(u, p), UHas(u, p) \/ ULowBelow(u, p) # {}), {p})
     ELSE u
URemove(u, p, dir) ==
  LET b == UUpRemove(u, p, dir)
      hides == ULowHas(u, p) /\ ULowKind(u, p) = IF dir THEN "dir" ELSE "file"
  IN IF b.r = "ok" THEN UForget(UOdd(UWhite(b.u, p), dir /\ ULowBelow(u, p) # {}), {p})
     ELSE IF hides THEN UForget(UOdd(UWhite(u, p), UHas(u, p) \/ ULowBelow(u, p) # {}), {p})
     ELSE u
\* TRUNCATE, CHMOD, CHOWN and UTIMENS by path
UUpSet(u, p, cut) ==
  IF ~UHas(u, p) THEN URep(u, "noent")
  ELSE IF UKind(u, p) # "file" \/ ~cut THEN URep(u, "ok")
  ELSE URep([u EXCEPT !.val[u.upper[p].node] = "empty"], "ok")
USet(u, p, cut) ==
  LET copy == UCopyPath(u, p)
      b == URetry(UUpSet(u, p, cut), copy, UUpSet(copy.u, p, cut))
  IN IF b.r = "ok" /\ cut /\ UObj(u, p) # 0
     THEN [b.u EXCEPT !.cont[UObj(u, p)] = "empty"] ELSE b.u
URenamed(u, p, q) ==
  LET a == UParents(u, q)
      copy == UCopyPath(a.u, p)
      b == URetry(UUpRename(a.u, p, q), copy, UUpRename(copy.u, p, q))
  IN IF a.r # "ok" THEN a.u
     ELSE IF b.r # "ok" THEN b.u
     ELSE UOdd(UMoveObj(UUnwhite(UWhite(b.u, p), q), p, q),
               p # q /\ (ULowBelow(u, p) # {} \/ ULowBelow(u, q) # {}
                         \/ (ULowHas(u, q) /\ ULowKind(u, q) = "dir")))
ULinked(u, p, q) ==
  LET a == UParents(u, q)
      copy == UCopyPath(a.u, p)
      b == URetry(UUpLink(a.u, p, q), copy, UUpLink(copy.u, p, q))
  IN IF a.r # "ok" THEN a.u
     ELSE IF b.r # "ok" THEN b.u
     ELSE UOdd(IF UObj(u, p) # 0 THEN UName(UUnwhite(b.u, q), q, UObj(u, p)) ELSE UUnwhite(b.u, q),
               UVisible(u, q))

\* reply_open: symlinks of either layer are followed, an absolute target from
\* the mount
UFollow(u, p) ==
  FoldLeft(LAMBDA q, n :
             IF UHas(u, q) THEN IF UKind(u, q) = "link" THEN u.upper[q].to ELSE q
             ELSE IF UVisible(u, q) /\ ULowKind(u, q) = "link" THEN u.lower[q].to ELSE q,
           p, [n \in 1 .. UMaxLinks |-> n])
UIsLink(u, q) == UVisible(u, q) /\ (IF UHas(u, q) THEN UKind(u, q) ELSE ULowKind(u, q)) = "link"
UOpenKind(u, q) ==
  LET low == ULowHas(u, q) /\ ULowKind(u, q) = "dir" /\ q \notin u.white
  IN IF ~UHas(u, q) THEN IF ULowKind(u, q) = "dir" THEN "dir" ELSE "lower"
     ELSE IF UKind(u, q) = "dir" \/ low THEN "dir" ELSE "upper"
\* a handle number of the upper layer, and of the lower one; 0 is none
UOpened(u, q, who) ==
  LET kind == UOpenKind(u, q)
      uh == IF kind # "lower" /\ UHas(u, q) /\ UKind(u, q) # "link" THEN u.unext ELSE 0
      lh == IF kind = "lower" \/ (kind = "dir" /\ ULowHas(u, q) /\ ULowKind(u, q) = "dir"
                                  /\ q \notin u.white) THEN u.lnext ELSE 0
      keep == IF kind = "dir" /\ UHas(u, q) /\ UKind(u, q) # "dir" THEN 0 ELSE uh
      o == [owner |-> who, kind |-> kind, path |-> q, uh |-> keep, lh |-> lh, obj |-> UObj(u, q),
            node |-> IF kind = "upper" THEN u.upper[q].node ELSE 0]
  IN [u EXCEPT !.opens = Append(@, o), !.unext = IF uh = 0 THEN @ ELSE @ + 1,
               !.lnext = IF lh = 0 THEN @ ELSE @ + 1,
               !.uheld = @ \cup ({uh} \ {0}), !.lheld = @ \cup ({lh} \ {0})]
\* forget_open.  remote is the handle kept as the remote one: of the upper layer,
\* but for a file of the lower layer that one's own, which is then not closed
URemote(o) == IF o.kind = "lower" THEN o.lh ELSE o.uh
UClosed(u, h) ==
  LET o == u.opens[h]
  IN [u EXCEPT !.opens[h].kind = "closed",
               !.uheld = IF o.kind \in {"upper", "dir"} THEN @ \ {o.uh} ELSE @,
               !.lheld = IF o.kind \in {"lower", "dir"} /\ o.lh # URemote(o) THEN @ \ {o.lh} ELSE @]
\* readdir_merged: the names of the upper directory, then those of the lower one
\* that are neither hidden nor in the upper layer
UChildren(S, p) == SetToSeq({q \in S : Len(q) = Len(p) + 1 /\ IsPrefix(p, q)})
UUpperNames(u, o) == IF o.uh = 0 THEN <<>> ELSE UChildren(DOMAIN u.upper, o.path)
ULowerNames_All(u, o) ==                                                 \* a mutant
  IF o.lh = 0 THEN <<>>
  ELSE SelectSeq(UChildren(DOMAIN u.lower, o.path), LAMBDA q : q \notin u.white)
ULowerNames(u, o) ==
  IF o.lh = 0 THEN <<>>
  ELSE SelectSeq(UChildren(DOMAIN u.lower, o.path), LAMBDA q : q \notin u.white /\ ~UHas(u, q))
UListed(u, o) == UUpperNames(u, o) \o ULowerNames(u, o)
\* forward_open_handle, copy_lower_to_upper: a handle on a file of the lower layer
\* becomes one on the copy, whatever its path has come to name
UWritable(u, h) ==
  LET o == u.opens[h]
      c == UCopyFile(u, o.path)
  IN IF o.kind # "lower" THEN URep(u, IF o.kind = "upper" THEN "ok" ELSE "access")
     ELSE IF c.r # "ok" THEN c
     ELSE URep([UOdd(c.u, UHas(u, o.path) \/ o.path \in u.white) EXCEPT
                  !.opens[h] = [o EXCEPT !.kind = "upper", !.uh = u.unext,
                                         !.node = c.u.upper[o.path].node],
                  !.unext = @ + 1, !.uheld = @ \cup {u.unext}], "ok")
UWrote(u, h, token) ==
  LET w == UWritable(u, h)
      o == w.u.opens[h]
  IN IF w.r # "ok" THEN w.u
     ELSE [w.u EXCEPT !.val[o.node] = token, !.cont[o.obj] = token]

-----------------------------------------------------------------------------
UFiles(l) == SetToSeq({p \in DOMAIN l : l[p].kind = "file"})
UStart(l) ==
  [lower |-> l, upper |-> [p \in {} |-> 0], white |-> {}, nodes |-> 0,
   val |-> [i \in 1 .. UMaxNode |-> "empty"], opens |-> <<>>, unext |-> 1, lnext |-> 1,
   uheld |-> {}, lheld |-> {}, callers |-> {}, grantor |-> 0,
   layers |-> [k \in {"upper", "lower"} |-> 0], pins |-> {}, mounted |-> FALSE,
   obj |-> [p \in {q \in DOMAIN l : l[q].kind = "file"} |->
              CHOOSE i \in DOMAIN UFiles(l) : UFiles(l)[i] = p],
   objs |-> Len(UFiles(l)), cont |-> [i \in DOMAIN UFiles(l) |-> "low"], odd |-> FALSE]
UInit == udoes \in UScenarios /\ ufs = UStart(udoes.lower)

UDoes(op) == op \in udoes.ops
UBecomes(u) == ufs' = u /\ UNCHANGED udoes
UServed == ufs.mounted /\ ufs.callers # {}
UGrant ==
  \E sender, task \in udoes.tasks :
    /\ ufs.grantor \in {0, sender} /\ task \notin ufs.callers
    /\ UBecomes([ufs EXCEPT !.grantor = sender, !.callers = @ \cup {task}])
\* unionfs_set_upper_path, unionfs_set_lower_path: the route is pinned, the one
\* before it released; the upper directory may not come to be
USetLayer(u, k, route, made) ==
  LET old == u.layers[k]
  IN IF k = "upper" /\ ~made THEN u
     ELSE [u EXCEPT !.layers[k] = route, !.pins = (@ \cup {route}) \ {old}]
ULayer ==
  /\ ~ufs.mounted
  /\ \E k \in {"upper", "lower"}, route \in udoes.routes \ ufs.pins, made \in BOOLEAN :
       UBecomes(USetLayer(ufs, k, route, made))
\* unionfs_mount_root_path
UMount ==
  /\ ~ufs.mounted /\ \A k \in DOMAIN ufs.layers : ufs.layers[k] # 0
  /\ UBecomes([ufs EXCEPT !.mounted = TRUE])
URoom == ufs.nodes < UMaxNode
UCreate ==
  /\ UServed /\ URoom
  /\ \E p \in udoes.paths, kind \in udoes.kinds :
       UBecomes(IF kind = "link" THEN USymlinked(ufs, p, udoes.target) ELSE UMake(ufs, p, kind))
UUnlink == UServed /\ \E p \in udoes.paths, dir \in BOOLEAN : UBecomes(URemove(ufs, p, dir))
USetPath ==
  /\ UServed /\ URoom /\ UDoes("set")
  /\ \E p \in udoes.paths, cut \in BOOLEAN : UBecomes(USet(ufs, p, cut))
URename ==
  /\ UServed /\ URoom /\ UDoes("rename")
  /\ \E p, q \in udoes.paths : UBecomes(URenamed(ufs, p, q))
ULink ==
  /\ UServed /\ URoom /\ UDoes("link")
  /\ \E p, q \in udoes.paths : UBecomes(ULinked(ufs, p, q))
UOpen ==
  /\ UServed /\ Len(ufs.opens) < udoes.opens
  /\ \E p \in udoes.paths, who \in ufs.callers :
       LET q == UFollow(ufs, p) IN
       UVisible(ufs, q) /\ ~UIsLink(ufs, q) /\ UBecomes(UOpened(ufs, q, who))
UClose ==
  \E h \in DOMAIN ufs.opens : ufs.opens[h].kind # "closed" /\ UBecomes(UClosed(ufs, h))
UWrite ==
  /\ URoom
  /\ \E h \in DOMAIN ufs.opens, token \in udoes.tokens : UBecomes(UWrote(ufs, h, token))
\* what follows a step the layers get wrong is left out
UNext ==
  /\ ~ufs.odd
  /\ \/ UGrant \/ ULayer \/ UMount \/ UCreate \/ UUnlink \/ USetPath \/ URename \/ ULink
     \/ UOpen \/ UClose \/ UWrite
USpec == UInit /\ [][UNext]_uvars

-----------------------------------------------------------------------------
(* Properties                                                                *)

\* Entries of the upper layer stand below directories of it, handles belong to
\* tasks that were granted, and the routes pinned are those of the layers
UnionTypeOK ==
  /\ \A p \in DOMAIN ufs.upper : UParentIsDir(ufs, p)
  /\ \A h \in DOMAIN ufs.opens : ufs.opens[h].owner \in ufs.callers
  /\ ufs.pins = {ufs.layers[k] : k \in DOMAIN ufs.layers} \ {0}

\* Two layers look like one file system: a file shows exactly where one was made,
\* linked or moved to and not removed, and shows what was last written to it,
\* through the name or a handle, whether it was copied up for that or not; a
\* directory lists each name it shows once, as long as the upper layer has it as it
\* had when it was opened; every handle kept is open in its layer, and one on the upper layer is on its file.
\* It is claimed up to the first step that the layers get wrong: a late copy
\* through an old handle, the removal or the move of a directory with entries in
\* the lower layer, a create, link or symlink over such an entry
UnionSound ==
  ~ufs.odd =>
    /\ \A p \in udoes.paths : UIsFile(ufs, p) <=> UObj(ufs, p) # 0
    /\ \A p \in udoes.paths : UIsFile(ufs, p) => UVal(ufs, p) = ufs.cont[UObj(ufs, p)]
    /\ \A h \in DOMAIN ufs.opens :
         LET o == ufs.opens[h] IN
         /\ o.kind = "upper" => o.uh \in ufs.uheld /\ ufs.val[o.node] = ufs.cont[o.obj]
         /\ o.kind = "dir" => {o.uh, o.lh} \subseteq (ufs.uheld \cup ufs.lheld \cup {0})
         /\ o.kind = "lower" => o.lh \in ufs.lheld
         /\ o.kind = "dir" /\ (o.uh # 0 <=> UHas(ufs, o.path)) =>
              /\ ToSet(UListed(ufs, o)) =
                   {q \in DOMAIN ufs.upper \cup DOMAIN ufs.lower :
                      Front(q) = o.path /\ UVisible(ufs, q)}
              /\ IsInjective(UListed(ufs, o))
=============================================================================
