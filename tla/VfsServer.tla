----------------------------- MODULE VfsServer ------------------------------
(* The VFS server: mounts, path resolution with its cache, route pins and the  *)
(* handles it keeps on the translators (file system servers), which appear as *)
(* trees of absolute paths with the handles they gave out.  A path is the     *)
(* sequence of its components, a text [abs, names] may hold "..".             *)
EXTENDS Integers, Sequences, FiniteSets, SequencesExt

CONSTANTS
  VScenarios,
  VMaxSymlinks,     \* VFS_MAX_SYMLINKS
  OwnPaths,         \* services that resolve their own paths: procfs
  Recursive         \* services whose mounts have no route: unionfs

VARIABLES vfs, trees, vdoes
vvars == <<vfs, trees, vdoes>>

-----------------------------------------------------------------------------
(* Paths and mounts                                                          *)

VUnder(p, q) == Len(p) >= Len(q) /\ SubSeq(p, 1, Len(q)) = q    \* path_is_at_or_under
\* vfs_resolve_path: ".." removes the component before it, symlink or not
VLexical(cwd, text) ==
  LET step(p, name) == IF name = ".." THEN (IF p = <<>> THEN p ELSE Front(p)) ELSE Append(p, name)
  IN FoldLeft(step, IF text.abs THEN <<>> ELSE cwd, text.names)
\* vfs_resolve_with_base
VBase(v, base, who) == base \in DOMAIN v.opens /\ v.opens[base].owner = who /\ v.opens[base].dir
VText(v, base, who, text) ==
  IF text.abs \/ base = 0 THEN {VLexical(<<>>, text)}
  ELSE IF VBase(v, base, who) THEN {VLexical(v.opens[base].path, text)} ELSE {}

VMountPoints(v, p) == {q \in DOMAIN v.mounts : VUnder(p, q)}
VMountFor(v, p) == CHOOSE q \in VMountPoints(v, p) : \A r \in VMountPoints(v, p) : Len(r) <= Len(q)
VMounted(v, p) == VMountPoints(v, p) # {}
VService(v, p) == v.mounts[VMountFor(v, p)].svc
VMountIds(v) == {v.mounts[q].id : q \in DOMAIN v.mounts}

\* what the translator says is at p: mount points are directories
Missing == [kind |-> "none"]
VLstat(v, tr, p) ==
  IF ~VMounted(v, p) THEN Missing
  ELSE IF p \in DOMAIN v.mounts THEN [kind |-> "dir"]
  ELSE IF p \in DOMAIN tr[VService(v, p)] THEN tr[VService(v, p)][p] ELSE Missing

\* vfs_resolve_symlinks: from the left, the first link is replaced and the
\* walk starts again; where nothing is found the rest stays as it is
VLinkAt(v, tr, p, follow) ==
  LET kinds == [n \in 1 .. Len(p) |-> VLstat(v, tr, SubSeq(p, 1, n)).kind]
      last == IF follow THEN Len(p) ELSE Len(p) - 1
  IN {n \in 1 .. last : kinds[n] = "link" /\ \A k \in 1 .. n - 1 : kinds[k] \notin {"link", "none"}}
VWalk(v, tr, path, follow) ==
  LET step(r, n) ==
        LET at == VLinkAt(v, tr, r.path, follow)
            k == CHOOSE x \in at : TRUE
            to == VLstat(v, tr, SubSeq(r.path, 1, k)).to
        IN IF at = {} THEN [r EXCEPT !.done = TRUE]
           ELSE [r EXCEPT !.path = VLexical(SubSeq(@, 1, k - 1), to) \o SubSeq(@, k + 1, Len(@))]
  IN FoldLeft(step, [path |-> path, done |-> FALSE], [n \in 1 .. VMaxSymlinks + 1 |-> n])
\* with resolved_cache_lookup and resolved_cache_insert
VResolve(v, tr, task, path, follow) ==
  LET key == <<task, path>>
      w == VWalk(v, tr, path, follow)
  IN IF follow /\ key \in DOMAIN v.cache THEN [v |-> v, path |-> v.cache[key], done |-> TRUE]
     ELSE [v |-> IF follow /\ w.done
                 THEN [v EXCEPT !.cache = [k \in DOMAIN @ \cup {key} |-> IF k = key THEN w.path ELSE @[k]]]
                 ELSE v,
           path |-> w.path, done |-> w.done]
VClear(v) == [v EXCEPT !.cache = <<>>]                       \* resolved_cache_clear
VPut(fn, k, x) == [j \in DOMAIN fn \cup {k} |-> IF j = k THEN x ELSE fn[j]]
VDrop(fn, k) == [j \in DOMAIN fn \ {k} |-> fn[j]]

-----------------------------------------------------------------------------
(* Mounts and pins                                                           *)

\* mount_translator: an existing mount gets the new service under its handles
VMountAt(v, p, svc) ==
  LET old == v.mounts[p]
      c == VClear(v)
  IN IF p \in DOMAIN v.mounts
     THEN IF old.pins # 0 THEN c ELSE [c EXCEPT !.mounts[p].svc = svc]
     ELSE [c EXCEPT !.mounts = VPut(@, p, [id |-> v.next, svc |-> svc, pins |-> 0]), !.next = @ + 1]
\* unmount_translator
VBusy(v, p) == (\E h \in DOMAIN v.opens : VUnder(v.opens[h].path, p)) \/ v.mounts[p].pins # 0
VUnmountAt(v, p) == [VClear(v) EXCEPT !.mounts = VDrop(@, p)]
\* create_route_pin, vfs_unpin_mount_route
VPinAt(v, p, who) ==
  LET q == VMountFor(v, p)
  IN [v EXCEPT !.mounts[q].pins = @ + 1, !.next = @ + 1,
               !.pins = VPut(@, v.next, [owner |-> who, mount |-> q])]
VUnpin_Keeps(v, n) == [v EXCEPT !.pins = VDrop(@, n)]                 \* a mutant
VUnpin(v, n) == [v EXCEPT !.mounts[v.pins[n].mount].pins = @ - 1, !.pins = VDrop(@, n)]

-----------------------------------------------------------------------------
(* Handles                                                                   *)

\* forward_mount_path of an open: the translator's handle is closed again if
\* there is no memory for the VFS's own
VOpenAt_Asked(v, tr, asked, p, who, short) ==                         \* a mutant
  LET at == VLstat(v, tr, p)
      h == [owner |-> who, svc |-> VService(v, p), remote |-> v.next, path |-> asked,
            dir |-> at.kind = "dir", via |-> v.mounts[VMountFor(v, p)].id]
  IN IF at.kind = "none" \/ short THEN v
     ELSE [v EXCEPT !.opens = VPut(@, v.next, h), !.remote = @ \cup {<<h.svc, v.next>>}, !.next = @ + 1]
VOpenAt(v, tr, asked, p, who, short) ==
  LET at == VLstat(v, tr, p)
      h == [owner |-> who, svc |-> VService(v, p), remote |-> v.next, path |-> p,
            dir |-> at.kind = "dir", via |-> v.mounts[VMountFor(v, p)].id]
  IN IF at.kind = "none" \/ short THEN v
     ELSE [v EXCEPT !.opens = VPut(@, v.next, h), !.remote = @ \cup {<<h.svc, v.next>>}, !.next = @ + 1]
\* vfs_open_path
VOpenPath(v, tr, task, p, who, short) ==
  LET r == VResolve(v, tr, task, p, TRUE)
  IN IF VMounted(v, p) /\ VService(v, p) \in OwnPaths THEN VOpenAt(v, tr, p, p, who, short)
     ELSE IF ~r.done \/ ~VMounted(v, r.path) THEN r.v
     ELSE VOpenAt(r.v, tr, p, r.path, who, short)
\* a close the translator answers with 0 is forgotten
VCloseAt(v, h) ==
  [v EXCEPT !.opens = VDrop(@, h), !.remote = @ \ {<<v.opens[h].svc, v.opens[h].remote>>}]

-----------------------------------------------------------------------------
(* Requests                                                                  *)

VInit ==
  /\ vdoes \in VScenarios
  /\ trees = [s \in vdoes.svcs |-> <<>>]
  /\ vfs = [mounts |-> <<>>, pins |-> <<>>, opens |-> <<>>, cache |-> <<>>, remote |-> {},
            admins |-> {}, issuers |-> {}, agrantor |-> 0, sgrantor |-> 0, next |-> 1,
            behind |-> FALSE]
VDoes(op) == op \in vdoes.ops
VBecomes(v) == vfs' = v /\ UNCHANGED <<trees, vdoes>>
VNumbers == vfs.next <= vdoes.numbers
\* message_subject: who a request is for
VSubjects(who) == IF who \in vfs.issuers THEN vdoes.subjects ELSE {who}

\* grant_admin_task, grant_subject_task
VGrantAdmin ==
  /\ VDoes("grant")
  /\ \E s \in vdoes.tasks, k \in vdoes.tasks :
       /\ vfs.agrantor \in {0, s} \/ s \in vfs.admins
       /\ VBecomes([vfs EXCEPT !.agrantor = IF @ = 0 THEN s ELSE @, !.admins = @ \cup {k}])
VGrantSubject ==
  /\ VDoes("issue")
  /\ \E s \in vdoes.tasks, k \in vdoes.tasks :
       /\ vfs.sgrantor \in {0, s} \/ s \in vfs.admins
       /\ VBecomes([vfs EXCEPT !.sgrantor = IF @ = 0 THEN s ELSE @, !.issuers = @ \cup {k}])
VMount ==
  /\ vfs.admins # {} /\ VNumbers
  /\ \E m \in vdoes.mounts : VBecomes(VMountAt(vfs, m[1], m[2]))
VUnmount ==
  /\ VDoes("unmount") /\ vfs.admins # {}
  /\ \E p \in DOMAIN vfs.mounts \ {<<>>} : ~VBusy(vfs, p) /\ VBecomes(VUnmountAt(vfs, p))
VPin ==
  /\ VDoes("pin") /\ VNumbers
  /\ \E who \in vfs.admins, p \in vdoes.makes :
       /\ VMounted(vfs, p) /\ VService(vfs, p) \notin Recursive
       /\ VBecomes(VPinAt(vfs, p, who))
VUnpinRoute ==
  /\ VDoes("pin")
  /\ \E n \in DOMAIN vfs.pins : vfs.pins[n].owner \in vfs.admins /\ VBecomes(VUnpin(vfs, n))
VOpen ==
  /\ VNumbers
  /\ \E who \in vdoes.tasks, base \in {0} \cup DOMAIN vfs.opens, text \in vdoes.texts, short \in BOOLEAN :
       \E task \in VSubjects(who), p \in VText(vfs, base, who, text) :
         VBecomes(VOpenPath(vfs, trees, task, p, who, short))
\* STAT and ACCESS only resolve; READLINK and a stat of the link keep nothing
VStat ==
  /\ VDoes("stat")
  /\ \E who \in vdoes.tasks, text \in vdoes.texts, follow \in BOOLEAN : \E task \in VSubjects(who) :
       LET p == VLexical(<<>>, text) IN
       /\ ~(VMounted(vfs, p) /\ VService(vfs, p) \in OwnPaths)
       /\ VBecomes(VResolve(vfs, trees, task, p, follow).v)
VClose ==
  \E h \in DOMAIN vfs.opens, kept \in BOOLEAN :
    VBecomes(IF kept THEN vfs ELSE VCloseAt(vfs, h))

\* CREATE, MKDIR, UNLINK and the like go to the mount of the path as it is;
\* the cache is empty before the translator is asked
VPlaced(tr, svc, p, node) == [tr EXCEPT ![svc] = IF node.kind = "none" THEN VDrop(@, p) ELSE VPut(@, p, node)]
VMutate_Keeps(v) == v                                                 \* a mutant
VMutated(v) == VClear(v)
VMutate ==
  \E p \in vdoes.makes, node \in {[kind |-> "dir"], Missing} :
    /\ VMounted(vfs, p) /\ vfs' = VMutated(vfs) /\ UNCHANGED vdoes
    /\ trees' = VPlaced(trees, VService(vfs, p), p, node)
VSymlink ==
  \E p \in vdoes.makes, to \in vdoes.texts :
    /\ VMounted(vfs, p) /\ vfs' = VMutated(vfs) /\ UNCHANGED vdoes
    /\ VLstat(vfs, trees, p).kind = "none"
    /\ trees' = VPlaced(trees, VService(vfs, p), p, [kind |-> "link", to |-> to])
\* RENAME and LINK, within one mount
VRename ==
  /\ VDoes("rename")
  /\ \E p, q \in vdoes.makes, link \in BOOLEAN :
       /\ p # q /\ VMounted(vfs, p) /\ VMounted(vfs, q) /\ VMountFor(vfs, p) = VMountFor(vfs, q)
       /\ VLstat(vfs, trees, p).kind # "none" /\ vfs' = VMutated(vfs) /\ UNCHANGED vdoes
       /\ LET s == VService(vfs, p)
              tr == VPlaced(trees, s, q, VLstat(vfs, trees, p))
          IN trees' = IF link THEN tr ELSE VPlaced(tr, s, p, Missing)
\* a translator that is asked by others than the VFS
VBehind ==
  /\ VDoes("behind")
  /\ \E s \in vdoes.svcs, p \in vdoes.makes :
       /\ trees' = VPlaced(trees, s, p, [kind |-> "dir"]) /\ trees' # trees
       /\ vfs' = [vfs EXCEPT !.behind = TRUE] /\ UNCHANGED vdoes

VNext ==
  \/ VGrantAdmin \/ VGrantSubject \/ VMount \/ VUnmount \/ VPin \/ VUnpinRoute \/ VOpen
  \/ VStat \/ VClose \/ VMutate \/ VSymlink \/ VRename \/ VBehind
VSpec == VInit /\ [][VNext]_vvars

-----------------------------------------------------------------------------
(* Properties                                                                *)

\* Mounts, pins and handles have numbers of their own, and only granted tasks
\* hold pins
VfsTypeOK ==
  /\ \A p, q \in DOMAIN vfs.mounts : vfs.mounts[p].id = vfs.mounts[q].id => p = q
  /\ \A n \in DOMAIN vfs.pins : vfs.pins[n].owner \in vfs.admins
  /\ \A h \in DOMAIN vfs.opens : vfs.opens[h].owner \in vdoes.tasks

\* No mount goes away, or changes hands, under those who hold it: a mount counts
\* its pins and every pin is of a mount there is; the mount a handle was opened
\* through is still there; the handles the VFS holds on translators are those
\* it has given out.  And unless a translator was changed behind it, the cache
\* says what resolving the path again would
VfsSound ==
  /\ \A n \in DOMAIN vfs.pins : vfs.pins[n].mount \in DOMAIN vfs.mounts
  /\ \A p \in DOMAIN vfs.mounts :
       vfs.mounts[p].pins = Cardinality({n \in DOMAIN vfs.pins : vfs.pins[n].mount = p})
  /\ \A h \in DOMAIN vfs.opens : vfs.opens[h].via \in VMountIds(vfs)
  /\ vfs.remote = {<<vfs.opens[h].svc, vfs.opens[h].remote>> : h \in DOMAIN vfs.opens}
  /\ ~vfs.behind =>
       \A k \in DOMAIN vfs.cache : VWalk(vfs, trees, k[2], TRUE) = [path |-> vfs.cache[k], done |-> TRUE]
=============================================================================
