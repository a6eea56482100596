------------------------------- MODULE Memory -------------------------------
(***************************************************************************)
(* The memory of Linux processes: the page tables of kernel/vm.c, the      *)
(* frames of kernel/pmm.c with their reference counts, and the region      *)
(* list of a task in kernel/sched.c, as mmap, munmap, mprotect, brk, fork, *)
(* execve, exit and page faults use them.                                  *)
(*                                                                         *)
(* Addresses are page numbers.  A process has one thread and its own       *)
(* address space (vfork, which lends one, is left out), so a system call   *)
(* meets other processes only in the frames it shares with them: it is one *)
(* step, except for the copy-on-write fault, which copies a frame in one   *)
(* and maps the copy in another.  Page-table pages, the region table's     *)
(* growth and the executable bit are left out.                             *)
(***************************************************************************)
EXTENDS Integers, Sequences, FiniteSets, FiniteSetsExt, SequencesExt

CONSTANTS
  Procs, FirstProc,
  Frames,            \* the pages of the PMM
  Text,              \* the page of the program's image
  BrkBase, BrkMax,   \* LINUX_INITIAL_BRK, LINUX_MAX_BRK
  MmapBase, MmapLimit,
  FixedMin,          \* where MAP_FIXED may start, LINUX_MAP_FIXED_MIN
  Stored,            \* values programs store
  MScenarios,        \* what programs do: the calls they make, how many of them
                     \* that change mappings, and by which processes
  MaxOff,            \* bound on a file mapping's offset
  NoPage, NoFault

VPages == Text..(MmapLimit - 1)
Contents == {"zero", "file", "junk"} \cup Stored
PtEntry == [frame : Frames, w : BOOLEAN]
Region == [base : VPages, len : Nat \ {0}, w : BOOLEAN,
           obj : {"anon", "file"}, kind : {"elf", "brk", "mmap"}, off : Nat]

ASSUME MemoryConstants ==
  /\ FirstProc \in Procs /\ Frames \subseteq Nat /\ IsFiniteSet(Frames) /\ IsFiniteSet(Procs)
  /\ {Text, BrkBase, BrkMax, MmapBase, MmapLimit, FixedMin} \subseteq Nat
  /\ Text < BrkBase /\ BrkBase <= BrkMax /\ BrkMax <= MmapBase /\ MmapBase < MmapLimit
  /\ MaxOff \in Nat
  /\ \A s \in MScenarios : s.most \in Nat /\ s.procs \subseteq Procs
  /\ NoPage \notin PtEntry /\ Stored \cap {"zero", "file", "junk"} = {}

VARIABLES
  does,      \* the member of MScenarios this behaviour follows
  alive,     \* processes, and the ones that have been
  used,
  pt,        \* vm_space: the page table of a process
  frameRefs,      \* pmm_page.ref_count, 0 for a free page
  data,      \* what a frame holds
  regions,   \* task->vm_regions
  brk, next, \* task->linux_brk, linux_mmap_next
  mapCalls,  \* mapping calls so far, capped by does.most
  fault      \* a copy-on-write fault whose copy is not mapped yet

mVars == <<does, alive, used, pt, frameRefs, data, regions, brk, next, mapCalls, fault>>

-----------------------------------------------------------------------------
(* Regions.                                                                *)

Pages(r) == r.base..(r.base + r.len - 1)
Overlap(r, s) == Pages(r) \cap Pages(s) # {}
RangeOf(b, n) == [base |-> b, len |-> n]
Ranges == {r \in {RangeOf(b, n) : b \in VPages, n \in 1..2} : r.base + r.len <= MmapLimit}

\* vm_region_metadata_matches.  One file is mapped, so object_id is obj.
Matches(r, s) == r.w = s.w /\ r.obj = s.obj /\ r.kind = s.kind

\* task_vm_range_overlaps_other_locked, task_vm_range_is_free (skip 0)
Clear(rl, skip, range) ==
  \A i \in DOMAIN rl : i # skip => ~Overlap(range, rl[i])

\* task_add_vm_mapping: the first region that ends where this one starts and
\* is like it grows; else it is appended.  The empty sequence stands for -1.
RegionAdded(rl, new) ==
  LET grown(i) == [rl[i] EXCEPT !.len = @ + new.len]
      fits == {i \in DOMAIN rl : /\ Matches(rl[i], new)
                                 /\ new.obj = "anon" \/ rl[i].off + rl[i].len = new.off
                                 /\ rl[i].base + rl[i].len = new.base
                                 /\ Clear(rl, i, grown(i))}
  IN IF fits # {} THEN [rl EXCEPT ![Min(fits)] = grown(Min(fits))]
     ELSE IF Clear(rl, 0, new) THEN Append(rl, new) ELSE <<>>

\* task_add_or_extend_vm_mapping, which only brk uses, for anonymous memory:
\* a region that touches or meets this one and is like it covers both
Extended(rl, new) ==
  LET lo(i) == Min({rl[i].base, new.base})
      hi(i) == Max({rl[i].base + rl[i].len, new.base + new.len})
      both(i) == [rl[i] EXCEPT !.base = lo(i), !.len = hi(i) - lo(i)]
      fits == {i \in DOMAIN rl : /\ Matches(rl[i], new)
                                 /\ rl[i].base <= new.base + new.len
                                 /\ new.base <= rl[i].base + rl[i].len
                                 /\ Clear(rl, i, both(i))}
  IN IF fits # {} THEN [rl EXCEPT ![Min(fits)] = both(Min(fits))] ELSE RegionAdded(rl, new)

\* Mutant: a range that ends where the region ends leaves an empty region
After_OffByOne(r, range) ==
  LET cut == range.base + range.len  end == r.base + r.len IN
    IF cut <= end THEN <<[r EXCEPT !.base = cut, !.len = end - cut]>> ELSE <<>>

\* What a range leaves of region r before it, after it, and takes of it.  The
\* offset is kept by all three, as in the code.
Before(r, range) ==
  IF r.base < range.base THEN <<[r EXCEPT !.len = range.base - r.base]>> ELSE <<>>
After(r, range) ==
  LET cut == range.base + range.len  end == r.base + r.len IN
    IF cut < end THEN <<[r EXCEPT !.base = cut, !.len = end - cut]>> ELSE <<>>
Within(r, range, w) ==
  LET lo == Max({r.base, range.base})
      hi == Min({r.base + r.len, range.base + range.len})
  IN [r EXCEPT !.base = lo, !.len = hi - lo, !.w = w]

\* Mutant: the region that takes the place of another is skipped
Replaced_Skips(st) ==
  [rl |-> Front([st.rl EXCEPT ![st.i] = Last(st.rl)]), i |-> st.i + 1]

\* The last region takes the place of the one at i, and is looked at next
Replaced(st) == [st EXCEPT !.rl = Front([st.rl EXCEPT ![st.i] = Last(st.rl)])]

\* One turn of task_remove_vm_region's loop at index i
RemoveTurn(st, range) ==
  LET rl == st.rl  i == st.i
      left == Before(rl[i], range) \o After(rl[i], range)
  IN IF i > Len(rl) THEN st
     ELSE IF ~Overlap(rl[i], range) THEN [st EXCEPT !.i = i + 1]
     ELSE IF left = <<>> THEN Replaced(st)
     ELSE [rl |-> [rl EXCEPT ![i] = left[1]] \o Tail(left), i |-> i + 1]

\* task_remove_vm_region.  A turn removes a region or moves on.
Removed(rl, range) ==
  FoldLeft(LAMBDA st, n : RemoveTurn(st, range), [rl |-> rl, i |-> 1],
           [n \in 1..(2 * Len(rl)) |-> n]).rl

\* task_protect_vm_region, on a range that is covered: what is protected keeps
\* its place only when it is the whole region
ProtectOne(rl, i, range, w) ==
  LET left == Before(rl[i], range) \o After(rl[i], range)
      mid == Within(rl[i], range, w)
  IN IF ~Overlap(rl[i], range) THEN rl
     ELSE IF left = <<>> THEN [rl EXCEPT ![i] = mid]
     ELSE Append([rl EXCEPT ![i] = left[1]], mid) \o Tail(left)
Protected(rl, range, w) ==
  FoldLeft(LAMBDA l, i : ProtectOne(l, i, range, w), rl, [i \in DOMAIN rl |-> i])

Covered(rl) == UNION {Pages(rl[i]) : i \in DOMAIN rl}

-----------------------------------------------------------------------------
(* Frames.                                                                 *)

FreeIn(r) == {f \in Frames : r[f] = 0}

\* pmm_page_alloc for each page of S in turn
Fresh(S, r) ==
  [p \in S |-> CHOOSE f \in FreeIn(r) :
     Cardinality({g \in FreeIn(r) : g < f}) = Cardinality({q \in S : q < p})]

\* How many entries of a page table, at pages S, hold frame f
Holds(table, S, f) == Cardinality({p \in S : table[p] # NoPage /\ table[p].frame = f})

\* vm_unmap_user_range: one reference is dropped for each page mapped
Dropped(k, S) == [f \in Frames |-> frameRefs[f] - Holds(pt[k], S, f)]

NoPages == [p \in VPages |-> NoPage]
Blanked(table, S) == [p \in VPages |-> IF p \in S THEN NoPage ELSE table[p]]

\* A free frame's content is never read: what takes it writes it first
FramesBecome(r, d) ==
  /\ frameRefs' = r
  /\ data' = [f \in Frames |-> IF r[f] = 0 THEN "junk" ELSE d[f]]

\* Pages S of process k, which were blank in table, get frames of their own
\* holding content; r counts the references before
Populate(k, table, S, r, content, w) ==
  LET new == Fresh(S, r) IN
    /\ pt' = [pt EXCEPT ![k] =
                [p \in VPages |-> IF p \in S THEN [frame |-> new[p], w |-> w] ELSE table[p]]]
    /\ FramesBecome([f \in Frames |-> IF \E p \in S : new[p] = f THEN 1 ELSE r[f]],
                    [f \in Frames |-> IF \E p \in S : new[p] = f THEN content ELSE data[f]])

-----------------------------------------------------------------------------
(* System calls.  A process makes them while its program is mapped.        *)

Runs(k, call) ==
  /\ k \in alive /\ fault[k] = NoFault
  /\ call \in does.calls /\ pt[k][Text] # NoPage

\* One of the calls that change mappings
Maps(k, call) == Runs(k, call) /\ mapCalls < does.most /\ mapCalls' = mapCalls + 1

\* linux_unmap_task_range, given what it leaves of the regions
Unmap(k, S, rl) ==
  /\ pt' = [pt EXCEPT ![k] = Blanked(@, S)]
  /\ FramesBecome(Dropped(k, S), data)
  /\ regions' = [regions EXCEPT ![k] = rl]

\* Where mmap may put len pages: where it likes, at a hint, or exactly there
Placed(k, range, fixed) ==
     IF fixed THEN "fixed" \in does.calls /\ range.base >= FixedMin
     ELSE /\ range.base >= MmapBase
          /\ range.base = next[k] \/ "hint" \in does.calls
          /\ Clear(regions[k], 0, range)

\* mmap.  A file's pages are allocated writable, filled up to the file's end,
\* unmapped beyond it and then protected; eof is how many are filled.
Mmap(k, range, fixed, new, eof) ==
  LET clash == ~Clear(regions[k], 0, range)
      gone == IF clash THEN Pages(range) ELSE {}
      rl == IF clash THEN Removed(regions[k], range) ELSE regions[k]
      filled == range.base..(range.base + eof - 1)
      short == Cardinality(FreeIn(Dropped(k, gone))) < range.len
      added == RegionAdded(rl, new)
  IN /\ Maps(k, "mmap") /\ Placed(k, range, fixed)
     /\ \/ /\ short \/ new.obj = "file" \/ added = <<>>
           /\ clash
           /\ Unmap(k, gone, rl) /\ UNCHANGED next
        \/ /\ ~short /\ added # <<>>
           /\ Populate(k, Blanked(pt[k], gone), filled, Dropped(k, gone),
                       IF new.obj = "file" THEN "file" ELSE "zero", new.w)
           /\ regions' = [regions EXCEPT ![k] = added]
           /\ next' = [next EXCEPT ![k] = Max({@, range.base + range.len})]
     /\ UNCHANGED <<does, alive, used, brk, fault>>

MmapAnon(k, range, fixed, w) ==
  /\ w \/ "ro" \in does.calls
  /\ Mmap(k, range, fixed, [base |-> range.base, len |-> range.len, w |-> w,
                            obj |-> "anon", kind |-> "mmap", off |-> 0], range.len)

MmapFile(k, range, fixed, w) ==
  /\ "file" \in does.calls
  /\ \E off \in 0..MaxOff, eof \in 0..range.len :
       /\ eof < range.len => "short" \in does.calls
       /\ Mmap(k, range, fixed, [base |-> range.base, len |-> range.len, w |-> w,
                                 obj |-> "file", kind |-> "mmap", off |-> off], eof)

Munmap(k, range) ==
  /\ Maps(k, "munmap")
  /\ Unmap(k, Pages(range), Removed(regions[k], range))
  /\ UNCHANGED <<does, alive, used, brk, next, fault>>

\* mprotect: vm_protect_user_range stops at the first page that is not mapped,
\* and then the regions are left as they are.  Programs that do not "widen"
\* make pages writable only before they fork, and only mapped ones.
Mprotect(k, range, w) ==
  LET reached == {p \in Pages(range) : \A q \in range.base..p : pt[k][q] # NoPage}
      whole == reached = Pages(range) /\ Pages(range) \subseteq Covered(regions[k])
  IN /\ Maps(k, "mprotect") /\ reached # {}
     /\ w => ("widen" \in does.calls \/ (whole /\ used = {FirstProc}))
     /\ pt' = [pt EXCEPT ![k] =
                 [p \in VPages |-> IF p \in reached THEN [pt[k][p] EXCEPT !.w = w] ELSE pt[k][p]]]
     /\ regions' = IF whole THEN [regions EXCEPT ![k] = Protected(@, range, w)] ELSE regions
     /\ UNCHANGED <<does, alive, used, frameRefs, data, brk, next, fault>>

HeapRegion(old, new) ==
  [base |-> old, len |-> new - old, w |-> TRUE, obj |-> "anon", kind |-> "brk", off |-> 0]

\* brk to a higher page: the pages are mapped over whatever is there
BrkGrow(k, new) ==
  LET S == brk[k]..(new - 1)
      rl == Extended(regions[k], HeapRegion(brk[k], new))
  IN /\ Maps(k, "brk") /\ new \in (brk[k] + 1)..BrkMax
     /\ Cardinality(FreeIn(frameRefs)) >= new - brk[k]
     /\ Populate(k, pt[k], S, frameRefs, "zero", TRUE)
     /\ brk' = IF rl = <<>> THEN brk ELSE [brk EXCEPT ![k] = new]
     /\ regions' = IF rl = <<>> THEN regions ELSE [regions EXCEPT ![k] = rl]
     /\ UNCHANGED <<does, alive, used, next, fault>>

BrkShrink(k, new) ==
  /\ Maps(k, "brk") /\ new \in BrkBase..(brk[k] - 1)
  /\ Unmap(k, new..(brk[k] - 1), Removed(regions[k], RangeOf(new, brk[k] - new)))
  /\ brk' = [brk EXCEPT ![k] = new]
  /\ UNCHANGED <<does, alive, used, next, fault>>

-----------------------------------------------------------------------------
(* Stores and copy-on-write.                                               *)

\* A store that the page table lets through, by the program or by
\* write_current_user for it
Store(k, p, v) ==
  /\ Runs(k, "store") /\ pt[k][p] # NoPage /\ pt[k][p].w
  /\ data' = [data EXCEPT ![pt[k][p].frame] = v]
  /\ UNCHANGED <<does, mapCalls, alive, used, pt, frameRefs, regions, brk, next, fault>>

ShareFile(r) == r.obj = "file" /\ ~r.w
ShareCow(r) == r.obj = "anon" /\ r.w

\* Mutant: the new frame is cleared instead of copied
CopyOf_Blank(k, p) == "zero"

\* What the new frame of a copy-on-write fault holds
CopyOf(k, p) == data[pt[k][p].frame]

\* task_handle_cow_fault and the first half of vm_cow_user_page
CowCopy(k, p) ==
  LET new == Fresh({p}, frameRefs)[p] IN
    /\ Runs(k, "store") /\ pt[k][p] # NoPage /\ ~pt[k][p].w
    /\ \E i \in DOMAIN regions[k] : p \in Pages(regions[k][i]) /\ ShareCow(regions[k][i])
    /\ FreeIn(frameRefs) # {}
    /\ frameRefs' = [frameRefs EXCEPT ![new] = 1]
    /\ data' = [data EXCEPT ![new] = CopyOf(k, p)]
    /\ fault' = [fault EXCEPT ![k] = [page |-> p, frame |-> new]]
    /\ UNCHANGED <<does, mapCalls, alive, used, pt, regions, brk, next>>

\* Mutant: the old frame is not released
AfterCopy_KeepsOld(old) == frameRefs

\* The references when the copy has replaced frame old
AfterCopy(old) == [frameRefs EXCEPT ![old] = @ - 1]

\* The second half: the copy is mapped and the old frame released
CowMap(k) ==
  LET p == fault[k].page  old == pt[k][p].frame IN
    /\ fault[k] # NoFault
    /\ pt' = [pt EXCEPT ![k][p] = [frame |-> fault[k].frame, w |-> TRUE]]
    /\ FramesBecome(AfterCopy(old), data)
    /\ fault' = [fault EXCEPT ![k] = NoFault]
    /\ UNCHANGED <<does, mapCalls, alive, used, regions, brk, next>>

-----------------------------------------------------------------------------
(* fork, execve and exit.                                                  *)

\* The pages of the first n regions of rl that satisfy a test
PagesOfKind(rl, n, Test(_)) == UNION {Pages(rl[i]) : i \in {j \in 1..n : Test(rl[j])}}

\* Regions whose pages cannot all be shared or cloned: one is not mapped, or
\* the frames run out
Unforkable(k) ==
  LET rl == regions[k]
      cloned(n) == PagesOfKind(rl, n, LAMBDA r : ~ShareFile(r) /\ ~ShareCow(r))
  IN {i \in DOMAIN rl : \/ \E p \in Pages(rl[i]) : pt[k][p] = NoPage
                        \/ Cardinality(cloned(i)) > Cardinality(FreeIn(frameRefs))}

\* Mutant: the parent keeps write access to what it shares
Guarded_Not(table, S) == table

\* vm_share_cow_user_range's effect on the parent
Guarded(table, S) ==
  [p \in VPages |-> IF p \in S /\ table[p] # NoPage THEN [table[p] EXCEPT !.w = FALSE]
                    ELSE table[p]]

\* fork that fails, in the kernel or in the Linux server after it: the child
\* is discarded and the regions already shared stay guarded in the parent
ForkFail(k) ==
  LET bad == Unforkable(k)
      rl == regions[k]
      done == IF bad = {} THEN Len(rl) ELSE Min(bad) - 1
  IN /\ Runs(k, "fork") /\ ~(does.procs \subseteq used)
     /\ pt' = [pt EXCEPT ![k] = Guarded(@, PagesOfKind(rl, done, ShareCow))]
     /\ UNCHANGED <<does, mapCalls, alive, used, frameRefs, data, regions, brk, next, fault>>

\* server_task_fork_current_stopped: a read-only file region is shared, a
\* private writable anonymous one is shared and guarded, others are copied
ForkSpace(k, c) ==
  LET rl == regions[k]
      all == Len(rl)
      cow == PagesOfKind(rl, all, ShareCow)
      shared == cow \cup PagesOfKind(rl, all, ShareFile)
      cloned == Covered(rl) \ shared
      new == Fresh(cloned, frameRefs)
      owner(f) == CHOOSE p \in cloned : new[p] = f
      rights(p) == (CHOOSE i \in DOMAIN rl : p \in Pages(rl[i]))
      isNew(f) == \E p \in cloned : new[p] = f
  IN /\ Runs(k, "fork") /\ c \in does.procs \ used /\ Unforkable(k) = {}
     /\ pt' = [pt EXCEPT ![k] = Guarded(@, cow),
                         ![c] = [p \in VPages |->
                                   IF p \in shared THEN [frame |-> pt[k][p].frame, w |-> FALSE]
                                   ELSE IF p \in cloned
                                   THEN [frame |-> new[p], w |-> rl[rights(p)].w]
                                   ELSE NoPage]]
     /\ frameRefs' = [f \in Frames |-> IF isNew(f) THEN 1 ELSE frameRefs[f] + Holds(pt[k], shared, f)]
     /\ data' = [f \in Frames |-> IF isNew(f) THEN data[pt[k][owner(f)].frame] ELSE data[f]]
     /\ regions' = [regions EXCEPT ![c] = FoldLeft(RegionAdded, <<>>, rl)]
     /\ brk' = [brk EXCEPT ![c] = brk[k]]
     /\ next' = [next EXCEPT ![c] = next[k]]
     /\ alive' = alive \cup {c} /\ used' = used \cup {c}
     /\ UNCHANGED <<does, mapCalls, fault>>

Image == [base |-> Text, len |-> 1, w |-> FALSE, obj |-> "file", kind |-> "elf", off |-> 0]

\* execve: server_task_clear unmaps region by region, then the proc server
\* maps the new image.  When that fails the old one is gone all the same.
Exec(k) ==
  LET gone == Covered(regions[k])
      left == Dropped(k, gone)
  IN /\ Maps(k, "exec")
     /\ \/ /\ FreeIn(left) # {}
           /\ Populate(k, Blanked(pt[k], gone), {Text}, left, "file", FALSE)
           /\ regions' = [regions EXCEPT ![k] = <<Image>>]
           /\ brk' = [brk EXCEPT ![k] = BrkBase]
           /\ next' = [next EXCEPT ![k] = MmapBase]
        \/ Unmap(k, gone, <<>>) /\ UNCHANGED <<brk, next>>
     /\ UNCHANGED <<does, alive, used, fault>>

\* task_teardown: the pages of the regions are released, then the page tables
\* go with whatever else they map
Exit(k) ==
  /\ k \in alive /\ fault[k] = NoFault
  /\ alive' = alive \ {k}
  /\ pt' = [pt EXCEPT ![k] = NoPages]
  /\ FramesBecome(Dropped(k, Covered(regions[k])), data)
  /\ regions' = [regions EXCEPT ![k] = <<>>]
  /\ brk' = [brk EXCEPT ![k] = BrkBase] /\ next' = [next EXCEPT ![k] = MmapBase]
  /\ UNCHANGED <<does, mapCalls, used, fault>>

-----------------------------------------------------------------------------
MInit ==
  /\ does \in MScenarios
  /\ alive = {FirstProc} /\ used = {FirstProc}
  /\ pt = [k \in Procs |-> [p \in VPages |-> IF k = FirstProc /\ p = Text
                              THEN [frame |-> Min(Frames), w |-> FALSE] ELSE NoPage]]
  /\ frameRefs = [f \in Frames |-> IF f = Min(Frames) THEN 1 ELSE 0]
  /\ data = [f \in Frames |-> IF f = Min(Frames) THEN "file" ELSE "junk"]
  /\ regions = [k \in Procs |-> IF k = FirstProc THEN <<Image>> ELSE <<>>]
  /\ brk = [k \in Procs |-> BrkBase] /\ next = [k \in Procs |-> MmapBase]
  /\ mapCalls = 0 /\ fault = [k \in Procs |-> NoFault]

MNext ==
  \E k \in alive :
    \/ \E r \in Ranges, w, fixed \in BOOLEAN :
         MmapAnon(k, r, fixed, w) \/ MmapFile(k, r, fixed, w)
    \/ \E r \in Ranges : Munmap(k, r) \/ \E w \in BOOLEAN : Mprotect(k, r, w)
    \/ \E new \in BrkBase..BrkMax : BrkGrow(k, new) \/ BrkShrink(k, new)
    \/ \E p \in VPages : CowCopy(k, p) \/ \E v \in Stored : Store(k, p, v)
    \/ CowMap(k)
    \/ ForkFail(k)
    \/ \E c \in Procs : ForkSpace(k, c)
    \/ Exec(k)
    \/ Exit(k)

MSpec == MInit /\ [][MNext]_mVars

-----------------------------------------------------------------------------
(* Properties.                                                             *)

\* The variables hold values of their types; in particular no region is empty or
\* outside the address space, after any splitting and merging.
MTypeOK ==
  /\ does \in MScenarios /\ alive \subseteq used /\ used \subseteq Procs
  /\ pt \in [Procs -> [VPages -> PtEntry \cup {NoPage}]]
  /\ frameRefs \in [Frames -> Nat] /\ data \in [Frames -> Contents]
  /\ regions \in [Procs -> Seq(Region)]
  /\ brk \in [Procs -> BrkBase..BrkMax] /\ next \in [Procs -> MmapBase..MmapLimit]
  /\ mapCalls \in 0..does.most
  /\ \A k \in Procs : fault[k] = NoFault \/ fault[k] \in [page : VPages, frame : Frames]

\* A frame's reference count is the number of places that use it: the page
\* table entries that map it and the copy-on-write copies in flight.  A frame
\* is then neither freed while mapped nor lost.
RefCountsExact ==
  \A f \in Frames :
    frameRefs[f] = Cardinality({<<k, p>> \in Procs \X VPages :
                               pt[k][p] # NoPage /\ pt[k][p].frame = f})
            + Cardinality({k \in Procs : fault[k] # NoFault /\ fault[k].frame = f})

\* The region list and the page table of a process agree: no two regions meet,
\* every mapped page lies in a region and is writable only if the region is, so
\* exit and execve release it, and every page of an anonymous region is mapped,
\* so fork finds it
RegionsMatchPages ==
  \A k \in alive :
    LET rl == regions[k] IN
      /\ \A i, j \in DOMAIN rl : i # j => ~Overlap(rl[i], rl[j])
      /\ \A p \in VPages : pt[k][p] # NoPage =>
           \E i \in DOMAIN rl : p \in Pages(rl[i]) /\ (pt[k][p].w => rl[i].w)
      /\ \A i \in DOMAIN rl : rl[i].obj = "anon" =>
           \A p \in Pages(rl[i]) : pt[k][p] # NoPage

\* Every page and every frame is accounted for, in the frame counts and in the
\* region lists, so it is released once and copied by fork.
PagesAccounted == RefCountsExact /\ RegionsMatchPages

\* A frame that more than one page table maps is writable in none of them
SharedIsReadOnly ==
  \A f \in Frames : frameRefs[f] > 1 =>
    \A k \in Procs, p \in VPages :
      pt[k][p] # NoPage /\ pt[k][p].frame = f => ~pt[k][p].w

\* Processes have private memory: what one reads changes only by its own calls
\* and stores, and a child starts with what its parent reads
Private == INSTANCE PrivateMemory WITH
  Owners <- Procs, PagesOf <- VPages, Values <- Stored, Nothing <- "none", asked <- mapCalls,
  mem <- [k \in Procs |-> [p \in VPages |->
            IF pt[k][p] = NoPage THEN "none" ELSE data[pt[k][p].frame]]]
IsPrivateMemory == Private!ASpec
=============================================================================
