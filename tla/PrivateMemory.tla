--------------------------- MODULE PrivateMemory ---------------------------
(***************************************************************************)
(* What a Linux process is promised of its memory: pages of its own, which *)
(* only it changes, and a child that starts with a copy of them.  Module   *)
(* Memory, with its shared frames and copy-on-write faults, implements     *)
(* this specification.                                                     *)
(***************************************************************************)
EXTENDS Naturals

CONSTANTS Owners, PagesOf, Values, Nothing

VARIABLES
  mem,     \* what each process reads at each page
  asked    \* how many calls have asked for mappings to change

Blank == [p \in PagesOf |-> Nothing]

\* mmap, munmap, mprotect, brk and execve of one process: pages come fresh, or go
ARemap(k) ==
  LET was == mem  is == mem' IN
    /\ asked' = asked + 1
    /\ is \in [Owners -> [PagesOf -> Values \cup {"zero", "file", Nothing}]]
    /\ \A j \in Owners \ {k} : is[j] = was[j]
    /\ \A p \in PagesOf : is[k][p] \in {was[k][p], "zero", "file", Nothing}

\* A store, by the process or by the kernel for it
AStore(k, p, v) ==
  /\ mem[k][p] # Nothing
  /\ mem' = [mem EXCEPT ![k][p] = v]
  /\ UNCHANGED asked

\* fork: the child, which had nothing, reads what its parent reads
AFork(k, c) ==
  /\ mem[c] = Blank
  /\ mem' = [mem EXCEPT ![c] = mem[k]]
  /\ UNCHANGED asked

AExit(k) == mem' = [mem EXCEPT ![k] = Blank] /\ UNCHANGED asked

AInit == mem \in [Owners -> [PagesOf -> {"file", Nothing}]] /\ asked = 0

ANext ==
  \E k \in Owners :
    \/ ARemap(k)
    \/ \E p \in PagesOf : \E v \in Values : AStore(k, p, v)
    \/ \E c \in Owners : AFork(k, c)
    \/ AExit(k)

ASpec == AInit /\ [][ANext]_<<mem, asked>>
=============================================================================
