------------------------- MODULE VirtioBlockProofs -------------------------
(***************************************************************************)
(* The wait for an interrupt of the virtio block driver, proved for any    *)
(* disk, buffer, ring and program: driver, kernel and device interleave in *)
(* every way, and no completion is slept through.                          *)
(***************************************************************************)
EXTENDS VirtioBlock, TLAPS

\* The fields of the state.
BlkFields ==
  {"disk", "want", "cells", "desc", "avail", "used", "next", "seen", "taken", "held",
   "raise", "isr", "masked", "pending", "port", "valid", "sector", "cache", "job", "pc",
   "ops", "off", "reply", "late"}

\* The self-test knows its stages.
TestStage(b) == b.job.op = "test" => b.job.sub \in {"read", "write", "flush"}

\* Where the driver waits for a message, and where it has taken one and not yet
\* acknowledged it.
Taken == {"ack", "eoi"}

\* The inductive invariant of the wait.  pending stands for a message that is in
\* the port, or taken and not yet acknowledged; an armed driver has its line
\* unmasked or a message to come; and what was completed since it looked has been
\* raised, or will be.
WaitInv ==
  /\ ddoes \in DScenarios
  /\ DOMAIN blk = BlkFields /\ DOMAIN blk.job = {"op", "off", "len", "done", "data", "sub"}
  /\ TestStage(blk) /\ (blk.pc = "start" => blk.job.op = "test")
  /\ blk.port \in 0..1
  /\ blk.port = 1 => blk.pending
  /\ blk.pc \in Taken => blk.pending /\ blk.port = 0
  /\ blk.pending /\ blk.pc \notin Taken => blk.port = 1
  /\ blk.pc = "recv" /\ blk.masked => blk.port = 1
  /\ blk.pc \in {"arm", "recv"} /\ DIsDone(blk) => blk.port = 1 \/ blk.isr \/ blk.raise

\* Between b and r the driver made or ended a request: it is not asleep, and the
\* line is as it was.
Moved(b, r) ==
  /\ DOMAIN r = BlkFields /\ DOMAIN r.job = {"op", "off", "len", "done", "data", "sub"}
  /\ TestStage(r)
  /\ r.pc \in {"idle", "dead", "check", "poll"}
  /\ r.masked = b.masked /\ r.pending = b.pending /\ r.port = b.port

\* A state of the driver's functions.
Fit(b) ==
  DOMAIN b = BlkFields /\ DOMAIN b.job = {"op", "off", "len", "done", "data", "sub"} /\ TestStage(b)

\* DEnd ends the call and leaves the line.
LEMMA EndMoves == ASSUME NEW b, Fit(b), NEW ok PROVE Moved(b, DEnd(b, ok))
  BY ZenonT(30) DEF DEnd, Fit, Moved, BlkFields, TestStage, DNoJob

\* virtio_blk_submit publishes or refuses.
LEMMA SubmitMoves ==
  ASSUME NEW b, Fit(b), NEW type, NEW sector, NEW len
  PROVE  Moved(b, DSubmit(b, type, sector, len))
  <1>1. CASE b.next - b.seen >= DQueueSize
    BY ZenonT(30), <1>1, EndMoves DEF DSubmit
  <1>2. CASE ~(b.next - b.seen >= DQueueSize)
    BY ZenonT(30), <1>2 DEF DSubmit, Fit, Moved, BlkFields, TestStage
  <1> QED
    BY ZenonT(30), <1>1, <1>2

\* State c is b but for what the line and the test do not depend on.
Like(b, c) ==
  Fit(c) /\ c.masked = b.masked /\ c.pending = b.pending /\ c.port = b.port

LEMMA LikeMoves == ASSUME NEW b, NEW c, NEW r, Like(b, c), Moved(c, r) PROVE Moved(b, r)
  BY ZenonT(30) DEF Like, Moved

\* virtio_blk_write_aligned and virtio_blk_write_sector.
LEMMA WriteMoves ==
  ASSUME NEW b, Fit(b), NEW sector, NEW data
  PROVE  Moved(b, DWriteAligned(b, sector, data))
  <1> DEFINE c == [b EXCEPT !.cells = [i \in 0..DBufferMax |->
                                         IF i < Len(data) THEN data[i + 1] ELSE @[i]],
                            !.job.sub = "write"]
  <1>1. Like(b, c)
    BY ZenonT(30) DEF Like, Fit, BlkFields, TestStage
  <1>2. DWriteAligned(b, sector, data) = DSubmit(c, "out", sector, Len(data))
    BY ZenonT(30) DEF DWriteAligned
  <1> HIDE DEF c
  <1> QED
    BY ZenonT(30), <1>1, <1>2, SubmitMoves, LikeMoves DEF Like

\* virtio_blk_read_bytes and virtio_blk_write_bytes.
LEMMA ContinueMoves == ASSUME NEW b, Fit(b) PROVE Moved(b, DContinue(b))
  <1> DEFINE j == b.job
             x == DChunk(j.off, j.len, j.done)
             c == [b EXCEPT !.job.sub = "read"]
  <1>1. Like(b, c)
    BY ZenonT(30) DEF Like, Fit, BlkFields, TestStage
  <1>2. \/ DContinue(b) = DEnd(b, TRUE)
        \/ DContinue(b) = DWriteAligned(b, x.sector, SubSeq(j.data, j.done + 1, j.done + x.n))
        \/ DContinue(b) = DSubmit(c, "in", x.sector, IF x.whole THEN x.n ELSE DSector)
    BY ZenonT(30) DEF DContinue
  <1> HIDE DEF c, x, j
  <1> QED
    BY ZenonT(30), <1>1, <1>2, EndMoves, WriteMoves, SubmitMoves, LikeMoves DEF Like

\* virtio_blk_read_cached.
LEMMA CachedMoves == ASSUME NEW b, Fit(b), b.job.op # "test" PROVE Moved(b, DReadCached(b))
  <1> DEFINE j == b.job
             sector == j.off \div DSector
             from == j.off % DSector
             c == [b EXCEPT !.job.data = SubSeq(b.cache, from + 1, from + j.len)]
             d == [b EXCEPT !.job.sub = "cache"]
  <1>1. Like(b, c) /\ Like(b, d)
    BY ZenonT(30) DEF Like, Fit, BlkFields, TestStage
  <1>2. \/ DReadCached(b) = DContinue(b)
        \/ DReadCached(b) = DEnd(c, TRUE)
        \/ DReadCached(b) = DSubmit(d, "in", sector, DSector)
    BY ZenonT(30) DEF DReadCached
  <1> HIDE DEF c, d, sector, from, j
  <1> QED
    BY ZenonT(30), <1>1, <1>2, ContinueMoves, EndMoves, SubmitMoves, LikeMoves DEF Like

\* virtio_blk_selftest.
LEMMA SelftestMoves == ASSUME NEW b, Fit(b), b.job.op = "test" PROVE Moved(b, DSelftest(b))
  <1>1. b.job.sub \in {"read", "write", "flush"}
    BY ZenonT(30) DEF Fit, TestStage
  <1>2. \/ DSelftest(b) = DSubmit(b, "in", 0, DSector)
        \/ DSelftest(b) = DSubmit(b, "out", 0, DSector)
        \/ DSelftest(b) = DSubmit(b, "flush", 0, 0)
    BY ZenonT(30), <1>1 DEF DSelftest
  <1> QED
    BY ZenonT(30), <1>2, SubmitMoves

\* The next stage of the test, or its end.
LEMMA TestedMoves == ASSUME NEW b, Fit(b), b.job.op = "test" PROVE Moved(b, DTested(b))
  <1> DEFINE c == [b EXCEPT !.job.sub = "write"]
             d == [b EXCEPT !.job.sub = "flush"]
             e == DEnd(b, TRUE)
  <1>1. Like(b, c) /\ c.job.op = "test" /\ Like(b, d) /\ d.job.op = "test"
    BY ZenonT(30) DEF Like, Fit, BlkFields, TestStage
  <1>2. \/ DTested(b) = DSelftest(c)
        \/ DTested(b) = DSelftest(d)
        \/ DTested(b) = [e EXCEPT !.cells = [i \in 0..DBufferMax |-> DUnset]]
    BY ZenonT(30) DEF DTested
  <1>3. Moved(b, e)
    BY ZenonT(30), EndMoves
  <1> HIDE DEF c, d, e
  <1>4. Moved(b, [e EXCEPT !.cells = [i \in 0..DBufferMax |-> DUnset]])
    BY ZenonT(30), <1>3 DEF Moved, BlkFields, TestStage
  <1> QED
    BY ZenonT(30), <1>1, <1>2, <1>4, SelftestMoves, LikeMoves DEF Like

\* What the call does with a request that came back.
LEMMA AnsweredMoves == ASSUME NEW b, Fit(b) PROVE Moved(b, DAnswered(b))
  <1> DEFINE j == b.job
             x == DChunk(j.off, j.len, j.done)
             read == [i \in 1..DBufferMax |-> b.cells[i - 1]]
             piece == SubSeq(read, x.from + 1, x.from + x.n)
             merged == [i \in 1..DSector |->
                          IF i \in x.from + 1..x.from + x.n THEN j.data[j.done + i - x.from]
                          ELSE read[i]]
             c == [b EXCEPT !.valid = TRUE, !.sector = j.off \div DSector,
                            !.cache = SubSeq(read, 1, DSector)]
             d == DWrote(b, x.n)
             e == [b EXCEPT !.job.done = @ + x.n, !.job.data = @ \o piece]
  <1>1. Like(b, c) /\ c.job = b.job
    BY ZenonT(30) DEF Like, Fit, BlkFields, TestStage
  <1>2. Like(b, d)
    BY ZenonT(30) DEF Like, Fit, BlkFields, TestStage, DWrote
  <1>3. Like(b, e)
    BY ZenonT(30) DEF Like, Fit, BlkFields, TestStage
  <1>4. \/ b.job.op = "test" /\ DAnswered(b) = DTested(b)
        \/ DAnswered(b) = DEnd(b, TRUE)
        \/ b.job.op # "test" /\ DAnswered(b) = DReadCached(c)
        \/ DAnswered(b) = DWriteAligned(b, x.sector, merged)
        \/ DAnswered(b) = DContinue(d)
        \/ DAnswered(b) = DContinue(e)
    BY ZenonT(30) DEF DAnswered
  <1> HIDE DEF c, d, e, merged, piece, read, x, j
  <1> QED
    BY ZenonT(30), <1>1, <1>2, <1>3, <1>4, TestedMoves, EndMoves, CachedMoves, WriteMoves,
       ContinueMoves, LikeMoves DEF Like

\* A request that failed ends its call.
LEMMA FailedMoves == ASSUME NEW b, Fit(b) PROVE Moved(b, DFailed(b))
  <1> DEFINE c == [b EXCEPT !.valid = FALSE]
  <1>1. Like(b, c) /\ Like(b, b)
    BY ZenonT(30) DEF Like, Fit, BlkFields, TestStage
  <1>2. DFailed(b) = DEnd(c, FALSE) \/ DFailed(b) = DEnd(b, FALSE)
    BY ZenonT(30) DEF DFailed
  <1> HIDE DEF c
  <1> QED
    BY ZenonT(30), <1>1, <1>2, EndMoves, LikeMoves DEF Like

\* A request that is done.
LEMMA CompletionMoves == ASSUME NEW b, Fit(b) PROVE Moved(b, DCompletion(b))
  <1> DEFINE c == [b EXCEPT !.seen = b.used]
  <1>1. Like(b, c)
    BY ZenonT(30) DEF Like, Fit, BlkFields, TestStage
  <1>2. DCompletion(b) = DAnswered(c) \/ DCompletion(b) = DFailed(c)
    BY ZenonT(30) DEF DCompletion
  <1> HIDE DEF c
  <1> QED
    BY ZenonT(30), <1>1, <1>2, AnsweredMoves, FailedMoves, LikeMoves DEF Like

\* serve_block_protocol.
LEMMA ServeMoves ==
  ASSUME NEW b, Fit(b), NEW op, op # "test", NEW off, NEW len
  PROVE  Moved(b, DServe(b, op, off, len))
  <1> DEFINE most == IF op = "read" THEN DIpcBytes ELSE DBufferMax
             cut == IF off >= DCapacity THEN 0 ELSE DLeast(DLeast(len, DCapacity - off), most)
             job == [DNoJob EXCEPT !.op = op, !.off = off, !.len = cut]
             s == [b EXCEPT !.reply = <<>>, !.ops = @ + 1, !.job = job]
             data == [i \in 1..cut |-> 10 * (b.ops + 1) + i]
             c == [s EXCEPT !.job = [DNoJob EXCEPT !.op = "flush"]]
             d == [s EXCEPT !.job.data = IF op = "write" THEN data ELSE @]
  <1> HIDE DEF cut, most, data
  <1>1. Like(b, s) /\ s.job.op = op
    BY ZenonT(30) DEF Like, Fit, BlkFields, TestStage, DNoJob
  <1> HIDE DEF s, job
  <1>2. Like(b, c) /\ Like(b, d)
    BY ZenonT(30), <1>1 DEF Like, Fit, BlkFields, TestStage, DNoJob
  <1>3. \/ DServe(b, op, off, len) = DSubmit(s, "flush", 0, 0)
        \/ DServe(b, op, off, len) = DEnd(s, FALSE)
        \/ DServe(b, op, off, len) = DEnd(c, FALSE)
        \/ DServe(b, op, off, len) = DEnd(s, TRUE)
        \/ DServe(b, op, off, len) = DReadCached(s)
        \/ DServe(b, op, off, len) = DContinue(d)
    BY ZenonT(30) DEF DServe, s, job, cut, most, data
  <1> HIDE DEF c, d
  <1> QED
    BY ZenonT(30), <1>1, <1>2, <1>3, SubmitMoves, EndMoves, CachedMoves, ContinueMoves,
       LikeMoves DEF Like

-----------------------------------------------------------------------------
(* The invariant                                                               *)

\* A driver that has no message in hand moves on: the invariant holds.
LEMMA MovedSafe ==
  ASSUME WaitInv, UNCHANGED ddoes, blk.pc \notin Taken, Moved(blk, blk')
  PROVE  WaitInv'
  BY ZenonT(30) DEF WaitInv, Moved, TestStage, Taken

\* A step that leaves the driver's call and its place alone.
LEMMA FieldsSafe ==
  ASSUME WaitInv, UNCHANGED ddoes, DOMAIN blk' = BlkFields, blk'.job = blk.job
  PROVE  /\ ddoes' \in DScenarios /\ DOMAIN blk' = BlkFields
         /\ DOMAIN blk'.job = {"op", "off", "len", "done", "data", "sub"}
         /\ TestStage(blk)'
  BY ZenonT(30) DEF WaitInv, TestStage

LEMMA WaitInit == ASSUME DInit PROVE WaitInv
  <1>1. /\ ddoes \in DScenarios /\ DOMAIN blk = BlkFields
        /\ DOMAIN blk.job = {"op", "off", "len", "done", "data", "sub"}
        /\ blk.job.op = "test" /\ blk.job.sub = "read" /\ blk.pc = "start"
        /\ blk.port = 0 /\ ~blk.pending
    BY ZenonT(30) DEF DInit, BlkFields, DBound, DNoJob
  <1> QED
    BY <1>1 DEF WaitInv, TestStage, Taken

\* virtio_blk_selftest begins.
LEMMA TestSafe == ASSUME WaitInv, DTest, UNCHANGED ddoes PROVE WaitInv'
  <1>1. Fit(blk) /\ blk.job.op = "test" /\ blk.pc \notin Taken /\ blk' = DSelftest(blk)
    BY ZenonT(30) DEF WaitInv, DTest, Fit, Taken
  <1> QED
    BY ZenonT(30), <1>1, SelftestMoves, MovedSafe

\* A client's call.
LEMMA CallSafe == ASSUME WaitInv, DCall, UNCHANGED ddoes PROVE WaitInv'
  <1>1. PICK o \in ddoes.ops: blk' = DServe(blk, o[1], o[2], o[3])
    BY ZenonT(30) DEF DCall
  <1>2. Fit(blk) /\ blk.pc \notin Taken
    BY ZenonT(30) DEF WaitInv, DCall, Fit, Taken
  <1>3. o[1] # "test"
    BY ZenonT(30), DOpsKnown DEF WaitInv, DOps
  <1> QED
    BY ZenonT(30), <1>1, <1>2, <1>3, ServeMoves, MovedSafe

\* virtio_blk_completion_done, before the line is unmasked.
LEMMA CheckSafe == ASSUME WaitInv, DCheck, UNCHANGED ddoes PROVE WaitInv'
  <1>1. Fit(blk) /\ blk.pc \notin Taken /\ blk.pc = "check"
    BY ZenonT(30) DEF WaitInv, DCheck, Fit, Taken
  <1>2. CASE DIsDone(blk)
    BY ZenonT(30), <1>1, <1>2, CompletionMoves, MovedSafe DEF DCheck
  <1>3. CASE ~DIsDone(blk)
    <2>1. blk' = [blk EXCEPT !.pc = "arm"]
      BY ZenonT(30), <1>3 DEF DCheck
    <2>2. /\ DOMAIN blk' = BlkFields /\ blk'.job = blk.job /\ blk'.pc = "arm"
          /\ blk'.port = blk.port /\ blk'.pending = blk.pending /\ ~DIsDone(blk)'
      BY ZenonT(30), <2>1, <1>3 DEF WaitInv, BlkFields, DIsDone
    <2> QED
      BY ZenonT(30), <1>1, <2>2, FieldsSafe DEF WaitInv, Taken
  <1> QED
    BY ZenonT(30), <1>2, <1>3

\* The line is unmasked, and the driver sleeps.
LEMMA ArmSafe == ASSUME WaitInv, DArm, UNCHANGED ddoes PROVE WaitInv'
  <1>1. /\ DOMAIN blk' = BlkFields /\ blk'.job = blk.job /\ blk'.pc = "recv"
        /\ blk'.port = blk.port /\ blk'.pending = blk.pending /\ ~blk'.masked
        /\ blk'.isr = blk.isr /\ blk'.raise = blk.raise /\ DIsDone(blk)' = DIsDone(blk)
    BY ZenonT(30) DEF WaitInv, DArm, BlkFields, DIsDone
  <1>2. blk.pc = "arm"
    BY ZenonT(30) DEF DArm
  <1> QED
    BY ZenonT(30), <1>1, <1>2, FieldsSafe DEF WaitInv, Taken

\* The message is taken.
LEMMA RecvSafe == ASSUME WaitInv, DRecv, UNCHANGED ddoes PROVE WaitInv'
  <1>1. /\ DOMAIN blk' = BlkFields /\ blk'.job = blk.job /\ blk'.pc = "ack"
        /\ blk'.port = 0 /\ blk'.port \in 0..1 /\ blk'.port # 1
        /\ blk'.pending = blk.pending /\ blk.port = 1
    BY DEF WaitInv, DRecv, BlkFields
  <1> QED
    BY ZenonT(30), <1>1, FieldsSafe DEF WaitInv, Taken

\* The device's interrupt status is read, which clears it.
LEMMA AckDeviceSafe == ASSUME WaitInv, DAckDevice, UNCHANGED ddoes PROVE WaitInv'
  <1>1. /\ DOMAIN blk' = BlkFields /\ blk'.job = blk.job /\ blk'.pc = "eoi"
        /\ blk'.port = blk.port /\ blk'.pending = blk.pending /\ blk.pc = "ack"
    BY ZenonT(30) DEF WaitInv, DAckDevice, BlkFields
  <1> QED
    BY ZenonT(30), <1>1, FieldsSafe DEF WaitInv, Taken

\* The kernel is told: the next interrupt sends a message again.
LEMMA AckIrqSafe == ASSUME WaitInv, DAckIrq, UNCHANGED ddoes PROVE WaitInv'
  <1>1. /\ DOMAIN blk' = BlkFields /\ blk'.job = blk.job /\ blk'.pc = "check"
        /\ blk'.port = blk.port /\ ~blk'.pending /\ blk.pc = "eoi" /\ blk.port # 1
    BY DEF Taken, WaitInv, DAckIrq, BlkFields
  <1> QED
    BY ZenonT(30), <1>1, FieldsSafe DEF WaitInv, Taken

\* A request awaited by polling is done, or given up.
LEMMA PollSafe == ASSUME WaitInv, DPoll \/ DTimeout, UNCHANGED ddoes PROVE WaitInv'
  <1>1. Fit(blk) /\ blk.pc \notin Taken
    BY ZenonT(30) DEF WaitInv, DPoll, DTimeout, Fit, Taken
  <1>2. CASE DPoll
    BY ZenonT(30), <1>1, <1>2, CompletionMoves, MovedSafe DEF DPoll
  <1>3. CASE DTimeout
    <2> DEFINE r == DFailed(blk)
    <2>1. Moved(blk, r) /\ blk' = [r EXCEPT !.late = TRUE]
      BY ZenonT(30), <1>1, <1>3, FailedMoves DEF DTimeout
    <2> HIDE DEF r
    <2>2. Moved(blk, blk')
      BY ZenonT(30), <2>1 DEF Moved, BlkFields, TestStage
    <2> QED
      BY ZenonT(30), <1>1, <2>2, MovedSafe
  <1> QED
    BY ZenonT(30), <1>2, <1>3

\* handle_device_irq: the line is masked, and one message sent.
LEMMA InterruptSafe == ASSUME WaitInv, DInterrupt, UNCHANGED ddoes PROVE WaitInv'
  <1>1. /\ DOMAIN blk' = BlkFields /\ blk'.job = blk.job /\ blk'.pc = blk.pc
        /\ blk'.pending /\ blk'.port = IF blk.pending THEN blk.port ELSE blk.port + 1
    BY ZenonT(30) DEF WaitInv, DInterrupt, BlkFields
  <1>2. blk'.port \in 0..1
    BY <1>1 DEF WaitInv
  <1>3. blk.pc \in Taken => blk'.port = 0
    BY ZenonT(30), <1>1 DEF WaitInv
  <1>4. blk.pc \notin Taken => blk'.port = 1
    BY <1>1 DEF WaitInv
  <1> QED
    BY ZenonT(30), <1>1, <1>2, <1>3, <1>4, FieldsSafe DEF WaitInv, Taken

\* The device takes a request.
LEMMA TakeSafe == ASSUME WaitInv, DTake, UNCHANGED ddoes PROVE WaitInv'
  <1>1. /\ DOMAIN blk' = BlkFields /\ blk'.job = blk.job /\ blk'.pc = blk.pc
        /\ blk'.port = blk.port /\ blk'.pending = blk.pending /\ blk'.masked = blk.masked
        /\ blk'.isr = blk.isr /\ blk'.raise = blk.raise /\ DIsDone(blk)' = DIsDone(blk)
    BY ZenonT(30) DEF WaitInv, DTake, BlkFields, DIsDone
  <1> QED
    BY ZenonT(30), <1>1, FieldsSafe DEF WaitInv

\* The device completes a request, served or not: the line is to be raised.
LEMMA CompleteSafe == ASSUME WaitInv, DComplete \/ DFault, UNCHANGED ddoes PROVE WaitInv'
  <1>1. PICK r, n, status: blk' = DServed(r, n, status)
    BY ZenonT(30) DEF DComplete, DFault
  <1>2. /\ DOMAIN blk' = BlkFields /\ blk'.job = blk.job /\ blk'.pc = blk.pc
        /\ blk'.port = blk.port /\ blk'.pending = blk.pending /\ blk'.masked = blk.masked
        /\ blk'.raise
    BY ZenonT(30), <1>1 DEF WaitInv, DServed, BlkFields
  <1> QED
    BY ZenonT(30), <1>2, FieldsSafe DEF WaitInv

\* The device raises its line.
LEMMA RaiseSafe == ASSUME WaitInv, DRaise, UNCHANGED ddoes PROVE WaitInv'
  <1>1. /\ DOMAIN blk' = BlkFields /\ blk'.job = blk.job /\ blk'.pc = blk.pc
        /\ blk'.port = blk.port /\ blk'.pending = blk.pending /\ blk'.masked = blk.masked
        /\ blk'.isr
    BY ZenonT(30) DEF WaitInv, DRaise, BlkFields
  <1> QED
    BY ZenonT(30), <1>1, FieldsSafe DEF WaitInv

\* The block driver never sleeps through a completion, and its port never holds a
\* second message: virtio_blk_wait_irq_completion unmasks the line only after it
\* looked, handle_device_irq masks it and sends one message, and a completion between
\* the look and the sleep has raised the line.
THEOREM CompletionsHeard == DSpec => []CompletionHeard
  <1>1. WaitInv /\ [DNext]_dvars => WaitInv'
    <2> SUFFICES ASSUME WaitInv, [DNext]_dvars PROVE WaitInv'
      BY ZenonT(30)
    <2>1. CASE UNCHANGED dvars
      BY ZenonT(30), <2>1 DEF dvars, WaitInv, TestStage, DIsDone
    <2>2. CASE DNext
      BY ZenonT(30), <2>2, TestSafe, CallSafe, CheckSafe, ArmSafe, RecvSafe, AckDeviceSafe,
         AckIrqSafe, PollSafe, InterruptSafe, TakeSafe, CompleteSafe, RaiseSafe DEF DNext
    <2> QED
      BY ZenonT(30), <2>1, <2>2
  <1>2. WaitInv => CompletionHeard
    BY DEF WaitInv, CompletionHeard
  <1> QED
    BY WaitInit, <1>1, <1>2, PTL DEF DSpec
=============================================================================
