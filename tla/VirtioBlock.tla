---------------------------- MODULE VirtioBlock -----------------------------
(* The virtio block driver (user/virtio-blk), the kernel's delivery of the     *)
(* device's interrupt as a message (arch/x86_64/interrupts.c) and, external,   *)
(* the device.  One request buffer and descriptor chain serve every request:   *)
(* a request is published, the device told, and the driver waits, by           *)
(* interrupts or, when the line could not be bound, by polling for a second.   *)
(* A byte of the disk is a token; the u16 ring indexes are mod DIndexes.       *)
EXTENDS Integers, Sequences

CONSTANTS
  DSector,      \* VIRTIO_BLK_SECTOR_SIZE
  DCapacity,    \* capacity_bytes
  DBufferMax,   \* VIRTIO_BLK_BUFFER_MAX, the size of block_buffer too
  DIpcBytes,    \* BUNIX_IPC_DATA_BYTES
  DQueueSize,   \* queue_size
  DIndexes,     \* the ring indexes are u16
  DScenarios    \* [irq, flush, slow, faulty, ops: set of <<op, off, len>>, count]

\* What serve_block_protocol takes
DOps == {"read", "buffer", "write", "flush"}
ASSUME DOpsKnown == \A d \in DScenarios: \A o \in d.ops: o[1] \in DOps

VARIABLES
  blk,          \* the driver, its shared memory, the line and the device
  ddoes         \* the scenario
dvars == <<blk, ddoes>>

DBytes == 0..DCapacity - 1
\* what the status byte holds, and a byte nobody wrote
DPending == -2
DOk == -3
DError == -4
DUnset == -1
DLeast(a, b) == IF a < b THEN a ELSE b
DNoJob == [op |-> "none", off |-> 0, len |-> 0, done |-> 0, data |-> <<>>, sub |-> "none"]

\* arch_irq_bind: a line is bound masked, with nothing pending
DBound == [masked |-> TRUE, pending |-> FALSE]
\* virtio_blk_bind_irq, when the line can be bound; the device is tested before main
\* serves
DInit ==
  /\ ddoes \in DScenarios
  /\ blk = [disk |-> [b \in DBytes |-> b],
            want |-> [b \in DBytes |-> {b}],       \* ghost: what a read may return
            cells |-> [i \in 0..DBufferMax |-> DUnset],  \* the data, and behind it the status
            desc |-> [type |-> "none", sector |-> 0, len |-> 0],
            avail |-> 0, used |-> 0, next |-> 0, seen |-> 0,
            taken |-> 0, held |-> <<>>, raise |-> FALSE, isr |-> FALSE,
            masked |-> DBound.masked, pending |-> DBound.pending, port |-> 0,
            valid |-> FALSE, sector |-> 0, cache |-> <<>>,
            job |-> [DNoJob EXCEPT !.op = "test", !.sub = "read"], pc |-> "start",
            ops |-> 0, off |-> 0, reply |-> <<>>, late |-> FALSE]

-----------------------------------------------------------------------------
(* The requests                                                                *)

\* Ends the call of a client: a read shows its data, a write has set the bytes or,
\* failing, may have
DEnd(b, ok) ==
  LET j == b.job
      range == j.off..j.off + j.len - 1 IN
  [b EXCEPT !.job = DNoJob, !.pc = IF j.op = "test" /\ ~ok THEN "dead" ELSE "idle",
            !.off = j.off,
            !.reply = IF ok /\ j.op \in {"read", "buffer"} THEN j.data ELSE <<>>,
            !.want = IF j.op # "write" THEN @
                     ELSE [x \in DBytes |->
                             IF x \notin range THEN @[x]
                             ELSE IF ok THEN {j.data[x - j.off + 1]}
                             ELSE @[x] \cup {j.data[x - j.off + 1]}]]

\* virtio_blk_submit: a full ring refuses the request
DSubmit(b, type, sector, len) ==
  IF b.next - b.seen >= DQueueSize THEN DEnd(b, FALSE)
  ELSE [b EXCEPT !.desc = [type |-> type, sector |-> sector, len |-> len],
                 !.cells[len] = DPending,
                 !.avail = (b.next + 1) % DIndexes, !.next = @ + 1,
                 !.pc = IF ddoes.irq THEN "check" ELSE "poll"]

\* The next piece of a call: the partial sector at its head, whole sectors up to the
\* buffer's size, the partial sector at its tail
DChunk(off, len, done) ==
  LET at == off + done
      left == DLeast(len - done, DBufferMax) IN
  IF at % DSector # 0
  THEN [sector |-> at \div DSector, from |-> at % DSector,
        n |-> DLeast(DSector - (at % DSector), len), whole |-> FALSE]
  ELSE IF len - done >= DSector
  THEN [sector |-> at \div DSector, from |-> 0, n |-> left - (left % DSector), whole |-> TRUE]
  ELSE [sector |-> at \div DSector, from |-> 0, n |-> len - done, whole |-> FALSE]

\* virtio_blk_write_aligned, virtio_blk_write_sector
DWriteAligned(b, sector, data) ==
  DSubmit([b EXCEPT !.cells = [i \in 0..DBufferMax |->
                                 IF i < Len(data) THEN data[i + 1] ELSE @[i]],
                    !.job.sub = "write"],
          "out", sector, Len(data))

\* virtio_blk_read_bytes, virtio_blk_write_bytes: on with the call, or its end.  A
\* partial sector is read before it is written
DContinue(b) ==
  LET j == b.job
      c == DChunk(j.off, j.len, j.done) IN
  IF j.done = j.len THEN DEnd(b, TRUE)
  ELSE IF j.op = "write" /\ c.whole
  THEN DWriteAligned(b, c.sector, SubSeq(j.data, j.done + 1, j.done + c.n))
  ELSE DSubmit([b EXCEPT !.job.sub = "read"], "in", c.sector,
               IF c.whole THEN c.n ELSE DSector)

\* virtio_blk_read_cached: small reads within one sector go by the cached sector
DReadCached(b) ==
  LET j == b.job
      sector == j.off \div DSector
      from == j.off % DSector IN
  IF from + j.len > DSector THEN DContinue(b)
  ELSE IF b.valid /\ b.sector = sector
  THEN DEnd([b EXCEPT !.job.data = SubSeq(b.cache, from + 1, from + j.len)], TRUE)
  ELSE DSubmit([b EXCEPT !.job.sub = "cache"], "in", sector, DSector)

\* virtio_blk_selftest: sector 0 is read, written back as read, and flushed
DSelftest(b) ==
  CASE b.job.sub = "read" -> DSubmit(b, "in", 0, DSector)
    [] b.job.sub = "write" -> DSubmit(b, "out", 0, DSector)
    [] b.job.sub = "flush" -> DSubmit(b, "flush", 0, 0)
DTested(b) ==
  CASE b.job.sub = "read" -> DSelftest([b EXCEPT !.job.sub = "write"])
    [] b.job.sub = "write" /\ ddoes.flush -> DSelftest([b EXCEPT !.job.sub = "flush"])
    [] OTHER -> [DEnd(b, TRUE) EXCEPT !.cells = [i \in 0..DBufferMax |-> DUnset]]

\* a piece is written: the cached sector may be another's now
DWrote_KeepsCache(b, n) == [b EXCEPT !.job.done = @ + n]
DWrote(b, n) == [b EXCEPT !.job.done = @ + n, !.valid = FALSE]

\* What the call does with a request that came back
DAnswered(b) ==
  LET j == b.job
      c == DChunk(j.off, j.len, j.done)
      read == [i \in 1..DBufferMax |-> b.cells[i - 1]]
      piece == SubSeq(read, c.from + 1, c.from + c.n)
      merged == [i \in 1..DSector |->
                   IF i \in c.from + 1..c.from + c.n THEN j.data[j.done + i - c.from]
                   ELSE read[i]] IN
  IF j.op = "test" THEN DTested(b)
  ELSE IF j.op = "flush" THEN DEnd(b, TRUE)
  ELSE IF j.sub = "cache"
  THEN DReadCached([b EXCEPT !.valid = TRUE, !.sector = j.off \div DSector,
                             !.cache = SubSeq(read, 1, DSector)])
  ELSE IF j.op # "write"
  THEN DContinue([b EXCEPT !.job.done = @ + c.n, !.job.data = @ \o piece])
  ELSE IF j.sub = "read" THEN DWriteAligned(b, c.sector, merged)
  ELSE DContinue(DWrote(b, c.n))
DFailed(b) ==
  DEnd(IF b.job.sub = "cache" THEN [b EXCEPT !.valid = FALSE] ELSE b, FALSE)

\* serve_block_protocol: lengths are cut at the end of the disk for reads, refused
\* there for writes
DServe(b, op, off, len) ==
  LET most == IF op = "read" THEN DIpcBytes ELSE DBufferMax
      cut == IF off >= DCapacity THEN 0 ELSE DLeast(DLeast(len, DCapacity - off), most)
      job == [DNoJob EXCEPT !.op = op, !.off = off, !.len = cut]
      s == [b EXCEPT !.reply = <<>>, !.ops = @ + 1, !.job = job]
      data == [i \in 1..cut |-> 10 * (b.ops + 1) + i] IN
  IF op = "flush" THEN IF ddoes.flush THEN DSubmit(s, "flush", 0, 0) ELSE DEnd(s, FALSE)
  ELSE IF op = "write" /\ (off > DCapacity \/ len > DCapacity - off)
  THEN DEnd([s EXCEPT !.job = [DNoJob EXCEPT !.op = "flush"]], FALSE)
  ELSE IF cut = 0 THEN DEnd(s, TRUE)
  ELSE IF op = "read" THEN DReadCached(s)
  ELSE DContinue([s EXCEPT !.job.data = IF op = "write" THEN data ELSE @])

\* virtio_blk_completion_done: what the used index and the status say now
DIsDone(b) == b.used # b.seen % DIndexes
DCompletion(b) ==
  LET s == [b EXCEPT !.seen = b.used] IN
  IF b.cells[b.desc.len] = DOk THEN DAnswered(s) ELSE DFailed(s)

-----------------------------------------------------------------------------
(* The driver's steps                                                          *)

DTest == blk.pc = "start" /\ blk' = DSelftest(blk)
DCall ==
  /\ blk.pc = "idle" /\ blk.ops < ddoes.count
  /\ \E o \in ddoes.ops: blk' = DServe(blk, o[1], o[2], o[3])

\* virtio_blk_wait_irq_completion: look; unmask; await the message; acknowledge at the
\* device, then at the kernel; look again
DCheck ==
  /\ blk.pc = "check"
  /\ blk' = IF DIsDone(blk) THEN DCompletion(blk) ELSE [blk EXCEPT !.pc = "arm"]
DArm_LeavesMasked == blk.pc = "arm" /\ blk' = [blk EXCEPT !.pc = "recv"]
DArm == blk.pc = "arm" /\ blk' = [blk EXCEPT !.masked = FALSE, !.pc = "recv"]
DRecv ==
  /\ blk.pc = "recv" /\ blk.port > 0
  /\ blk' = [blk EXCEPT !.port = @ - 1, !.pc = "ack"]
DAckDevice == blk.pc = "ack" /\ blk' = [blk EXCEPT !.isr = FALSE, !.pc = "eoi"]
DAckIrq_LeavesPending == blk.pc = "eoi" /\ blk' = [blk EXCEPT !.pc = "check"]
DAckIrq == blk.pc = "eoi" /\ blk' = [blk EXCEPT !.pending = FALSE, !.pc = "check"]

\* virtio_blk_wait_poll_completion: a look a millisecond, and after the last it gives up
DPoll == blk.pc = "poll" /\ DIsDone(blk) /\ blk' = DCompletion(blk)
DTimeout ==
  /\ blk.pc = "poll" /\ ddoes.slow
  /\ blk' = [DFailed(blk) EXCEPT !.late = TRUE]

-----------------------------------------------------------------------------
(* The line                                                                    *)

\* handle_device_irq: the line is masked; one message until it is acknowledged
DInterrupt ==
  /\ ddoes.irq /\ blk.isr /\ ~blk.masked
  /\ blk' = [blk EXCEPT !.masked = TRUE, !.pending = TRUE,
                        !.port = IF blk.pending THEN @ ELSE @ + 1]

-----------------------------------------------------------------------------
(* The device, external                                                        *)

DTake ==
  /\ blk.taken # blk.avail
  /\ blk' = [blk EXCEPT !.taken = (@ + 1) % DIndexes, !.held = Append(@, blk.desc)]
\* A request is served or, in part, not; then it is used, and then the line raised
DServed(r, n, status) ==
  LET first == r.sector * DSector IN
  [blk EXCEPT !.cells = [i \in 0..DBufferMax |->
                           IF i = r.len THEN status
                           ELSE IF r.type = "in" /\ i < n THEN blk.disk[first + i] ELSE @[i]],
              !.disk = [x \in DBytes |->
                          IF r.type = "out" /\ x \in first..first + n - 1
                          THEN blk.cells[x - first] ELSE @[x]],
              !.held = Tail(@), !.used = (@ + 1) % DIndexes, !.raise = TRUE]
DComplete == blk.held # <<>> /\ blk' = DServed(Head(blk.held), Head(blk.held).len, DOk)
DFault ==
  /\ ddoes.faulty /\ blk.held # <<>>
  /\ \E n \in {0, Head(blk.held).len}: blk' = DServed(Head(blk.held), n, DError)
DRaise == blk.raise /\ blk' = [blk EXCEPT !.raise = FALSE, !.isr = TRUE]

DNext ==
  /\ \/ DTest \/ DCall \/ DCheck \/ DArm \/ DRecv \/ DAckDevice \/ DAckIrq \/ DPoll
     \/ DTimeout \/ DInterrupt \/ DTake \/ DComplete \/ DFault \/ DRaise
  /\ UNCHANGED ddoes
DSpec == DInit /\ [][DNext]_dvars

-----------------------------------------------------------------------------

\* The driver, its buffer, the rings and the line have their types
BlockTypeOK ==
  /\ ddoes \in DScenarios
  /\ blk.avail \in 0..DIndexes - 1 /\ blk.used \in 0..DIndexes - 1
  /\ blk.pc \in {"start", "idle", "check", "arm", "recv", "ack", "eoi", "poll", "dead"}
  /\ blk.masked \in BOOLEAN /\ blk.pending \in BOOLEAN /\ blk.port \in Nat

\* A driver asleep on the line while its request is done will get a message
\* (virtio_blk_wait_irq_completion, handle_device_irq), and the line's port holds at
\* most one
CompletionHeard ==
  /\ blk.pc = "recv" /\ DIsDone(blk) =>
       blk.port > 0 \/ (~blk.masked /\ (blk.isr \/ blk.raise))
  /\ blk.port <= 1

\* No completion is slept through; and while no request timed out: a read that succeeds
\* returns, byte by byte, what the last successful write left there, or what a failed one
\* may have; and between calls, until the indexes have run over, no request is
\* outstanding, so the ring check cannot refuse
BlockSound ==
  /\ CompletionHeard
  /\ ~blk.late =>
       /\ \A i \in 1..Len(blk.reply): blk.reply[i] \in blk.want[blk.off + i - 1]
       /\ blk.pc = "idle" /\ blk.next < DIndexes => blk.next = blk.seen /\ blk.held = <<>>
=============================================================================
