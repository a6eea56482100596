----------------------------- MODULE LinuxPipes -----------------------------
(* Pipes of the Linux server (user/linux/main.c).  The server has one       *)
(* thread and finishes a message before it takes the next, so its           *)
(* functions are operators from server state to server state.  A state is   *)
(* a record; this module uses two fields of it: pipe, the pipe table, and   *)
(* task, what the kernel task of every process does: it runs, it waits in a *)
(* call for the server's reply, or it is gone.                              *)
EXTENDS Integers, Sequences, SequencesExt

CONSTANTS Capacity   \* LINUX_PIPE_CAPACITY

ASSUME CapacityAssumption == Capacity \in Nat \ {0}

Nobody == 0     \* the pid of no process

\* bunix_ipc_send on a kept reply handle: the task goes on, if it still is there
Answer(s, p) ==
  [s EXCEPT !.task[p] = IF @ = "call" THEN "run" ELSE @]

\* A byte is its position in the stream; sent and got count the bytes that
\* went in and came out.
NewPipe ==
  [readRefs |-> 1, writeRefs |-> 1,
   data |-> [i \in 0 .. Capacity - 1 |-> 0], start |-> 0, len |-> 0,
   reader |-> Nobody, readerLen |-> 0, writer |-> Nobody, writerLen |-> 0,
   sent |-> 0, got |-> 0]
NoPipe == [NewPipe EXCEPT !.readRefs = 0, !.writeRefs = 0]

Lesser(a, b) == IF a < b THEN a ELSE b

\* The copy out of the ring of linux_pipe_read_available
Take(pipe, len) ==
  LET n == Lesser(len, pipe.len)
  IN [pipe EXCEPT !.start = (@ + n) % Capacity, !.len = @ - n, !.got = @ + n]

\* Mutant: the write position ignores where the ring starts
WriteAvailable_FromZero(pipe, len) ==
  LET n == IF pipe.readRefs = 0 THEN 0 ELSE Lesser(len, Capacity - pipe.len)
      At == [k \in 1 .. n |-> (pipe.len + k - 1) % Capacity]
  IN [pipe EXCEPT !.data = [i \in DOMAIN @ |->
                              IF \E k \in 1 .. n : At[k] = i
                              THEN pipe.sent + CHOOSE k \in 1 .. n : At[k] = i
                              ELSE @[i]],
                  !.len = @ + n, !.sent = @ + n]
\* linux_pipe_write_available: as much as fits, nothing without readers
WriteAvailable(pipe, len) ==
  LET n == IF pipe.readRefs = 0 THEN 0 ELSE Lesser(len, Capacity - pipe.len)
      At == [k \in 1 .. n |-> (pipe.start + pipe.len + k - 1) % Capacity]
  IN [pipe EXCEPT !.data = [i \in DOMAIN @ |->
                              IF \E k \in 1 .. n : At[k] = i
                              THEN pipe.sent + CHOOSE k \in 1 .. n : At[k] = i
                              ELSE @[i]],
                  !.len = @ + n, !.sent = @ + n]

ReaderReady(pipe) ==
  pipe.reader # Nobody /\ ~(pipe.len = 0 /\ pipe.writeRefs # 0)
WriterReady(pipe) ==
  pipe.writer # Nobody /\ ~(pipe.readRefs # 0 /\ pipe.len = Capacity)

\* The body of linux_pipe_wake_writer up to its call of linux_pipe_wake_reader
LetWrite(s, i) ==
  LET pipe == s.pipe[i]
      cleared == [pipe EXCEPT !.writer = Nobody, !.writerLen = 0]
  IN IF WriterReady(pipe)
     THEN Answer([s EXCEPT !.pipe[i] = WriteAvailable(cleared, pipe.writerLen)],
                 pipe.writer)
     ELSE s

\* linux_pipe_wake_reader.  The read lets a writer in, whose own wake-up of
\* the reader finds it gone.
PipeWakeReader(s, i) ==
  LET pipe == s.pipe[i]
      cleared == [pipe EXCEPT !.reader = Nobody, !.readerLen = 0]
      taken == [s EXCEPT !.pipe[i] = Take(cleared, pipe.readerLen)]
  IN IF ReaderReady(pipe)
     THEN Answer(IF pipe.len = 0 THEN taken ELSE LetWrite(taken, i), pipe.reader)
     ELSE s

PipeWakeWriter(s, i) ==
  IF WriterReady(s.pipe[i]) THEN PipeWakeReader(LetWrite(s, i), i) ELSE s

\* linux_pipe_read_available on a pipe that is not empty
PipeReadAvailable(s, i, len) ==
  PipeWakeWriter([s EXCEPT !.pipe[i] = Take(@, len)], i)

PipeRefAdd(s, fd) ==
  CASE fd.kind = "pipe_read" -> [s EXCEPT !.pipe[fd.pipe].readRefs = @ + 1]
    [] fd.kind = "pipe_write" -> [s EXCEPT !.pipe[fd.pipe].writeRefs = @ + 1]
    [] OTHER -> s

PipeRefDrop(s, fd) ==
  CASE fd.kind = "pipe_read" ->
         [s EXCEPT !.pipe[fd.pipe].readRefs = IF @ = 0 THEN 0 ELSE @ - 1]
    [] fd.kind = "pipe_write" ->
         [s EXCEPT !.pipe[fd.pipe].writeRefs = IF @ = 0 THEN 0 ELSE @ - 1]

PipeDestroyIfUnused(s, i) ==
  IF s.pipe[i].readRefs = 0 /\ s.pipe[i].writeRefs = 0
  THEN [s EXCEPT !.pipe[i] = NoPipe] ELSE s

\* Mutant: the last writer closes without telling the reader
PipeClose_Quiet(s, fd) ==
  PipeDestroyIfUnused(PipeWakeWriter(PipeRefDrop(s, fd), fd.pipe), fd.pipe)
\* The part of linux_close about pipes
PipeClose(s, fd) ==
  LET dropped == PipeRefDrop(s, fd)
      woken == PipeWakeWriter(PipeWakeReader(dropped, fd.pipe), fd.pipe)
  IN PipeDestroyIfUnused(woken, fd.pipe)

\* The part of linux_read about pipes, for process p
PipeRead(s, p, fd, len) ==
  LET pipe == s.pipe[fd.pipe]
  IN CASE pipe.len # 0 -> PipeReadAvailable(s, fd.pipe, len)
       [] pipe.len = 0 /\ pipe.writeRefs # 0 /\ ~fd.nonblock
          /\ pipe.reader = Nobody ->
            [s EXCEPT !.pipe[fd.pipe].reader = p,
                      !.pipe[fd.pipe].readerLen = len, !.task[p] = "call"]
       [] OTHER -> s     \* end of file, or EAGAIN

\* The part of linux_write_buffer about pipes
PipeWrite(s, p, fd, len) ==
  LET pipe == s.pipe[fd.pipe]
      full == pipe.len = Capacity
  IN CASE pipe.readRefs = 0 -> s     \* EPIPE
       [] pipe.readRefs # 0 /\ ~full ->
            PipeWakeReader([s EXCEPT !.pipe[fd.pipe] = WriteAvailable(@, len)],
                           fd.pipe)
       [] pipe.readRefs # 0 /\ full /\ ~fd.nonblock /\ pipe.writer = Nobody ->
            [s EXCEPT !.pipe[fd.pipe].writer = p,
                      !.pipe[fd.pipe].writerLen = len, !.task[p] = "call"]
       [] OTHER -> s     \* EAGAIN
=============================================================================
