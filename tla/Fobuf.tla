------------------------------- MODULE Fobuf --------------------------------
(***************************************************************************)
(* Buffered output (fobuf.c over fd_write() of os.c) to a file that other   *)
(* processes may read and that a crash may leave behind.  An output is a    *)
(* record: the bytes of the file as the kernel shows them, the offset of    *)
(* its descriptor, what is in the buffer, what is on disk for certain, and  *)
(* the writes since, of which a crash may keep any.                         *)
(***************************************************************************)
EXTENDS Integers, Sequences, SequencesExt, FiniteSetsExt

CONSTANT Zero   \* a byte never written

\* fobuf_new() on an empty file
FobufNew(bufsz) ==
    [file |-> <<>>, pos |-> 0, buf |-> <<>>, sz |-> bufsz,
     disk |-> <<>>, unsynced |-> <<>>]

\* file with data written at pos; a hole reads as zeroes.
Overlay(file, pos, data) ==
    [i \in 1..Max({Len(file), pos + Len(data)}) |->
        IF i \in (pos + 1)..(pos + Len(data)) THEN data[i - pos]
        ELSE IF i <= Len(file) THEN file[i] ELSE Zero]

\* fd_write(), which goes on after short and interrupted writes.
FdWrite(o, data) ==
    [o EXCEPT !.file = Overlay(@, o.pos, data),
              !.pos = @ + Len(data),
              !.unsynced = Append(@, [pos |-> o.pos, data |-> data])]

\* _fobuf_flush()
FobufFlush(o) ==
    IF o.buf = <<>> THEN o ELSE [FdWrite(o, o.buf) EXCEPT !.buf = <<>>]

Room(o) == o.sz - Len(o.buf)

\* fobuf_write_slow(): the buffer is filled up and flushed; the rest goes past
\* the buffer if it would fill it again.
FobufWriteSlow(o, data) ==
    LET full == FobufFlush([o EXCEPT !.buf = @ \o SubSeq(data, 1, Room(o))])
        rest == SubSeq(data, Room(o) + 1, Len(data))
    IN  IF Len(rest) >= o.sz THEN FdWrite(full, rest)
        ELSE [full EXCEPT !.buf = rest]

\* fobuf_write()
FobufWrite(o, data) ==
    IF Len(data) < Room(o) THEN [o EXCEPT !.buf = @ \o data]
    ELSE FobufWriteSlow(o, data)

\* What a flush, or a write of data, that fails may leave: fd_write() got some
\* way only.
FlushFailed(o) ==
    {FdWrite(o, SubSeq(o.buf, 1, k)) : k \in 0..(Len(o.buf) - 1)}

WriteFailed(o, data) ==
    IF Len(data) < Room(o) THEN {}
    ELSE LET all == o.buf \o data
             tried == IF Len(all) >= 2 * o.sz THEN Len(all) ELSE o.sz
         IN  {FdWrite(o, SubSeq(all, 1, k)) : k \in 0..(tried - 1)}

\* lseek(fobuf_fd(o), pos, SEEK_SET)
FdSeek(o, pos) == [o EXCEPT !.pos = pos]

\* fsync() of fobuf_close()
FdSync(o) == [o EXCEPT !.disk = o.file, !.unsynced = <<>>]

\* The files a power failure may leave.
CrashLeaves(o) ==
    {FoldLeft(LAMBDA file, i : IF i \in kept
                               THEN Overlay(file, o.unsynced[i].pos, o.unsynced[i].data)
                               ELSE file,
              o.disk, [i \in DOMAIN o.unsynced |-> i])
        : kept \in SUBSET DOMAIN o.unsynced}

=============================================================================
