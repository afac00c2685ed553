--------------------------- MODULE RangeReader ---------------------------
(***************************************************************************)
(* HttpRangeReader of src/src/remote.rs: Read and Seek over a remote model *)
(* through HTTP range requests, with one buffer, and the caller's          *)
(* read_exact, a loop over read.                                           *)
(*                                                                         *)
(* A byte is known by its offset in the file.  The server answers with a   *)
(* part of the range it was asked for, from its start on and possibly      *)
(* empty, or the request fails; that it does not answer with the whole     *)
(* file is assumed, for fetch looks at no status.  The reader belongs to   *)
(* one caller: nothing interleaves with a read, but between two of them of *)
(* one read_exact the buffer may end anywhere.                             *)
(***************************************************************************)
EXTENDS Integers, Sequences

CONSTANTS
  FileLen,        \* len, the Content-Length of the HEAD request
  Readahead,      \* SMALL_READAHEAD
  Wants,          \* the lengths a caller reads
  Offsets,        \* how far a caller seeks, forward or back
  MaxPosition     \* the furthest position a caller seeks

ASSUME FileAssumption == FileLen \in Nat /\ Readahead \in Nat
ASSUME CallerAssumption ==
  Wants \subseteq Nat \ {0} /\ Offsets \subseteq Nat /\ MaxPosition \in Nat

VARIABLES
  pos,            \* pos
  buf,            \* buf
  bufStart,       \* buf_start
  missing,        \* the bytes the read_exact under way still wants; 0 if none is
  from,           \* pos at its start
  out,            \* what it got so far
  last,           \* the outcome of the last one, and the bytes it gave
  origin,         \* history: pos at the last seek or prefetch
  fetched         \* fetched_bytes since then, by reads

readVars == <<missing, from, out, last>>
vars     == <<pos, buf, bufStart, readVars, origin, fetched>>

File == INSTANCE ByteFile WITH
          position <- IF missing = 0 THEN pos ELSE from

------------------------------------------------------------------------
Lesser(a, b)  == IF a <= b THEN a ELSE b
Greater(a, b) == IF a >= b THEN a ELSE b

\* new: the length is known, nothing is buffered.
Init ==
  /\ pos = 0 /\ buf = <<>> /\ bufStart = 0
  /\ missing = 0 /\ from = 0 /\ out = <<>>
  /\ last = File!Outcome("none", <<>>)
  /\ origin = 0 /\ fetched = 0

\* fetch: where the range of a request that starts at start ends.  Small reads
\* are widened to the read-ahead, large ones are asked for as they are.
RangeEnd(start, want) ==
  LET ahead == Lesser(Readahead, Greater(FileLen - start, 0))
  IN  Lesser(start + Greater(want, ahead), FileLen)

\* Mutant: the body is read from the byte after the first.
AnswersShifted(start, want) ==
  {File!Bytes(start + 1, end) : end \in (start + 1) .. RangeEnd(start, want)}

\* Mutant: the last byte of a range belongs to it, and the header asks for
\* one more.
AnswersInclusive(start, want) ==
  {File!Bytes(start, end) : end \in start .. (RangeEnd(start, want) + 1)}

\* The bodies that may come back: a part of the range from its start on.  It
\* may be empty: fetch takes what it gets, and read has a case for it.
Answers(start, want) ==
  {File!Bytes(start, end) : end \in start .. RangeEnd(start, want)}

\* Mutant: the last byte behind the buffer counts as in it.
InBufferInclusive(p) == bufStart <= p /\ p <= bufStart + Len(buf)

\* Mutant: a read is served from the buffer only if all of it is there.
InBufferWhole(p) == bufStart <= p /\ p + missing <= bufStart + Len(buf)

\* in_buf
InBuffer(p) == bufStart <= p /\ p < bufStart + Len(buf)

\* The part of a buffer that starts at start which read copies out at pos, of
\* n bytes at most.  At the end of the buffer it is empty.
Copied(buffer, start, n) ==
  LET offset == pos - start
      count  == Lesser(Len(buffer) - offset, n)
  IN  SubSeq(buffer, offset + 1, offset + count)

\* read returned bytes, and read_exact goes on or is done.  No bytes are the end
\* of the file to it; the outcome keeps whether they are ("eof") or the server
\* gave none ("cut").
Deliver(bytes, nothing) ==
  LET got  == out \o bytes
      done == Len(bytes) = missing
  IN  /\ pos'     = pos + Len(bytes)
      /\ missing' = IF bytes = <<>> THEN 0 ELSE missing - Len(bytes)
      /\ out'     = IF bytes = <<>> \/ done THEN <<>> ELSE got
      /\ last'    = IF bytes = <<>> THEN File!Outcome(nothing, <<>>)
                    ELSE IF done THEN File!Outcome("ok", got) ELSE last
      /\ UNCHANGED from

------------------------------------------------------------------------
(* The caller's read_exact.                                                *)

Begin(n) ==
  /\ missing = 0
  /\ missing' = n /\ from' = pos /\ out' = <<>>
  /\ UNCHANGED <<pos, buf, bufStart, last, origin, fetched>>

\* read at the end of the file or behind it: Ok(0).
ReadAtEnd ==
  /\ missing > 0 /\ pos >= FileLen
  /\ Deliver(<<>>, "eof")
  /\ UNCHANGED <<buf, bufStart, origin, fetched>>

\* read from the buffer.
ReadBuffered ==
  /\ missing > 0 /\ pos < FileLen /\ InBuffer(pos)
  /\ Deliver(Copied(buf, bufStart, missing), "eof")
  /\ UNCHANGED <<buf, bufStart, origin, fetched>>

\* read with a request.  An empty body leaves pos at the end of an empty buffer,
\* and read returns Ok(0) wherever in the file that is.
ReadFetched ==
  /\ missing > 0 /\ pos < FileLen /\ ~ InBuffer(pos)
  /\ \E body \in Answers(pos, missing) :
       /\ buf' = body
       /\ bufStart' = pos
       /\ fetched' = fetched + Len(body)
       /\ Deliver(Copied(body, pos, missing), "cut")
  /\ UNCHANGED origin

\* read with a request that fails, or whose body breaks off: the buffer stays
\* as it was, and read_exact returns the error.
ReadFails ==
  /\ missing > 0 /\ pos < FileLen /\ ~ InBuffer(pos)
  /\ missing' = 0 /\ out' = <<>> /\ last' = File!Outcome("error", <<>>)
  /\ UNCHANGED <<pos, buf, bufStart, from, origin, fetched>>

------------------------------------------------------------------------
(* Between reads.                                                          *)

\* seek to new, in the file or behind it; before its start it is an error and
\* changes nothing.
SeekTo(new) ==
  /\ missing = 0
  /\ new \in 0 .. MaxPosition
  /\ pos' = new
  /\ origin' = new /\ fetched' = 0
  /\ UNCHANGED <<buf, bufStart, readVars>>

Seek ==
  \E offset \in Offsets :
    \/ SeekTo(offset)                                         \* SeekFrom::Start
    \/ SeekTo(FileLen + offset) \/ SeekTo(FileLen - offset)   \* SeekFrom::End
    \/ SeekTo(pos + offset) \/ SeekTo(pos - offset)           \* SeekFrom::Current

\* prefetch; behind the end there is nothing to ask for, and the buffer is
\* cleared.  A request that fails changes nothing.
Prefetch(start, want) ==
  /\ missing = 0
  /\ bufStart' = start
  /\ IF RangeEnd(start, want) <= start
       THEN buf' = <<>>
       ELSE buf' \in Answers(start, want)
  /\ origin' = pos /\ fetched' = 0
  /\ UNCHANGED <<pos, readVars>>

Next ==
  \/ \E n \in Wants : Begin(n)
  \/ ReadAtEnd \/ ReadBuffered \/ ReadFetched \/ ReadFails
  \/ Seek
  \/ \E start \in Offsets, want \in Wants : Prefetch(start, want)

Spec == Init /\ [][Next]_vars

------------------------------------------------------------------------
(* Properties.                                                             *)

\* Every variable holds a value of its kind.
ReaderTypeOK ==
  /\ pos \in Nat /\ bufStart \in Nat /\ from \in Nat
  /\ missing \in Nat
  /\ buf \in Seq(0 .. (FileLen - 1)) /\ out \in Seq(0 .. (FileLen - 1))
  /\ last.result \in {"none", "ok", "eof", "cut", "error"}
  /\ last.bytes \in Seq(0 .. (FileLen - 1))
  /\ origin \in Nat /\ fetched \in Nat

\* The buffer is a piece of the file, at the place buf_start says, however
\* short the answers were and whatever was fetched, failed or sought before.
BufferIsFile == buf = File!Bytes(bufStart, bufStart + Len(buf))

\* A byte is pulled at most once while the caller reads on without seeking:
\* what the reads fetched since the last seek fits between there and the end
\* of the buffer.
FetchedOnce == fetched > 0 => origin + fetched <= bufStart + Len(buf)

\* read_exact over the reader is read_exact on the file: the bytes at the
\* position, all of them, or a failure.  The buffer and the requests do not
\* show, but for one thing: besides where the file ends, its end is reported
\* where a request was answered with no bytes at all ("cut"), and nowhere else.
ImplementsByteFile == File!FileSpec
========================================================================
