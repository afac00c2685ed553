---------------------------- MODULE ByteFile ----------------------------
(***************************************************************************)
(* What the loader of a model expects of any Read + Seek over a file: a    *)
(* position, and read_exact calls that return the bytes there.  Nothing is *)
(* said of buffers or requests.  A byte is known by its offset.            *)
(***************************************************************************)
EXTENDS Integers, Sequences

CONSTANTS
  FileLen,       \* the length of the file
  Wants          \* the lengths a caller reads

VARIABLES
  position,      \* where the next call reads
  last           \* the outcome of the last read_exact, and the bytes it gave

fileVars == <<position, last>>

\* The bytes of the file from offset a up to b, b excluded.
Bytes(a, b) == [i \in 1 .. (b - a) |-> a + i - 1]

Outcome(result, bytes) == [result |-> result, bytes |-> bytes]

FileInit == position = 0 /\ last = Outcome("none", <<>>)

\* The file has n bytes at the position: the call returns them.
ReadAll(n) ==
  /\ position + n <= FileLen
  /\ last' = Outcome("ok", Bytes(position, position + n))
  /\ position' = position + n

\* It has fewer: the call fails, and the position is at the end or behind it.
ReadPastEnd(n) ==
  /\ position + n > FileLen
  /\ last' = Outcome("eof", <<>>)
  /\ position' = IF position > FileLen THEN position ELSE FileLen

\* The device fails after some of the bytes: with an error, or it just gives no
\* more of them ("cut"), which read_exact cannot tell from the end of the file.
ReadFails(n) ==
  /\ \E result \in {"error", "cut"} : last' = Outcome(result, <<>>)
  /\ \E k \in 0 .. (n - 1) :
       position + k < FileLen /\ position' = position + k

\* A seek to anywhere in the file or behind it.
Reposition == position' \in Nat /\ UNCHANGED last

FileNext ==
  \/ \E n \in Wants : ReadAll(n) \/ ReadPastEnd(n) \/ ReadFails(n)
  \/ Reposition

FileSpec == FileInit /\ [][FileNext]_fileVars
=========================================================================
