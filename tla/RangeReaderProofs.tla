------------------------ MODULE RangeReaderProofs ------------------------
(***************************************************************************)
(* The reader implements the file: for any file, read-ahead, lengths and   *)
(* seeks, and however short the answers of the server are, empty ones      *)
(* included.                                                               *)
(***************************************************************************)
EXTENDS RangeReader, SequenceTheorems, TLAPS

------------------------------------------------------------------------
(* Sequences of consecutive bytes.                                         *)

LEMMA BytesFacts ==
  ASSUME NEW a \in Int, NEW b \in Int, a <= b
  PROVE  /\ File!Bytes(a, b) \in Seq(Int)
         /\ Len(File!Bytes(a, b)) = b - a
         /\ \A i \in 1 .. (b - a) : File!Bytes(a, b)[i] = a + i - 1
BY SMT DEF File!Bytes

LEMMA BytesInFile ==
  ASSUME NEW a \in Nat, NEW b \in Int, a <= b, b <= FileLen
  PROVE  File!Bytes(a, b) \in Seq(0 .. (FileLen - 1))
BY FileAssumption, SMT DEF File!Bytes

LEMMA BytesAppend ==
  ASSUME NEW a \in Int, NEW b \in Int, NEW c \in Int, a <= b, b <= c
  PROVE  File!Bytes(a, b) \o File!Bytes(b, c) = File!Bytes(a, c)
<1> DEFINE x == File!Bytes(a, b)
<1> DEFINE y == File!Bytes(b, c)
<1> DEFINE z == File!Bytes(a, c)
<1>1. /\ x \in Seq(Int) /\ Len(x) = b - a
      /\ \A i \in 1 .. (b - a) : x[i] = a + i - 1
  BY BytesFacts, Zenon
<1>2. /\ y \in Seq(Int) /\ Len(y) = c - b
      /\ \A i \in 1 .. (c - b) : y[i] = b + i - 1
  BY BytesFacts, Zenon
<1>3. a <= c
  BY SMT
<1>4. /\ z \in Seq(Int) /\ Len(z) = c - a
      /\ \A i \in 1 .. (c - a) : z[i] = a + i - 1
  BY <1>3, BytesFacts, Zenon
<1> HIDE DEF x, y, z
<1>5. /\ x \o y \in Seq(Int)
      /\ Len(x \o y) = Len(x) + Len(y)
      /\ \A i \in 1 .. Len(x) + Len(y) :
           (x \o y)[i] = IF i <= Len(x) THEN x[i] ELSE y[i - Len(x)]
  BY <1>1, <1>2, ConcatProperties, Zenon
<1>6. Len(x \o y) = Len(z)
  BY <1>1, <1>2, <1>4, <1>5, SMT
<1>7. ASSUME NEW i \in 1 .. Len(x \o y)
      PROVE  (x \o y)[i] = z[i]
  <2>1. i \in 1 .. Len(x) + Len(y) /\ i \in 1 .. (c - a)
    BY <1>1, <1>2, <1>5, <1>7, SMT
  <2>2. CASE i <= Len(x)
    <3>1. i \in 1 .. (b - a)
      BY <1>1, <2>1, <2>2, SMT
    <3> QED
      BY <1>1, <1>4, <1>5, <2>1, <2>2, <3>1, Zenon
  <2>3. CASE ~ (i <= Len(x))
    <3>1. i - Len(x) \in 1 .. (c - b) /\ b + (i - Len(x)) - 1 = a + i - 1
      BY <1>1, <2>1, <2>3, SMT
    <3>2. y[i - Len(x)] = b + (i - Len(x)) - 1
      BY <1>2, <3>1, Zenon
    <3> QED
      BY <1>4, <1>5, <2>1, <2>3, <3>1, <3>2, Zenon
  <2> QED
    BY <2>2, <2>3
<1>8. x \o y = z
  BY <1>4, <1>5, <1>6, <1>7, SeqEqual, Zenon
<1> QED
  BY <1>8 DEF x, y, z

LEMMA BytesPart ==
  ASSUME NEW a \in Int, NEW b \in Int, NEW k \in Nat, NEW m \in Nat,
         a + k + m <= b
  PROVE  SubSeq(File!Bytes(a, b), k + 1, k + m) = File!Bytes(a + k, a + k + m)
<1> DEFINE x == File!Bytes(a, b)
<1> DEFINE y == File!Bytes(a + k, a + k + m)
<1> DEFINE l == SubSeq(x, k + 1, k + m)
<1>1. a <= b /\ a + k <= a + k + m /\ a + k \in Int /\ a + k + m \in Int
      /\ k + 1 \in Int /\ k + m \in Int
  BY SMT
<1>2. /\ x \in Seq(Int) /\ Len(x) = b - a
      /\ \A i \in 1 .. (b - a) : x[i] = a + i - 1
  BY <1>1, BytesFacts, Zenon
<1>3. /\ y \in Seq(Int) /\ Len(y) = (a + k + m) - (a + k)
      /\ \A i \in 1 .. ((a + k + m) - (a + k)) : y[i] = (a + k) + i - 1
  BY <1>1, BytesFacts, Zenon
<1> HIDE DEF x, y
<1>4. \A i \in (k + 1) .. (k + m) : x[i] \in Int
  <2>1. \A i \in (k + 1) .. (k + m) : i \in 1 .. (b - a) /\ a + i - 1 \in Int
    BY SMT
  <2> QED
    BY <1>2, <2>1, Zenon
<1>5. /\ l \in Seq(Int)
      /\ Len(l) = IF k + 1 <= k + m THEN (k + m) - (k + 1) + 1 ELSE 0
      /\ \A i \in 1 .. ((k + m) - (k + 1) + 1) : l[i] = x[(k + 1) + i - 1]
  <2> DEFINE lo == k + 1
  <2> DEFINE hi == k + m
  <2>1. lo \in Int /\ hi \in Int /\ \A i \in lo .. hi : x[i] \in Int
    BY <1>1, <1>4
  <2> HIDE DEF lo, hi
  <2>2. /\ SubSeq(x, lo, hi) \in Seq(Int)
        /\ Len(SubSeq(x, lo, hi)) = IF lo <= hi THEN hi - lo + 1 ELSE 0
        /\ \A i \in 1 .. hi - lo + 1 : SubSeq(x, lo, hi)[i] = x[lo + i - 1]
    BY <2>1, SubSeqProperties
  <2> QED
    BY <2>2 DEF lo, hi
<1> HIDE DEF l
<1>6. Len(l) = m /\ Len(y) = m
  BY <1>3, <1>5, SMT
<1>7. ASSUME NEW i \in 1 .. Len(l)
      PROVE  l[i] = y[i]
  <2>1. /\ i \in 1 .. ((k + m) - (k + 1) + 1)
        /\ (k + 1) + i - 1 \in 1 .. (b - a)
        /\ i \in 1 .. ((a + k + m) - (a + k))
        /\ a + ((k + 1) + i - 1) - 1 = (a + k) + i - 1
    BY <1>6, SMT
  <2>2. x[(k + 1) + i - 1] = a + ((k + 1) + i - 1) - 1
    BY <1>2, <2>1, Zenon
  <2> QED
    BY <1>3, <1>5, <2>1, <2>2, Zenon
<1>8. l = y
  BY <1>3, <1>5, <1>6, <1>7, SeqEqual, Zenon
<1> QED
  BY <1>8 DEF l, x, y

\* SubSeq by another name, which the provers leave as it is.
Piece(seq, first, end) == SubSeq(seq, first, end)

LEMMA BytesPartAt ==
  ASSUME NEW a \in Int, NEW b \in Int, NEW p \in Int,
         NEW k \in Nat, NEW m \in Nat, a + k = p, p + m <= b
  PROVE  Piece(File!Bytes(a, b), k + 1, k + m) = File!Bytes(p, p + m)
<1>1. a + k + m <= b
  OBVIOUS
<1>2. SubSeq(File!Bytes(a, b), k + 1, k + m) = File!Bytes(a + k, a + k + m)
  BY <1>1, BytesPart, Zenon
<1> QED
  BY <1>2, Zenon DEF Piece

LEMMA BytesNone ==
  ASSUME NEW a \in Int
  PROVE  File!Bytes(a, a) = <<>>
<1>1. File!Bytes(a, a) \in Seq(Int) /\ Len(File!Bytes(a, a)) = a - a
  BY BytesFacts, SMT
<1> QED
  BY <1>1, EmptySeq, SMT

------------------------------------------------------------------------
(* The inductive invariant.  The buffer ends in the file; what a read_exact *)
(* under way has got so far are the bytes from its start to pos, and what   *)
(* it still wants completes one of the lengths a caller reads; and while    *)
(* the caller reads on, pos is in the buffer or at its end.                 *)

BufferInv ==
  /\ bufStart \in Nat /\ buf \in Seq(Int)
  /\ BufferIsFile
  /\ buf # <<>> => bufStart + Len(buf) <= FileLen

CallInv ==
  /\ pos \in Nat /\ from \in Nat /\ missing \in Nat
  /\ missing = 0 => out = <<>>
  /\ missing > 0 => /\ from <= pos
                    /\ from < pos => pos <= FileLen
                    /\ (pos - from) + missing \in Wants
                    /\ out = File!Bytes(from, pos)

LastInv ==
  /\ last.result \in {"none", "ok", "eof", "cut", "error"}
  /\ last.bytes \in Seq(0 .. (FileLen - 1))

FetchInv ==
  /\ origin \in Nat /\ fetched \in Nat /\ origin <= pos
  /\ fetched > 0 => /\ origin + fetched <= bufStart + Len(buf)
                    /\ bufStart <= pos /\ pos <= bufStart + Len(buf)

IInv == BufferInv /\ CallInv /\ LastInv /\ FetchInv

\* Every body that may come back is a piece of the file from the start that
\* was asked for, or empty.
LEMMA AnswersInFile ==
  ASSUME NEW start \in Nat, NEW want \in Nat, NEW body \in Answers(start, want)
  PROVE  /\ body = File!Bytes(start, start + Len(body))
         /\ body \in Seq(Int) /\ Len(body) \in Nat
         /\ start + Len(body) <= FileLen
<1>1. RangeEnd(start, want) \in Int /\ RangeEnd(start, want) <= FileLen
  BY FileAssumption, SMT DEF RangeEnd, Lesser, Greater
<1>2. PICK end \in start .. RangeEnd(start, want) :
        body = File!Bytes(start, end)
  BY DEF Answers
<1>3. start \in Int /\ end \in Int /\ start <= end /\ end <= FileLen
  BY <1>1, <1>2, FileAssumption, SMT
<1>4. body \in Seq(Int) /\ Len(body) = end - start
  BY <1>2, <1>3, BytesFacts, Zenon
<1>5. Len(body) \in Nat /\ start + Len(body) = end
  BY <1>3, <1>4, SMT
<1> QED
  BY <1>2, <1>3, <1>4, <1>5, Zenon

\* What read copies out of a buffer that is a piece of the file and holds pos:
\* the bytes at pos, at least one.
LEMMA CopiedBytes ==
  ASSUME pos \in Nat, missing \in Nat, missing > 0,
         NEW start \in Nat, NEW end \in Nat, start <= pos, pos < end
  PROVE  \E k \in 1 .. missing :
           /\ pos + k <= end
           /\ Copied(File!Bytes(start, end), start, missing) = File!Bytes(pos, pos + k)
<1> DEFINE o == pos - start
<1> DEFINE k == Lesser(end - start - o, missing)
<1>1. /\ start \in Int /\ end \in Int /\ pos \in Int /\ start <= end
      /\ o \in Nat /\ k \in Nat
  BY SMT DEF Lesser
<1>2. start + o = pos /\ pos + k <= end
  BY SMT DEF Lesser
<1>3. k \in 1 .. missing
  BY SMT DEF Lesser
<1>4. Len(File!Bytes(start, end)) = end - start
  BY <1>1, BytesFacts, Zenon
<1>5. Copied(File!Bytes(start, end), start, missing)
        = Piece(File!Bytes(start, end), o + 1, o + k)
  BY <1>4, Zenon DEF Copied, Piece
<1> HIDE DEF o, k
<1>6. Piece(File!Bytes(start, end), o + 1, o + k) = File!Bytes(pos, pos + k)
  BY <1>1, <1>2, BytesPartAt
<1> QED
  BY <1>2, <1>3, <1>5, <1>6, Zenon

\* One read that returns bytes of the file keeps what the call knows, and the
\* last of them completes it.
LEMMA DeliverBytes ==
  ASSUME CallInv, LastInv, missing > 0, NEW k \in 1 .. missing, pos + k <= FileLen,
         NEW nothing, Deliver(File!Bytes(pos, pos + k), nothing)
  PROVE  /\ CallInv' /\ LastInv'
         /\ pos' = pos + k /\ from' = from /\ missing' = missing - k
         /\ missing' > 0 => last' = last
         /\ missing' = 0 => last' = File!Outcome("ok", File!Bytes(from, pos + k))
<1> DEFINE bytes == File!Bytes(pos, pos + k)
<1>1. /\ pos \in Int /\ pos + k \in Int /\ pos <= pos + k /\ from \in Int
      /\ from <= pos /\ k \in Int /\ pos + k - pos = k /\ missing \in Nat
      /\ from <= pos + k /\ from \in Nat /\ pos \in Nat
  BY SMT DEF CallInv
<1>2. bytes \in Seq(Int) /\ Len(bytes) = pos + k - pos
  BY <1>1, BytesFacts
<1>3. Len(bytes) = k
  BY <1>1, <1>2, Zenon
<1>4. bytes # <<>>
  BY <1>2, <1>3, EmptySeq, SMT
<1>5. out \o bytes = File!Bytes(from, pos + k)
  <2>1. out = File!Bytes(from, pos)
    BY DEF CallInv
  <2> QED
    BY <1>1, <2>1, BytesAppend, Zenon
<1> HIDE DEF bytes
<1>6. /\ pos' = pos + k /\ from' = from /\ missing' = missing - k
      /\ out' = IF k = missing THEN <<>> ELSE File!Bytes(from, pos + k)
      /\ last' = IF k = missing THEN File!Outcome("ok", File!Bytes(from, pos + k))
                 ELSE last
  <2>1. Deliver(bytes, nothing)
    BY DEF bytes
  <2> QED
    BY <1>3, <1>4, <1>5, <2>1, Zenon DEF Deliver
<1>7. missing' \in Nat /\ pos' \in Nat /\ (missing' = 0 <=> k = missing)
      /\ (pos' - from') + missing' = (pos - from) + missing
      /\ from <= pos' /\ pos' <= FileLen
  BY <1>1, <1>6, SMT
<1>8. CallInv'
  <2>1. (pos - from) + missing \in Wants
    BY DEF CallInv
  <2>2. missing' = 0 => out' = <<>>
    BY <1>6, <1>7, Zenon
  <2>3. missing' > 0 => k # missing
    BY <1>1, <1>6, SMT
  <2>4. missing' > 0 => out' = File!Bytes(from', pos')
    BY <1>6, <2>3, Zenon
  <2> QED
    BY <1>1, <1>6, <1>7, <2>1, <2>2, <2>4, Zenon DEF CallInv
<1>9. LastInv'
  <2>1. File!Bytes(from, pos + k) \in Seq(0 .. (FileLen - 1))
    BY <1>1, BytesInFile, Zenon
  <2>2. CASE k = missing
    BY <1>6, <2>1, <2>2, SMT DEF LastInv, File!Outcome
  <2>3. CASE k # missing
    BY <1>6, <2>3, Zenon DEF LastInv
  <2> QED
    BY <2>2, <2>3
<1>10. missing' > 0 => k # missing
  BY <1>1, <1>6, SMT
<1> QED
  BY <1>6, <1>7, <1>8, <1>9, <1>10, Zenon

------------------------------------------------------------------------
(* What each action does to the file as the caller sees it.                *)

FileStep == File!FileNext \/ UNCHANGED File!fileVars

\* Reads that return bytes: the last one of a read_exact is ReadAll, the
\* others do not show.
LEMMA DeliverImplements ==
  ASSUME CallInv, LastInv, missing > 0, NEW k \in 1 .. missing, pos + k <= FileLen,
         NEW nothing, Deliver(File!Bytes(pos, pos + k), nothing)
  PROVE  FileStep
<1>1. /\ pos' = pos + k /\ from' = from /\ missing' = missing - k
      /\ missing' > 0 => last' = last
      /\ missing' = 0 => last' = File!Outcome("ok", File!Bytes(from, pos + k))
  BY DeliverBytes, Zenon
<1>2. pos \in Nat /\ from \in Nat /\ missing \in Nat /\ from <= pos
  BY DEF CallInv
<1>3. CASE missing' > 0
  <2>1. missing # 0 /\ missing' # 0
    BY <1>1, <1>2, <1>3, SMT
  <2>2. UNCHANGED File!fileVars
    BY <1>1, <1>3, <2>1, Zenon DEF File!fileVars
  <2> QED
    BY <2>2 DEF FileStep
<1>4. CASE missing' = 0
  <2> DEFINE n == (pos - from) + missing
  <2>1. n \in Wants
    BY DEF CallInv
  <2>2. /\ from + n = pos + k /\ from + n <= FileLen /\ missing # 0
        /\ pos' = from + n
    BY <1>1, <1>2, <1>4, SMT
  <2> HIDE DEF n
  <2>3. last' = File!Outcome("ok", File!Bytes(from, from + n))
    BY <1>1, <1>4, <2>2, Zenon
  <2>4. File!ReadAll(n)
    BY <1>4, <2>2, <2>3, Zenon DEF File!ReadAll
  <2> QED
    BY <2>1, <2>4, Zenon DEF FileStep, File!FileNext
<1> QED
  BY <1>1, <1>2, <1>3, <1>4, SMT

LEMMA BeginKeeps ==
  ASSUME IInv, NEW n \in Wants, Begin(n)
  PROVE  IInv' /\ FileStep
<1>1. n \in Nat /\ n > 0
  BY CallerAssumption
<1>2. pos \in Nat /\ pos \in Int /\ missing = 0
  BY DEF IInv, CallInv, Begin
<1>3. /\ missing' = n /\ from' = pos /\ out' = <<>>
      /\ pos' = pos /\ buf' = buf /\ bufStart' = bufStart /\ last' = last
      /\ origin' = origin /\ fetched' = fetched
  BY DEF Begin
<1>4. out' = File!Bytes(from', pos')
  BY <1>2, <1>3, BytesNone, Zenon
<1>5. (pos' - from') + missing' = n
  BY <1>1, <1>2, <1>3
<1>6. CallInv'
  <2>1. pos' \in Nat /\ from' \in Nat /\ missing' \in Nat
        /\ missing' # 0 /\ from' <= pos' /\ ~ (from' < pos')
    BY <1>1, <1>2, <1>3, SMT
  <2> QED
    BY <1>4, <1>5, <2>1, Zenon DEF CallInv
<1>7. BufferInv' /\ LastInv' /\ FetchInv'
  BY <1>3 DEF IInv, BufferInv, BufferIsFile, LastInv, FetchInv
<1>8. UNCHANGED File!fileVars
  <2>1. n # 0
    BY <1>1
  <2> QED
    BY <1>2, <1>3, <2>1, Zenon DEF File!fileVars
<1> QED
  BY <1>6, <1>7, <1>8 DEF IInv, FileStep

LEMMA ReadAtEndKeeps ==
  ASSUME IInv, ReadAtEnd
  PROVE  IInv' /\ FileStep
<1>1. /\ pos \in Nat /\ from \in Nat /\ missing \in Nat /\ missing > 0
      /\ from <= pos /\ (from < pos => pos <= FileLen) /\ pos >= FileLen
      /\ (pos - from) + missing \in Wants
  BY DEF IInv, CallInv, ReadAtEnd
<1>2. /\ pos' = pos + Len(<<>>) /\ missing' = 0 /\ out' = <<>> /\ from' = from
      /\ last' = File!Outcome("eof", <<>>)
      /\ buf' = buf /\ bufStart' = bufStart /\ origin' = origin /\ fetched' = fetched
  BY DEF ReadAtEnd, Deliver
<1>3. pos' = pos
  BY <1>1, <1>2
<1>4. CallInv'
  BY <1>1, <1>2, <1>3 DEF CallInv
<1>5. LastInv'
  BY <1>2 DEF LastInv, File!Outcome
<1>6. BufferInv' /\ FetchInv'
  BY <1>2, <1>3 DEF IInv, BufferInv, BufferIsFile, FetchInv
<1>7. FileStep
  <2> DEFINE n == (pos - from) + missing
  <2>1. /\ from + n > FileLen /\ missing # 0
        /\ pos' = IF from > FileLen THEN from ELSE FileLen
    BY <1>1, <1>3, FileAssumption, SMT
  <2>2. n \in Wants
    BY <1>1
  <2> HIDE DEF n
  <2>3. File!ReadPastEnd(n)
    BY <1>2, <2>1, Zenon DEF File!ReadPastEnd
  <2> QED
    BY <2>2, <2>3, Zenon DEF FileStep, File!FileNext
<1> QED
  BY <1>4, <1>5, <1>6, <1>7 DEF IInv

\* The buffer is a piece of the file that holds pos.
LEMMA ReadBufferedKeeps ==
  ASSUME IInv, ReadBuffered
  PROVE  IInv' /\ FileStep
<1> DEFINE end == bufStart + Len(buf)
<1>1. /\ pos \in Nat /\ missing \in Nat /\ missing > 0 /\ bufStart \in Nat
      /\ buf \in Seq(Int) /\ Len(buf) \in Nat /\ end \in Nat
      /\ bufStart <= pos /\ pos < end
      /\ buf' = buf /\ bufStart' = bufStart /\ origin' = origin /\ fetched' = fetched
      /\ CallInv /\ LastInv
  BY DEF IInv, CallInv, BufferInv, ReadBuffered, InBuffer
<1>2. buf = File!Bytes(bufStart, end)
  BY DEF IInv, BufferInv, BufferIsFile
<1>3. end <= FileLen
  <2>1. buf # <<>>
    BY <1>1
  <2> QED
    BY <2>1 DEF IInv, BufferInv
<1> HIDE DEF end
<1>4. PICK k \in 1 .. missing :
        /\ pos + k <= end
        /\ Copied(File!Bytes(bufStart, end), bufStart, missing) = File!Bytes(pos, pos + k)
  BY <1>1, CopiedBytes
<1>5. Deliver(File!Bytes(pos, pos + k), "eof")
  BY <1>2, <1>4, Zenon DEF ReadBuffered
<1>6. pos + k <= FileLen
  BY <1>1, <1>3, <1>4, FileAssumption, SMT
<1>7. CallInv' /\ LastInv' /\ pos' = pos + k
  BY <1>1, <1>5, <1>6, DeliverBytes, Zenon
<1>8. FileStep
  BY <1>1, <1>5, <1>6, DeliverImplements, Zenon
<1>9. BufferInv'
  BY <1>1 DEF IInv, BufferInv, BufferIsFile
<1>10. FetchInv'
  BY <1>1, <1>4, <1>7 DEF IInv, FetchInv, end
<1> QED
  BY <1>7, <1>8, <1>9, <1>10 DEF IInv

\* A read_exact that fails in the file, with the position where it is.
LEMMA FailureImplements ==
  ASSUME CallInv, missing > 0, pos < FileLen, NEW result \in {"error", "cut"},
         last' = File!Outcome(result, <<>>), missing' = 0, pos' = pos
  PROVE  FileStep
<1>1. /\ pos \in Nat /\ from \in Nat /\ missing \in Nat
      /\ from <= pos /\ (pos - from) + missing \in Wants
  BY DEF CallInv
<1> DEFINE n == (pos - from) + missing
<1> DEFINE k == pos - from
<1>2. /\ k \in 0 .. (n - 1) /\ from + k < FileLen /\ pos = from + k /\ missing # 0
      /\ n \in Wants
  BY <1>1, FileAssumption, SMT
<1> HIDE DEF n, k
<1>3. File!ReadFails(n)
  BY <1>2, Zenon DEF File!ReadFails
<1> QED
  BY <1>2, <1>3, Zenon DEF FileStep, File!FileNext

\* pos is not in the buffer, so it is at its end, or nothing has been fetched
\* since the seek.
LEMMA ReadFetchedKeeps ==
  ASSUME IInv, ReadFetched
  PROVE  IInv' /\ FileStep
<1>1. /\ pos \in Nat /\ missing \in Nat /\ missing > 0 /\ CallInv /\ LastInv
      /\ bufStart \in Nat /\ Len(buf) \in Nat /\ origin \in Nat /\ fetched \in Nat
      /\ ~ (bufStart <= pos /\ pos < bufStart + Len(buf)) /\ origin' = origin
  BY DEF IInv, CallInv, BufferInv, FetchInv, ReadFetched, InBuffer
<1>2. PICK body \in Answers(pos, missing) :
        /\ buf' = body /\ bufStart' = pos /\ fetched' = fetched + Len(body)
        /\ Deliver(Copied(body, pos, missing), "cut")
  BY DEF ReadFetched
<1> DEFINE end == pos + Len(body)
<1>3. /\ body = File!Bytes(pos, end) /\ body \in Seq(Int)
      /\ Len(body) \in Nat /\ end <= FileLen
  BY <1>1, AnswersInFile, Zenon
<1>4. pos < FileLen
  BY DEF ReadFetched
<1>5. end = pos + Len(body)
  OBVIOUS
<1> HIDE DEF end
<1>6. end \in Nat /\ pos <= end
  BY <1>1, <1>3, <1>5
<1>7. ASSUME pos < end
      PROVE  CallInv' /\ LastInv' /\ FileStep /\ pos <= pos' /\ pos' <= end
  <2>1. pos <= pos
    BY <1>1
  <2>2. PICK k \in 1 .. missing :
          /\ pos + k <= end
          /\ Copied(File!Bytes(pos, end), pos, missing) = File!Bytes(pos, pos + k)
    BY <1>1, <1>6, <1>7, <2>1, CopiedBytes
  <2>3. Deliver(File!Bytes(pos, pos + k), "cut")
    BY <1>2, <1>3, <2>2, Zenon
  <2>4. pos + k <= FileLen
    BY <1>1, <1>3, <1>6, <2>2, FileAssumption, SMT
  <2>5. CallInv' /\ LastInv' /\ pos' = pos + k
    BY <1>1, <2>3, <2>4, DeliverBytes, Zenon
  <2>6. FileStep
    BY <1>1, <2>3, <2>4, DeliverImplements, Zenon
  <2>7. pos <= pos' /\ pos' <= end
    BY <1>1, <2>2, <2>5, SMT
  <2> QED
    BY <2>5, <2>6, <2>7
<1>8. ASSUME pos = end
      PROVE  CallInv' /\ LastInv' /\ FileStep /\ pos <= pos' /\ pos' <= end
  <2>1. body = <<>>
    <3>1. pos \in Int
      BY <1>1
    <3> QED
      BY <1>3, <1>8, <3>1, BytesNone, Zenon
  <2>2. Copied(<<>>, pos, missing) = <<>>
    BY <1>1, SMT DEF Copied, Lesser
  <2>3. Deliver(<<>>, "cut")
    BY <1>2, <2>1, <2>2, Zenon
  <2>4. /\ pos' = pos + Len(<<>>) /\ missing' = 0 /\ out' = <<>> /\ from' = from
        /\ last' = File!Outcome("cut", <<>>)
    BY <2>3 DEF Deliver
  <2>5. pos' = pos
    BY <1>1, <2>4
  <2>6. CallInv' /\ LastInv'
    BY <1>1, <2>4, <2>5 DEF CallInv, LastInv, File!Outcome
  <2>7. FileStep
    BY <1>1, <1>4, <2>4, <2>5, FailureImplements
  <2> QED
    BY <1>1, <1>8, <2>5, <2>6, <2>7
<1>9. CallInv' /\ LastInv' /\ FileStep /\ pos <= pos' /\ pos' <= end
  BY <1>1, <1>6, <1>7, <1>8, SMT
<1>10. BufferInv'
  <2>1. buf' = File!Bytes(bufStart', bufStart' + Len(buf'))
    BY <1>2, <1>3, <1>5, Zenon
  <2>2. bufStart' \in Nat /\ buf' \in Seq(Int) /\ bufStart' + Len(buf') <= FileLen
    BY <1>1, <1>2, <1>3, <1>5, Zenon
  <2> QED
    BY <2>1, <2>2, Zenon DEF BufferInv, BufferIsFile
<1>11. FetchInv'
  <2>1. origin <= pos /\ (fetched > 0 => /\ origin + fetched <= bufStart + Len(buf)
                                        /\ bufStart <= pos)
    BY DEF IInv, FetchInv
  <2>2. origin + fetched <= pos
    BY <1>1, <2>1, SMT
  <2>3. pos' \in Nat
    BY <1>9 DEF CallInv
  <2>4. /\ origin' \in Nat /\ fetched' \in Nat /\ origin' <= pos'
        /\ origin' + fetched' <= bufStart' + Len(buf')
        /\ bufStart' <= pos' /\ pos' <= bufStart' + Len(buf')
    BY <1>1, <1>2, <1>3, <1>5, <1>6, <1>9, <2>1, <2>2, <2>3, SMT
  <2> QED
    BY <2>4, Zenon DEF FetchInv
<1> QED
  BY <1>9, <1>10, <1>11 DEF IInv

LEMMA ReadFailsKeeps ==
  ASSUME IInv, ReadFails
  PROVE  IInv' /\ FileStep
<1>1. /\ pos \in Nat /\ from \in Nat /\ missing \in Nat /\ missing > 0
      /\ from <= pos /\ pos < FileLen /\ (pos - from) + missing \in Wants
  BY DEF IInv, CallInv, ReadFails
<1>2. /\ missing' = 0 /\ out' = <<>> /\ last' = File!Outcome("error", <<>>)
      /\ pos' = pos /\ buf' = buf /\ bufStart' = bufStart /\ from' = from
      /\ origin' = origin /\ fetched' = fetched
  BY DEF ReadFails
<1>3. CallInv' /\ LastInv'
  BY <1>1, <1>2 DEF CallInv, LastInv, File!Outcome
<1>4. BufferInv' /\ FetchInv'
  BY <1>2 DEF IInv, BufferInv, BufferIsFile, FetchInv
<1>5. FileStep
  <2>1. CallInv /\ missing > 0 /\ pos < FileLen
    BY <1>1 DEF IInv
  <2> QED
    BY <1>2, <2>1, FailureImplements
<1> QED
  BY <1>3, <1>4, <1>5 DEF IInv

LEMMA SeekToKeeps ==
  ASSUME IInv, NEW new, SeekTo(new)
  PROVE  IInv' /\ FileStep
<1>1. /\ new \in Nat /\ missing = 0 /\ missing \in Nat /\ out = <<>>
      /\ from \in Nat
  BY CallerAssumption DEF IInv, CallInv, SeekTo
<1>2. /\ pos' = new /\ origin' = new /\ fetched' = 0
      /\ buf' = buf /\ bufStart' = bufStart
      /\ missing' = missing /\ from' = from /\ out' = out /\ last' = last
  BY DEF SeekTo, readVars
<1>3. CallInv'
  BY <1>1, <1>2 DEF CallInv
<1>4. BufferInv' /\ LastInv'
  BY <1>2 DEF IInv, BufferInv, BufferIsFile, LastInv
<1>5. FetchInv'
  BY <1>1, <1>2 DEF FetchInv
<1>6. File!Reposition
  BY <1>1, <1>2, Zenon DEF File!Reposition
<1> QED
  BY <1>3, <1>4, <1>5, <1>6 DEF IInv, FileStep, File!FileNext

LEMMA PrefetchKeeps ==
  ASSUME IInv, NEW start \in Offsets, NEW want \in Wants, Prefetch(start, want)
  PROVE  IInv' /\ FileStep
<1>1. start \in Nat /\ start \in Int /\ want \in Nat
  BY CallerAssumption
<1>2. /\ bufStart' = start /\ origin' = pos /\ fetched' = 0
      /\ pos' = pos /\ missing' = missing /\ from' = from /\ out' = out
      /\ last' = last
  BY DEF Prefetch, readVars
<1>3. pos \in Nat
  BY DEF IInv, CallInv
<1>4. CallInv' /\ LastInv'
  BY <1>2 DEF IInv, CallInv, LastInv
<1>5. FetchInv'
  BY <1>2, <1>3 DEF FetchInv
<1>6. BufferInv'
  <2>1. CASE buf' = <<>>
    <3>1. start + Len(buf') = start
      BY <1>1, <2>1
    <3>2. buf' = File!Bytes(bufStart', bufStart' + Len(buf'))
      BY <1>1, <1>2, <2>1, <3>1, BytesNone, Zenon
    <3>3. buf' \in Seq(Int)
      BY <2>1
    <3> QED
      BY <1>1, <1>2, <2>1, <3>2, <3>3, Zenon DEF BufferInv, BufferIsFile
  <2>2. CASE buf' \in Answers(start, want)
    <3>1. /\ buf' = File!Bytes(start, start + Len(buf')) /\ buf' \in Seq(Int)
          /\ start + Len(buf') <= FileLen
      BY <1>1, <2>2, AnswersInFile, Zenon
    <3> QED
      BY <1>1, <1>2, <3>1, Zenon DEF BufferInv, BufferIsFile
  <2> QED
    BY <2>1, <2>2 DEF Prefetch
<1>7. UNCHANGED File!fileVars
  BY <1>2, Zenon DEF File!fileVars
<1> QED
  BY <1>4, <1>5, <1>6, <1>7 DEF IInv, FileStep

LEMMA InitEstablishes == Init => IInv /\ File!FileInit
<1> SUFFICES ASSUME Init
             PROVE  IInv /\ File!FileInit
  OBVIOUS
<1>1. /\ pos = 0 /\ buf = <<>> /\ bufStart = 0 /\ missing = 0 /\ from = 0
      /\ out = <<>> /\ last = File!Outcome("none", <<>>) /\ origin = 0 /\ fetched = 0
  BY DEF Init
<1>2. buf = File!Bytes(bufStart, bufStart + Len(buf))
  <2>1. 0 + Len(<<>>) = 0 /\ 0 \in Int
    OBVIOUS
  <2> QED
    BY <1>1, <2>1, BytesNone, Zenon
<1>3. BufferInv
  BY <1>1, <1>2 DEF BufferInv, BufferIsFile
<1>4. CallInv /\ LastInv /\ FetchInv
  BY <1>1 DEF CallInv, LastInv, FetchInv, File!Outcome
<1>5. File!FileInit
  BY <1>1, Zenon DEF File!FileInit
<1> QED
  BY <1>3, <1>4, <1>5 DEF IInv

LEMMA StepKeeps ==
  ASSUME IInv, [Next]_vars
  PROVE  IInv' /\ [File!FileNext]_(File!fileVars)
<1>1. ASSUME NEW n \in Wants, Begin(n) PROVE IInv' /\ FileStep
  BY <1>1, BeginKeeps
<1>2. ASSUME ReadAtEnd PROVE IInv' /\ FileStep
  BY <1>2, ReadAtEndKeeps
<1>3. ASSUME ReadBuffered PROVE IInv' /\ FileStep
  BY <1>3, ReadBufferedKeeps
<1>4. ASSUME ReadFetched PROVE IInv' /\ FileStep
  BY <1>4, ReadFetchedKeeps
<1>5. ASSUME ReadFails PROVE IInv' /\ FileStep
  BY <1>5, ReadFailsKeeps
<1>6. ASSUME Seek PROVE IInv' /\ FileStep
  <2>1. PICK new : SeekTo(new)
    BY <1>6 DEF Seek
  <2> QED
    BY <2>1, SeekToKeeps
<1>7. ASSUME NEW start \in Offsets, NEW want \in Wants, Prefetch(start, want)
      PROVE  IInv' /\ FileStep
  BY <1>7, PrefetchKeeps
<1>8. ASSUME UNCHANGED vars PROVE IInv' /\ FileStep
  <2>1. /\ UNCHANGED <<pos, buf, bufStart, missing, from, out, last, origin, fetched>>
    BY <1>8 DEF vars, readVars
  <2>2. IInv'
    BY <2>1 DEF IInv, BufferInv, BufferIsFile, CallInv, LastInv, FetchInv
  <2>3. UNCHANGED File!fileVars
    BY <2>1, Zenon DEF File!fileVars
  <2> QED
    BY <2>2, <2>3 DEF FileStep
<1>9. IInv' /\ FileStep
  BY <1>1, <1>2, <1>3, <1>4, <1>5, <1>6, <1>7, <1>8, Zenon DEF Next
<1> QED
  BY <1>9 DEF FileStep

------------------------------------------------------------------------
(* The theorems.                                                           *)

LEMMA InvariantGives == IInv => ReaderTypeOK /\ BufferIsFile /\ FetchedOnce
<1> SUFFICES ASSUME IInv
             PROVE  ReaderTypeOK /\ BufferIsFile /\ FetchedOnce
  OBVIOUS
<1>1. BufferIsFile /\ FetchedOnce
  BY DEF IInv, BufferInv, FetchInv, FetchedOnce
<1>2. /\ pos \in Nat /\ bufStart \in Nat /\ from \in Nat /\ missing \in Nat
      /\ origin \in Nat /\ fetched \in Nat /\ Len(buf) \in Nat
  BY DEF IInv, BufferInv, CallInv, FetchInv
<1>3. buf \in Seq(0 .. (FileLen - 1))
  <2>1. CASE buf = <<>>
    BY <2>1
  <2>2. CASE buf # <<>>
    <3>1. /\ bufStart + Len(buf) \in Int /\ bufStart <= bufStart + Len(buf)
          /\ bufStart + Len(buf) <= FileLen
      BY <1>2, <2>2 DEF IInv, BufferInv
    <3> QED
      BY <1>1, <1>2, <3>1, BytesInFile, Zenon DEF BufferIsFile
  <2> QED
    BY <2>1, <2>2
<1>4. out \in Seq(0 .. (FileLen - 1))
  <2>1. CASE missing = 0
    BY <2>1 DEF IInv, CallInv
  <2>2. CASE missing > 0 /\ from < pos
    <3>1. from \in Nat /\ pos \in Int /\ from <= pos /\ pos <= FileLen
          /\ out = File!Bytes(from, pos)
      BY <1>2, <2>2 DEF IInv, CallInv
    <3> QED
      BY <3>1, BytesInFile, Zenon
  <2>3. CASE missing > 0 /\ ~ (from < pos)
    <3>1. from = pos /\ pos \in Int /\ out = File!Bytes(from, pos)
      BY <1>2, <2>3 DEF IInv, CallInv
    <3>2. out = <<>>
      BY <3>1, BytesNone, Zenon
    <3> QED
      BY <3>2
  <2> QED
    BY <1>2, <2>1, <2>2, <2>3
<1>5. ReaderTypeOK
  BY <1>2, <1>3, <1>4 DEF IInv, LastInv, ReaderTypeOK
<1> QED
  BY <1>1, <1>5

\* The inductive invariant of the reader: the buffer is a piece of the file, a
\* read_exact under way has the bytes it passed, and nothing was fetched twice
\* since the last seek.
THEOREM ReaderInvariant == Spec => []IInv
<1>1. Init => IInv
  BY InitEstablishes
<1>2. IInv /\ [Next]_vars => IInv'
  BY StepKeeps
<1> QED
  BY <1>1, <1>2, PTL DEF Spec

\* Every variable of the reader holds a value of its kind; every byte it gives
\* is one of the file.
THEOREM ReaderTyped == Spec => []ReaderTypeOK
BY ReaderInvariant, InvariantGives, PTL

\* For every file, read-ahead and caller, the buffer is the piece of the file
\* that buf_start says, whatever was fetched, failed or sought.
THEOREM ReaderBuffer == Spec => []BufferIsFile
BY ReaderInvariant, InvariantGives, PTL

\* A caller that reads on without seeking pulls no byte twice.
THEOREM ReaderFetchesOnce == Spec => []FetchedOnce
BY ReaderInvariant, InvariantGives, PTL

\* Every behaviour of the reader under read_exact is one of the file: each
\* call gets all the bytes at the position or fails, and it reports the end of
\* the file only where that is or where a request got no bytes at all.
THEOREM ReaderImplementsByteFile == Spec => ImplementsByteFile
<1>1. Init => File!FileInit
  BY InitEstablishes
<1>2. IInv /\ [Next]_vars => [File!FileNext]_(File!fileVars)
  BY StepKeeps
<1> QED
  BY <1>1, <1>2, ReaderInvariant, PTL DEF Spec, ImplementsByteFile, File!FileSpec
========================================================================
