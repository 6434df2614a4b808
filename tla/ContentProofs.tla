---------------------------- MODULE ContentProofs ----------------------------
(***************************************************************************)
(* Proofs about Content, for files and uploads of every size up to the     *)
(* largest long, every pair of numbers in the Range header, and every way  *)
(* of the core to cut a file into frames.                                  *)
(*                                                                         *)
(* The window that the first frame decides on is an interval of offsets,   *)
(* Base .. End - 1.  When the core has streamed up to pos, onChunk() has   *)
(* written the part of the interval below pos, Sent(pos) bytes of it; what *)
(* is still to be skipped and what is still owed are functions of pos too. *)
(***************************************************************************)
EXTENDS Content, SequenceTheorems, TLAPS

Long == 0 .. LongMax

Plan == planFirst
Base == streamStart + prefixToDrop(Plan.status)
End == IF Plan.length >= 0 THEN Base + Plan.length ELSE stop

Above(x, y) == IF x > y THEN x - y ELSE 0

Sent(p) == Above(Least(p, End), Base)

GivenOK ==
  /\ req \in [route : {"content", "version", "put"},
              header : [start : Number \cup {Absent}, end : Number \cup {Absent}]]
  /\ core \in [size : Size, windows : BOOLEAN, totals : BOOLEAN]
  /\ stop = streamEnd

\* b is the offsets from Base on.
FromBase(b) == \A i \in 1 .. Len(b) : b[i] = Base + i - 1

Response == [status : {0, 200, 204, 206, 416, 500}, length : -1 .. LongMax,
             from : -1 .. LongMax, to : -1 .. LongMax, body : Seq(Long)]

Stored == [bytes : Long, committed : BOOLEAN, answer : {"none", "ok", "refused", "lost"}]

UploadOK ==
  /\ pos <= core.size
  /\ stored.bytes <= pos /\ (~cut => stored.bytes = pos)
  /\ resp.body = <<>>
  /\ resp.length = -1
  /\ resp.status \in {0, 204, 500}
  /\ pc # "done" => resp.status = 0
  /\ pc = "uploading" => (CallOver => cut)
  /\ pc # "uploading" /\ ~cut => pos = core.size \/ client = "gone"
  /\ stored.answer = "ok" => stored.committed
  /\ stored.answer \in {"none", "refused"} => ~stored.committed
  /\ resp.status = 204 => stored.answer = "ok"
  /\ resp.status = 500 => stored.answer \in {"refused", "lost"}

DownloadOK ==
  /\ streamStart <= pos
  /\ pos <= stop \/ pos = streamStart
  /\ first => pos = streamStart
  /\ FromBase(resp.body)
  /\ Len(resp.body) <= Sent(pos)
  /\ resp.status \in {0, 416, 500} => Len(resp.body) = 0
  /\ resp.status # 204
  /\ pc = "reading" => resp.status # 416

\* No header is out: the stream is open, or it ended before there was one.
NoHeader ==
  /\ Len(resp.body) = 0
  /\ IF pc = "reading" THEN resp.status = 0 /\ resp.length = -1
     ELSE /\ resp.status \in {200, 500}
          /\ resp.status = 200 => resp.length = 0 /\ (cut \/ core.size = 0)

\* getContent() after the first frame.
ContentOK ==
  /\ resp.status = Plan.status
  /\ resp.length = IF Plan.status = 416 THEN 0 ELSE Plan.length
  /\ resp.from = Plan.from
  /\ resp.to = Plan.to
  /\ IF Plan.status = 416 THEN pc = "done"
     ELSE /\ client = "there" => Len(resp.body) = Sent(pos)
          /\ skip = Above(Base, pos)
          /\ remaining = IF Plan.length >= 0 THEN Plan.length - Sent(pos) ELSE -1
          /\ pc = "done" /\ ~cut => pos >= stop \/ remaining = 0

\* getVersion() after the first bytes.
VersionOK ==
  /\ client = "there" => Len(resp.body) = Sent(pos)
  /\ pc = "done" /\ ~cut /\ client = "there" => pos >= stop
  /\ resp.status = 200 /\ resp.length = -1

IInv ==
  /\ GivenOK
  /\ pc \in {"reading", "uploading", "finishing", "done"}
  /\ pos \in Long /\ first \in BOOLEAN /\ skip \in Long /\ remaining \in -1 .. LongMax
  /\ resp \in Response
  /\ client \in {"there", "gone"} /\ cut \in BOOLEAN
  /\ stored \in Stored
  /\ (pc \in {"uploading", "finishing"} => req.route = "put") /\ (pc = "reading" => req.route # "put")
  /\ req.route = "put" => UploadOK
  /\ req.route # "put" => DownloadOK
  /\ req.route = "content" => IF first THEN NoHeader ELSE ContentOK
  /\ req.route = "version" =>
       IF pos = 0 THEN NoHeader ELSE VersionOK

-----------------------------------------------------------------------------
(* What the first frame decides on.                                        *)

\* A range that getContent() goes by is one the header asks for, and is not
\* inverted; both of its numbers are longs.
LEMMA AskedFacts ==
  ASSUME GivenOK
  PROVE  /\ asked.has \in BOOLEAN
         /\ asked.has <=> RangeRequested
         /\ asked.has => /\ req.route = "content"
                         /\ asked.rs = req.header.start /\ asked.rs \in Long
                         /\ asked.re = req.header.end /\ asked.re \in -1 .. LongMax
                         /\ asked.re = -1 \/ asked.re >= asked.rs
  <1>1. /\ req.header.start \in -1 .. LongMax /\ req.header.end \in -1 .. LongMax
        /\ LongMax \in Nat
        /\ req.header.start # Absent => req.header.start \in Long
    <2>1. req.header.start \in Number \cup {Absent} /\ req.header.end \in Number \cup {Absent}
      BY DEF GivenOK
    <2>2. \A x \in Number : x \in 0 .. LongMax
      BY NumberAssumption
    <2> QED
      BY <2>1, <2>2, FrameAssumption DEF Absent, Long
  <1>2. CASE req.header.start = Absent
    BY <1>1, <1>2 DEF asked, askedRange, parseRange, NoRange, RangeRequested, Absent
  <1>3. CASE req.header.start # Absent
    BY <1>1, <1>3 DEF asked, askedRange, parseRange, NoRange, RangeRequested, Absent
  <1> QED
    BY <1>2, <1>3

\* The length in the request to the core: none for an open range, exact
\* otherwise, and wrapped below zero for the one range that does not fit.
LEMMA AskedLengthFacts ==
  ASSUME GivenOK, asked.has
  PROVE  LET n == askedLength(asked) IN
         /\ n \in Int
         /\ asked.re = -1 => n = 0
         /\ asked.re # -1 => \/ n = asked.re - asked.rs + 1 /\ n > 0
                             \/ n < 0 /\ asked.rs = 0 /\ asked.re = LongMax
  BY AskedFacts, FrameAssumption DEF askedLength, wrap, Long

\* The total the core reports is the size of the file, or nothing.
LEMMA CoreFacts ==
  ASSUME GivenOK
  PROVE  /\ core.size \in Long /\ LongMax \in Nat
         /\ core.totals => totalSize = core.size
         /\ ~core.totals => totalSize = 0
         /\ ranged \in BOOLEAN
         /\ ranged => asked.has
  BY SizeAssumption, FrameAssumption, AskedFacts DEF GivenOK, totalSize, ranged, Long

\* What the window must be for the frames to fill it.
WindowOK ==
  /\ streamStart \in Long /\ stop \in Long /\ Base \in Long
  /\ prefixToDrop(Plan.status) = Base - streamStart /\ streamStart <= Base
  /\ Plan.status \in {200, 206, 416}
  /\ Plan.length \in -1 .. LongMax /\ Plan.length # 0
  /\ Plan.from \in -1 .. LongMax /\ Plan.to \in -1 .. LongMax
  /\ Plan.length > 0 => Base + Plan.length <= stop
  /\ Plan.status = 200 => ~asked.has \/ totalSize = 0
  /\ Plan.status = 200 => Whole = Base .. End - 1 /\ Base = 0 /\ End = stop /\ stop = core.size
  /\ Plan.status = 206 => /\ Wanted = Base .. End - 1
                          /\ Plan.length < 0 => End <= Base /\ Base = streamStart
  /\ ~asked.has => Plan.status = 200

\* The core that applied the range, without a total.
LEMMA WindowUntotalled ==
  ASSUME GivenOK, asked.has, ranged, totalSize <= 0
  PROVE  WindowOK
  <1> DEFINE rs == asked.rs
             re == asked.re
             size == core.size
             n == askedLength(asked)
  <1>1. /\ rs \in Long /\ re \in -1 .. LongMax /\ size \in Long /\ n \in Int /\ LongMax \in Nat
        /\ rs = req.header.start /\ re = req.header.end
        /\ re = -1 \/ re >= rs
        /\ re = -1 => n = 0
        /\ re # -1 => (n = re - rs + 1 /\ n > 0) \/ (n < 0 /\ rs = 0 /\ re = LongMax)
    BY AskedFacts, AskedLengthFacts, CoreFacts
  <1>2. /\ streamStart = rs
        /\ stop = IF n > 0 THEN Least(size, rs + n) ELSE size
    BY DEF streamStart, streamEnd, GivenOK
  <1> DEFINE m == IF stop > rs THEN stop - rs ELSE -1
  <1>3. /\ Plan.status = 206 /\ Plan.length = m /\ Plan.from = rs
        /\ Plan.to = IF m > 0 THEN rs + m - 1 ELSE -1
    <2>1. rangeLength = IF stop > rs THEN stop - rs ELSE 0
      BY <1>2 DEF rangeLength, GivenOK
    <2>2. stop \in Int
      BY <1>1, <1>2 DEF Long, Least
    <2>3. m = IF rangeLength > 0 THEN rangeLength ELSE -1
      BY <1>1, <2>1, <2>2 DEF Long
    <2> HIDE DEF m, rs
    <2> QED
      BY <2>3 DEF Plan, planFirst, rs
  <1>4. prefixToDrop(Plan.status) = 0
    BY DEF prefixToDrop
  <1>5. Wanted = {i \in 0 .. size - 1 : i >= rs /\ (re = -1 \/ i <= re)}
    BY <1>1 DEF Wanted, Whole, Absent
  <1> HIDE DEF n, rs, re, size
  <1>6. stop \in Long /\ (stop > rs => stop <= size)
    BY <1>1, <1>2 DEF Long, Least
  <1>7. Base = rs
    BY <1>1, <1>2, <1>4 DEF Base, Long
  <1>8. End = stop
    BY <1>1, <1>3, <1>6, <1>7 DEF End, Long
  <1>9. Wanted = rs .. stop - 1
    BY <1>1, <1>2, <1>5, <1>6 DEF Long, Least
  <1>10. /\ Plan.length \in -1 .. LongMax /\ Plan.length # 0
         /\ Plan.length > 0 => rs + Plan.length = stop
         /\ Plan.length <= 0 => stop <= rs
         /\ Plan.from \in -1 .. LongMax /\ Plan.to \in -1 .. LongMax
    BY <1>1, <1>3, <1>6 DEF Long
  <1>11. Plan.status = 206 /\ streamStart = rs /\ rs \in Long /\ LongMax \in Nat
    BY <1>1, <1>2, <1>3
  <1>12. /\ streamStart \in Long /\ stop \in Long /\ Base \in Long
         /\ prefixToDrop(Plan.status) = Base - streamStart /\ streamStart <= Base
         /\ Plan.length > 0 => Base + Plan.length <= stop
         /\ Plan.status \in {200, 206, 416}
    BY <1>4, <1>6, <1>7, <1>10, <1>11 DEF Long
  <1>13. Plan.length < 0 => End <= Base /\ Base = streamStart
    BY <1>6, <1>7, <1>8, <1>10, <1>11 DEF Long
  <1> QED
    BY <1>7, <1>8, <1>9, <1>10, <1>11, <1>12, <1>13 DEF WindowOK

\* No range, or a core that knows neither ranges nor totals: the whole file.
LEMMA WindowWhole ==
  ASSUME GivenOK, ~asked.has \/ (totalSize <= 0 /\ ~ranged)
  PROVE  WindowOK
  <1>1. ~ranged /\ core.size \in Long /\ LongMax \in Nat /\ totalSize \in {0, core.size}
    BY CoreFacts
  <1>2. streamStart = 0 /\ stop = core.size
    BY <1>1 DEF streamStart, streamEnd, GivenOK
  <1>3. /\ Plan.status = 200 /\ Plan.from = -1 /\ Plan.to = -1
        /\ Plan.length = IF totalSize > 0 THEN totalSize ELSE -1
    BY <1>1 DEF Plan, planFirst, planRange
  <1>4. prefixToDrop(Plan.status) = 0 /\ Base = 0
    BY <1>2, <1>3 DEF prefixToDrop, Base
  <1>5. /\ Plan.length \in -1 .. LongMax /\ Plan.length # 0
        /\ Plan.length > 0 => Plan.length = core.size
    BY <1>1, <1>3 DEF Long
  <1>6. End = core.size
    BY <1>1, <1>2, <1>4, <1>5 DEF End, Long
  <1>7. Whole = Base .. End - 1
    BY <1>4, <1>6 DEF Whole
  <1>8. ~asked.has \/ totalSize = 0
    BY <1>1 DEF Long
  <1>9. /\ streamStart \in Long /\ stop \in Long /\ Base \in Long
        /\ prefixToDrop(Plan.status) = Base - streamStart /\ streamStart <= Base
        /\ Plan.length > 0 => Base + Plan.length <= stop
        /\ Plan.from \in -1 .. LongMax /\ Plan.to \in -1 .. LongMax
    BY <1>1, <1>2, <1>3, <1>4, <1>5 DEF Long
  <1> QED
    BY <1>2, <1>3, <1>4, <1>5, <1>6, <1>7, <1>8, <1>9 DEF WindowOK

\* A range of a file whose total is known: planRange() answers exactly, and the
\* window is where the frames are, whether the core applied the range or not.
LEMMA WindowTotalled ==
  ASSUME GivenOK, asked.has, totalSize > 0
  PROVE  /\ WindowOK
         /\ Wanted = {} => Plan.status = 416
         /\ Wanted # {} => /\ Plan.status = 206
                           /\ Plan.from .. Plan.to = Wanted
                           /\ Plan.length = Plan.to - Plan.from + 1
  <1> DEFINE rs == asked.rs
             re == asked.re
             size == core.size
             n == askedLength(asked)
  <1>1. /\ rs \in Long /\ re \in -1 .. LongMax /\ size \in Long /\ n \in Int /\ LongMax \in Nat
        /\ rs = req.header.start /\ re = req.header.end
        /\ re = -1 \/ re >= rs
        /\ re = -1 => n = 0
        /\ re # -1 => (n = re - rs + 1 /\ n > 0) \/ (n < 0 /\ rs = 0 /\ re = LongMax)
        /\ totalSize = size /\ size > 0
    BY AskedFacts, AskedLengthFacts, CoreFacts DEF Long
  <1>2. Plan = planRange(asked, size)
    BY <1>1 DEF Plan, planFirst, Long
  <1>3. /\ streamStart = IF ranged THEN rs ELSE 0
        /\ stop = IF ranged /\ n > 0 THEN Least(size, rs + n) ELSE size
    BY DEF streamStart, streamEnd, GivenOK
  <1>4. Wanted = {i \in 0 .. size - 1 : i >= rs /\ (re = -1 \/ i <= re)}
    BY <1>1 DEF Wanted, Whole, Absent
  <1> DEFINE end == IF re >= 0 THEN Least(re, size - 1) ELSE size - 1
  <1>5. rs >= size => /\ Plan.status = 416 /\ Plan.length = -1
                      /\ Plan.from = -1 /\ Plan.to = -1
    BY <1>1, <1>2 DEF planRange, Long
  <1>6. rs < size => /\ Plan.status = 206 /\ Plan.length = end - rs + 1
                     /\ Plan.from = rs /\ Plan.to = end
    BY <1>1, <1>2 DEF planRange, Long
  <1>7. prefixToDrop(Plan.status) = IF Plan.status = 206 /\ ~ranged THEN rs ELSE 0
    BY DEF prefixToDrop
  <1> HIDE DEF n, rs, re, size
  <1>8. stop \in Long /\ streamStart \in Long
    BY <1>1, <1>3 DEF Long, Least
  <1>9. CASE rs >= size
    <2>1. Plan.status = 416 /\ Plan.length = -1 /\ Plan.from = -1 /\ Plan.to = -1
      BY <1>5, <1>9
    <2>2. Base = streamStart /\ prefixToDrop(Plan.status) = 0
      BY <1>7, <1>8, <2>1 DEF Base, Long
    <2>3. Wanted = {}
      BY <1>1, <1>4, <1>9 DEF Long
    <2>4. prefixToDrop(Plan.status) = Base - streamStart /\ streamStart <= Base
          /\ Plan.length \in -1 .. LongMax /\ Plan.from \in -1 .. LongMax
          /\ Plan.to \in -1 .. LongMax
      BY <1>1, <1>8, <2>1, <2>2 DEF Long
    <2> QED
      BY <1>8, <2>1, <2>2, <2>3, <2>4 DEF WindowOK
  <1>10. CASE rs < size
    <2>1. /\ Plan.status = 206 /\ Plan.length = end - rs + 1
          /\ Plan.from = rs /\ Plan.to = end
      BY <1>6, <1>10
    <2>2. end \in Long /\ rs <= end /\ end <= size - 1 /\ (re # -1 => end <= re)
          /\ (end = size - 1 \/ end = re)
      BY <1>1, <1>10 DEF Long, Least
    <2>3. Wanted = rs .. end
      BY <1>1, <1>4, <1>10 DEF Long, Least
    <2>4. stop >= end + 1
      BY <1>1, <1>3, <1>10 DEF Long, Least
    <2> HIDE DEF end
    <2>5. Base = rs /\ streamStart <= Base
          /\ prefixToDrop(Plan.status) = Base - streamStart
      BY <1>1, <1>3, <1>7, <2>1 DEF Base, Long
    <2>6. /\ Plan.length \in -1 .. LongMax /\ Plan.length > 0
          /\ Plan.from \in -1 .. LongMax /\ Plan.to \in -1 .. LongMax
          /\ Plan.length = Plan.to - Plan.from + 1
          /\ Base + Plan.length = end + 1
      BY <1>1, <2>1, <2>2, <2>5 DEF Long
    <2>7. End = end + 1 /\ End = Base + Plan.length
      BY <1>1, <2>2, <2>6 DEF End, Long
    <2>8. Wanted = Base .. End - 1 /\ Wanted # {}
      BY <1>1, <2>2, <2>3, <2>5, <2>7, SMTT(30) DEF Long
    <2>9. WindowOK
      <3>1. Base \in Long
        BY <1>1, <2>5
      <3>2. Plan.length # 0 /\ ~(Plan.length < 0)
        BY <1>1, <2>6
      <3>3. Base + Plan.length <= stop
        BY <2>4, <2>6
      <3>4. Plan.status \in {200, 206, 416} /\ Plan.status # 200
        BY <2>1
      <3> QED
        BY <1>8, <2>5, <2>6, <2>8, <3>1, <3>2, <3>3, <3>4 DEF WindowOK
    <2> QED
      BY <2>1, <2>3, <2>6, <2>8, <2>9
  <1> QED
    BY <1>1, <1>9, <1>10 DEF Long

\* The three cases are all there are.
LEMMA WindowPlanned ==
  ASSUME GivenOK
  PROVE  WindowOK
  <1>1. totalSize \in Int
    BY CoreFacts DEF Long
  <1> QED
    BY <1>1, AskedFacts, CoreFacts, WindowUntotalled, WindowWhole, WindowTotalled

-----------------------------------------------------------------------------
(* One chunk.                                                              *)

\* A run of offsets is a sequence of that length.
LEMMA BytesFacts ==
  ASSUME NEW a \in Long, NEW w \in Nat, LongMax \in Nat, w > 0 => a + w - 1 \in Long
  PROVE  /\ Bytes(a, w) \in Seq(Long)
         /\ Len(Bytes(a, w)) = w
         /\ \A i \in 1 .. w : Bytes(a, w)[i] = a + i - 1
  <1>1. \A i \in 1 .. w : a + i - 1 \in Long
    BY DEF Long
  <1> QED
    BY <1>1 DEF Bytes

\* Bytes written at the right offset continue a body that starts at Base.
LEMMA AppendOK ==
  ASSUME GivenOK, NEW b \in Seq(Long), FromBase(b), NEW a \in Long, NEW w \in Nat,
         w > 0 => a = Base + Len(b) /\ a + w - 1 \in Long
  PROVE  /\ b \o Bytes(a, w) \in Seq(Long)
         /\ Len(b \o Bytes(a, w)) = Len(b) + w
         /\ FromBase(b \o Bytes(a, w))
  <1> DEFINE t == Bytes(a, w)
  <1>1. Base \in Long /\ LongMax \in Nat /\ Len(b) \in Nat
    BY WindowPlanned, CoreFacts, LenProperties DEF WindowOK
  <1>2. t \in Seq(Long) /\ Len(t) = w /\ \A i \in 1 .. w : t[i] = a + i - 1
    BY <1>1, BytesFacts
  <1> HIDE DEF t
  <1>3. /\ b \o t \in Seq(Long)
        /\ Len(b \o t) = Len(b) + w
        /\ \A i \in 1 .. Len(b) + w : (b \o t)[i] = IF i <= Len(b) THEN b[i] ELSE t[i - Len(b)]
    <2>1. b \o t \in Seq(Long) /\ Len(b \o t) = Len(b) + Len(t)
      BY <1>2, ConcatProperties
    <2>2. \A i \in 1 .. Len(b) + Len(t) :
            (b \o t)[i] = IF i <= Len(b) THEN b[i] ELSE t[i - Len(b)]
      BY <1>2, ConcatProperties
    <2> QED
      BY <1>2, <2>1, <2>2, Zenon
  <1>4. ASSUME NEW i \in 1 .. Len(b) + w
        PROVE  (b \o t)[i] = Base + i - 1
    <2>1. CASE i <= Len(b)
      BY <1>1, <1>3, <2>1 DEF FromBase
    <2>2. CASE i > Len(b)
      <3>1. i - Len(b) \in 1 .. w /\ w > 0
        BY <1>1, <2>2
      <3> QED
        BY <1>1, <1>2, <1>3, <2>2, <3>1 DEF Long
    <2>3. i <= Len(b) \/ i > Len(b)
      BY <1>1
    <2> QED
      BY <2>1, <2>2, <2>3, Zenon
  <1>5. FromBase(b \o t)
    BY <1>3, <1>4 DEF FromBase
  <1> QED
    BY <1>3, <1>5 DEF t

\* What is still owed after the bytes below p.
Owed(p) == IF Plan.length >= 0 THEN Plan.length - Sent(p) ELSE -1

\* The numbers of onChunk(): d bytes of the chunk are before the window and w
\* of the rest are owed.
LEMMA ChunkArithmetic ==
  ASSUME GivenOK, Plan.status # 416, pos \in Long, NEW n \in Nat,
         streamStart <= pos, n = 0 \/ pos + n <= stop
  PROVE  LET d == Least(Above(Base, pos), n)
             w == IF n = d THEN 0 ELSE written(n - d, Owed(pos))
         IN  /\ d \in Nat /\ w \in Nat /\ pos + d \in Long
             /\ Above(Base, pos) - d = Above(Base, pos + n)
             /\ Sent(pos) \in Long /\ Sent(pos + n) = Sent(pos) + w
             /\ w > 0 => pos + d = Base + Sent(pos) /\ pos + d + w - 1 \in Long
             /\ Owed(pos) \in -1 .. LongMax /\ Above(Base, pos) \in Long
             /\ Owed(pos + n) = IF Owed(pos) >= 0 /\ n > d THEN Owed(pos) - w ELSE Owed(pos)
  <1>1. /\ Base \in Long /\ stop \in Long /\ streamStart \in Long /\ LongMax \in Nat
        /\ Plan.length \in -1 .. LongMax /\ Plan.length # 0
        /\ Plan.length > 0 => Base + Plan.length <= stop
        /\ streamStart <= Base
    BY WindowPlanned, CoreFacts DEF WindowOK
  <1>2. /\ Plan.length >= 0 => End = Base + Plan.length
        /\ Plan.length < 0 => End = stop /\ ((End <= Base /\ Base = streamStart) \/ Base = 0)
    BY <1>1, WindowPlanned DEF WindowOK, End, Long
  <1>3. CASE Plan.length < 0
    BY <1>1, <1>2, <1>3 DEF Least, Above, Sent, Owed, written, Long
  <1>4. CASE Plan.length >= 0
    <2> DEFINE L == Plan.length
    <2>1. End = Base + L /\ L \in Nat /\ End <= stop
      BY <1>1, <1>2, <1>4
    <2>2. CASE pos + n <= Base
      BY <1>1, <2>1, <2>2 DEF Least, Above, Sent, Owed, written, Long
    <2>3. CASE pos + n > Base /\ pos <= Base
      BY <1>1, <2>1, <2>3 DEF Least, Above, Sent, Owed, written, Long
    <2>4. CASE pos > Base
      BY <1>1, <2>1, <2>4 DEF Least, Above, Sent, Owed, written, Long
    <2> QED
      BY <1>1, <2>2, <2>3, <2>4 DEF Long
  <1> QED
    BY <1>1, <1>3, <1>4

\* onChunk(): a body that holds what is due up to pos holds what is due up to
\* the end of the chunk afterwards, unless the client has left; the stream is
\* given up only when nothing is owed.
LEMMA ChunkOK ==
  ASSUME GivenOK, Plan.status # 416, pos \in Long, NEW n \in Nat,
         streamStart <= pos, n = 0 \/ pos + n <= stop,
         NEW hd \in Response, FromBase(hd.body), Len(hd.body) <= Sent(pos),
         client = "there" => Len(hd.body) = Sent(pos)
  PROVE  LET out == onChunk(n, hd, Above(Base, pos), Owed(pos)) IN
         /\ out.hd \in Response
         /\ out.hd.status = hd.status /\ out.hd.length = hd.length
         /\ out.hd.from = hd.from /\ out.hd.to = hd.to
         /\ FromBase(out.hd.body) /\ Len(out.hd.body) <= Sent(pos + n)
         /\ client = "there" => Len(out.hd.body) = Sent(pos + n)
         /\ out.skip = Above(Base, pos + n) /\ out.skip \in Long
         /\ out.remaining = Owed(pos + n) /\ out.remaining \in -1 .. LongMax
         /\ out.enough \in BOOLEAN
         /\ out.enough => out.remaining = 0
  <1> DEFINE s == Above(Base, pos)
             owed == Owed(pos)
             d == Least(s, n)
             w == IF n = d THEN 0 ELSE written(n - d, owed)
             more == IF client = "there" THEN hd.body \o Bytes(pos + d, w) ELSE hd.body
             left == IF owed >= 0 /\ n > d THEN owed - w ELSE owed
             out == onChunk(n, hd, s, owed)
  <1>1. /\ d \in Nat /\ w \in Nat /\ pos + d \in Long
        /\ s - d = Above(Base, pos + n)
        /\ Sent(pos) \in Long /\ Sent(pos + n) = Sent(pos) + w
        /\ w > 0 => pos + d = Base + Sent(pos) /\ pos + d + w - 1 \in Long
        /\ owed \in -1 .. LongMax /\ s \in Long
        /\ Owed(pos + n) = left
    BY ChunkArithmetic
  <1>2. out = [hd |-> [hd EXCEPT !.body = more], skip |-> s - d, remaining |-> left,
               enough |-> n > d /\ owed >= 0 /\ left <= 0]
    BY DEF onChunk
  <1>3. LongMax \in Nat /\ hd.body \in Seq(Long) /\ Len(hd.body) \in Nat
    BY CoreFacts, LenProperties DEF Response
  <1>4. d <= s
    BY <1>1 DEF Least, Long
  <1>5. n > d /\ owed >= 0 => w <= owed
    BY <1>1 DEF written, Least
  <1> HIDE DEF s, owed, d, w, out
  <1>6. /\ more \in Seq(Long) /\ FromBase(more) /\ Len(more) <= Sent(pos + n)
        /\ client = "there" => Len(more) = Sent(pos + n)
    <2>1. CASE client = "there"
      <3>1. /\ hd.body \o Bytes(pos + d, w) \in Seq(Long)
            /\ Len(hd.body \o Bytes(pos + d, w)) = Len(hd.body) + w
            /\ FromBase(hd.body \o Bytes(pos + d, w))
        <4>1. w > 0 => pos + d = Base + Len(hd.body) /\ (pos + d) + w - 1 \in Long
          BY <1>1, <2>1
        <4> QED
          BY <1>1, <1>3, <4>1, AppendOK
      <3>2. more = hd.body \o Bytes(pos + d, w)
        BY <2>1
      <3>3. Len(more) = Sent(pos + n)
        BY <1>1, <2>1, <3>1, <3>2, Zenon
      <3>4. Sent(pos + n) <= Sent(pos + n)
        BY <1>1 DEF Long
      <3> QED
        BY <3>1, <3>2, <3>3, <3>4, ZenonT(60)
    <2>2. CASE client # "there"
      BY <1>1, <1>3, <2>2 DEF Long
    <2> QED
      BY <2>1, <2>2
  <1>7. left \in -1 .. LongMax /\ s - d \in Long /\ (owed >= 0 /\ n > d /\ left <= 0 => left = 0)
    BY <1>1, <1>3, <1>4, <1>5 DEF Long
  <1> HIDE DEF more, left
  <1>8. /\ out.hd = [hd EXCEPT !.body = more] /\ out.skip = s - d /\ out.remaining = left
        /\ out.enough = (n > d /\ owed >= 0 /\ left <= 0)
    BY <1>2
  <1>9. /\ out.hd \in Response /\ out.hd.body = more
        /\ out.hd.status = hd.status /\ out.hd.length = hd.length
        /\ out.hd.from = hd.from /\ out.hd.to = hd.to
    BY <1>6, <1>8 DEF Response
  <1>10. out.enough \in BOOLEAN
    BY <1>8, Zenon
  <1>11. out.enough => out.remaining = 0
    BY <1>7, <1>8, Zenon
  <1>12. /\ FromBase(out.hd.body) /\ Len(out.hd.body) <= Sent(pos + n)
         /\ client = "there" => Len(out.hd.body) = Sent(pos + n)
         /\ out.skip = Above(Base, pos + n) /\ out.skip \in Long
         /\ out.remaining = Owed(pos + n) /\ out.remaining \in -1 .. LongMax
    BY <1>1, <1>6, <1>7, <1>8, <1>9 DEF left
  <1> QED
    BY <1>9, <1>10, <1>11, <1>12, Zenon DEF s, owed, out

-----------------------------------------------------------------------------
(* The steps.                                                              *)

\* What the request and the core are given does not change, and neither does
\* the window.
LEMMA GivenStable ==
  ASSUME UNCHANGED given
  PROVE  /\ req' = req /\ core' = core /\ stop' = stop
         /\ Plan' = Plan /\ Base' = Base /\ End' = End /\ streamStart' = streamStart
         /\ GivenOK' <=> GivenOK
  <1>1. req' = req /\ core' = core /\ stop' = stop
    BY DEF given
  <1>2. asked' = asked /\ totalSize' = totalSize
    BY <1>1 DEF asked, totalSize
  <1>3. ranged' = ranged
    BY <1>1, <1>2 DEF ranged
  <1>4. streamStart' = streamStart /\ streamEnd' = streamEnd
    BY <1>1, <1>2, <1>3 DEF streamStart, streamEnd
  <1>5. rangeLength' = rangeLength
    BY <1>4 DEF rangeLength
  <1>6. Plan' = Plan
    BY <1>2, <1>3, <1>5 DEF Plan, planFirst
  <1>7. Base' = Base
    BY <1>2, <1>3, <1>4, <1>6 DEF Base, prefixToDrop
  <1>8. End' = End
    BY <1>1, <1>6, <1>7 DEF End
  <1>9. GivenOK' <=> GivenOK
    BY <1>1, <1>4 DEF GivenOK
  <1> QED
    BY <1>1, <1>4, <1>6, <1>7, <1>8, <1>9

\* Nothing of the window is before the start of the stream.
LEMMA SentFacts ==
  ASSUME GivenOK
  PROVE  /\ Sent(streamStart) = 0
         /\ \A p \in Long : Sent(p) \in Long
  <1>1. /\ Base \in Long /\ streamStart \in Long /\ streamStart <= Base /\ LongMax \in Nat
        /\ End \in Int
    BY WindowPlanned, CoreFacts DEF WindowOK, End, Long
  <1> QED
    BY <1>1 DEF Sent, Above, Least, Long

\* An empty sequence is the only one of length 0.
LEMMA EmptyBody ==
  /\ <<>> \in Seq(Long) /\ Len(<<>>) = 0 /\ FromBase(<<>>)
  /\ \A b \in Seq(Long) : Len(b) = 0 => FromBase(b)
  BY DEF FromBase

\* Before the first step.
LEMMA InitIInv == Init => IInv
  <1> SUFFICES ASSUME Init PROVE IInv
    OBVIOUS
  <1>1. GivenOK
    BY DEF Init, GivenOK
  <1>2. /\ streamStart \in Long /\ core.size \in Long /\ LongMax \in Nat
        /\ Sent(streamStart) = 0
    BY <1>1, WindowPlanned, CoreFacts, SentFacts DEF WindowOK
  <1>3. /\ resp = Unsent /\ stored = [bytes |-> 0, committed |-> FALSE, answer |-> "none"]
        /\ pos = IF req.route = "put" THEN 0 ELSE streamStart
        /\ pc = IF req.route = "put" THEN "uploading" ELSE "reading"
        /\ first = TRUE /\ skip = 0 /\ remaining = -1 /\ client = "there" /\ cut = FALSE
    BY DEF Init
  <1>4. /\ resp \in Response /\ resp.status = 0 /\ resp.length = -1 /\ resp.body = <<>>
    BY <1>2, <1>3, EmptyBody DEF Response, Unsent
  <1>5. req.route \in {"content", "version", "put"}
    BY <1>1 DEF GivenOK
  <1>6. /\ pos \in Long /\ skip \in Long /\ remaining \in -1 .. LongMax
        /\ stored \in Stored
    BY <1>2, <1>3 DEF Long, Stored
  <1>7. req.route = "put" => UploadOK
    BY <1>2, <1>3, <1>4 DEF UploadOK, Long, CallOver
  <1>8. req.route # "put" => DownloadOK /\ NoHeader
    BY <1>2, <1>3, <1>4, EmptyBody DEF DownloadOK, NoHeader, Long
  <1>9. req.route = "version" => pos = 0
    <2>1. ASSUME req.route = "version" PROVE streamStart = 0
      BY <1>1, <2>1, AskedFacts, CoreFacts DEF streamStart
    <2> QED
      BY <1>3, <2>1
  <1> QED
    BY <1>1, <1>3, <1>4, <1>5, <1>6, <1>7, <1>8, <1>9 DEF IInv

\* A frame of the content route.
LEMMA ContentFrameStep ==
  ASSUME IInv, NEW n \in 0 .. MaxFrame, ContentFrame(n)
  PROVE  IInv'
  <1> DEFINE hd == IF first THEN Header(Plan) ELSE resp
             s == IF first THEN prefixToDrop(Plan.status) ELSE skip
             owed == IF first THEN Plan.length ELSE remaining
             out == onChunk(n, hd, s, owed)
             refused == first /\ Plan.status = 416
  <1>1. /\ GivenOK /\ DownloadOK /\ pos \in Long /\ skip \in Long
        /\ remaining \in -1 .. LongMax /\ resp \in Response
        /\ pc = "reading" /\ req.route = "content" /\ first \in BOOLEAN
        /\ IF first THEN NoHeader ELSE ContentOK
        /\ client \in {"there", "gone"}
    BY DEF IInv, ContentFrame
  <1>2. /\ Chunk(n) /\ first' = FALSE /\ pos' = pos + n
        /\ IF refused
           THEN resp' = hd /\ pc' = "done" /\ UNCHANGED <<skip, remaining>>
           ELSE /\ resp' = out.hd
                /\ skip' = out.skip
                /\ remaining' = out.remaining
                /\ pc' = IF out.enough THEN "done" ELSE pc
        /\ UNCHANGED <<given, client, cut, stored>>
    BY DEF ContentFrame, Plan
  <1>3. /\ n \in Nat /\ LongMax \in Nat
        /\ (n = 0 /\ first) \/ (n > 0 /\ pos + n <= stop)
    BY <1>1, <1>2, FrameAssumption, WindowPlanned
    DEF Chunk, Least, Long, WindowOK
  <1>4. WindowOK
    BY <1>1, WindowPlanned
  <1>5. pos + n \in Long
    BY <1>1, <1>3, <1>4 DEF WindowOK, Long
  <1>6. /\ hd \in Response /\ hd.status = Plan.status
        /\ hd.length = IF Plan.status = 416 THEN 0 ELSE Plan.length
        /\ hd.from = Plan.from /\ hd.to = Plan.to
        /\ first => hd.body = <<>>
        /\ ~first => hd = resp
    <2>1. CASE first
      <3>1. hd = Header(Plan)
        BY <2>1
      <3>2. Header(Plan) = [status |-> Plan.status,
                            length |-> IF Plan.status = 416 THEN 0 ELSE Plan.length,
                            from |-> Plan.from, to |-> Plan.to, body |-> <<>>]
        BY DEF Header
      <3> QED
        BY <1>3, <1>4, <2>1, <3>1, <3>2, EmptyBody DEF WindowOK, Response
    <2>2. CASE ~first
      BY <1>1, <2>2 DEF ContentOK
    <2> QED
      BY <2>1, <2>2
  <1> HIDE DEF hd
  <1>7. CASE refused
    <2>1. /\ first /\ Plan.status = 416 /\ resp' = hd /\ pc' = "done"
          /\ UNCHANGED <<skip, remaining>>
      BY <1>2, <1>7
    <2>2. hd.body = <<>> /\ Len(hd.body) = 0 /\ FromBase(hd.body)
      BY <1>6, <2>1, EmptyBody
    <2>3. Sent(pos + n) \in Long
      BY <1>1, <1>5, SentFacts
    <2>4. DownloadOK'
      BY <1>1, <1>2, <1>3, <1>4, <1>6, <2>1, <2>2, <2>3, GivenStable, SMTT(30)
      DEF DownloadOK, WindowOK, FromBase, Sent, Long
    <2>5. ContentOK'
      BY <1>2, <1>6, <2>1, GivenStable DEF ContentOK
    <2> QED
      BY <1>1, <1>2, <1>5, <1>6, <2>1, <2>4, <2>5, GivenStable DEF IInv
  <1>8. CASE ~refused
    <2>1. /\ Plan.status # 416
          /\ s = Above(Base, pos) /\ owed = Owed(pos)
          /\ FromBase(hd.body) /\ Len(hd.body) <= Sent(pos)
          /\ client = "there" => Len(hd.body) = Sent(pos)
      <3>1. CASE first
        <4>1. pos = streamStart /\ Sent(pos) = 0
          BY <1>1, <3>1, SentFacts DEF DownloadOK
        <4>2. Len(hd.body) = 0 /\ FromBase(hd.body)
          BY <1>6, <3>1, EmptyBody
        <4> QED
          BY <1>4, <1>8, <3>1, <4>1, <4>2 DEF WindowOK, Above, Owed, Long
      <3>2. CASE ~first
        <4>1. Plan.status # 416
          BY <1>1, <3>2 DEF ContentOK
        <4> QED
          BY <1>1, <1>6, <3>2, <4>1 DEF ContentOK, DownloadOK, Owed
      <3> QED
        BY <1>1, <3>1, <3>2
    <2>2. /\ out.hd \in Response
          /\ out.hd.status = hd.status /\ out.hd.length = hd.length
          /\ out.hd.from = hd.from /\ out.hd.to = hd.to
          /\ FromBase(out.hd.body) /\ Len(out.hd.body) <= Sent(pos + n)
          /\ client = "there" => Len(out.hd.body) = Sent(pos + n)
          /\ out.skip = Above(Base, pos + n) /\ out.skip \in Long
          /\ out.remaining = Owed(pos + n) /\ out.remaining \in -1 .. LongMax
          /\ out.enough \in BOOLEAN
          /\ out.enough => out.remaining = 0
      <3>1. streamStart <= pos /\ (n = 0 \/ pos + n <= stop)
        BY <1>1, <1>3 DEF DownloadOK
      <3>2. out = onChunk(n, hd, Above(Base, pos), Owed(pos))
        BY <2>1
      <3> QED
        BY <1>1, <1>3, <1>6, <2>1, <3>1, <3>2, ChunkOK
    <2>3. /\ resp' = out.hd /\ skip' = out.skip /\ remaining' = out.remaining
          /\ pc' = IF out.enough THEN "done" ELSE pc
      BY <1>2, <1>8
    <2> HIDE DEF s, owed, out
    <2>4. pc' \in {"reading", "done"} /\ (pc' = "done" => remaining' = 0)
      BY <1>1, <2>2, <2>3
    <2>5. Sent(pos + n) = Sent(pos)'
      BY <1>2, GivenStable DEF Sent
    <2>6. DownloadOK'
      <3>1. streamStart' <= pos' /\ (pos' <= stop' \/ pos' = streamStart') /\ ~first'
        BY <1>1, <1>2, <1>3, <1>4, GivenStable DEF DownloadOK, WindowOK, Long
      <3>2. FromBase(resp.body)' /\ Len(resp'.body) <= Sent(pos)'
        <4>1. \A i \in 1 .. Len(resp'.body) : resp'.body[i] = Base' + i - 1
          BY <1>2, <2>2, <2>3, GivenStable DEF FromBase
        <4>2. Len(resp'.body) <= Sent(pos)'
          BY <2>2, <2>3, <2>5
        <4> QED
          BY <4>1, <4>2 DEF FromBase
      <3>3. resp'.status \in {200, 206}
        BY <1>4, <1>6, <2>1, <2>2, <2>3 DEF WindowOK
      <3> QED
        BY <3>1, <3>2, <3>3 DEF DownloadOK
    <2>7. ContentOK'
      BY <1>2, <1>6, <2>1, <2>2, <2>3, <2>4, <2>5, GivenStable DEF ContentOK, Owed
    <2> QED
      BY <1>1, <1>2, <1>5, <2>2, <2>3, <2>4, <2>6, <2>7, GivenStable DEF IInv
  <1> QED
    BY <1>7, <1>8

\* The version route streams the whole file from offset 0.
LEMMA VersionWindow ==
  ASSUME GivenOK, req.route = "version"
  PROVE  /\ Plan.status = 200 /\ Base = 0 /\ streamStart = 0
         /\ End = core.size /\ stop = core.size
         /\ core.size \in Long /\ LongMax \in Nat
         /\ \A p \in Long : p <= stop => Sent(p) = p
  <1>1. ~asked.has
    BY AskedFacts
  <1>2. Plan.status = 200 /\ Base = 0 /\ End = stop /\ stop = core.size
        /\ streamStart \in Long /\ streamStart <= Base
    BY <1>1, WindowPlanned DEF WindowOK
  <1>3. core.size \in Long /\ LongMax \in Nat
    BY CoreFacts
  <1> QED
    BY <1>2, <1>3 DEF Sent, Above, Least, Long

\* The response of a version frame: 200, with some body.
Out(r, b) == [r EXCEPT !.status = 200, !.body = b]

\* It is a response, and the length it announces is the one it had.
LEMMA BodyPut ==
  ASSUME NEW r \in Response, NEW b \in Seq(Long)
  PROVE  /\ Out(r, b) \in Response
         /\ Out(r, b).status = 200 /\ Out(r, b).body = b /\ Out(r, b).length = r.length
  <1> DEFINE q == [r EXCEPT !.status = 200, !.body = b]
             L == -1 .. LongMax
             B == Seq(Long)
             S == {0, 200, 204, 206, 416, 500}
  <1>1. r \in [status : S, length : L, from : L, to : L, body : B] /\ 200 \in S /\ b \in B
    BY DEF Response
  <1>2. Response = [status : S, length : L, from : L, to : L, body : B]
    BY DEF Response
  <1> HIDE DEF L, B, S
  <1>3. q \in [status : S, length : L, from : L, to : L, body : B]
    BY <1>1
  <1>4. q.status = 200 /\ q.body = b /\ q.length = r.length
    BY <1>1
  <1> QED
    BY <1>2, <1>3, <1>4 DEF Out

\* A frame of the version route.
LEMMA VersionFrameStep ==
  ASSUME IInv, NEW n \in 0 .. MaxFrame, VersionFrame(n)
  PROVE  IInv'
  <1>1. /\ GivenOK /\ DownloadOK /\ pos \in Long /\ resp \in Response
        /\ pc = "reading" /\ req.route = "version" /\ first \in BOOLEAN
        /\ IF pos = 0 THEN NoHeader ELSE VersionOK
        /\ client \in {"there", "gone"}
    BY DEF IInv, VersionFrame
  <1>2. /\ Chunk(n) /\ first' = FALSE /\ pos' = pos + n
        /\ resp' = IF n = 0 THEN resp
                   ELSE [resp EXCEPT !.status = 200,
                           !.body = IF client = "there" THEN @ \o Bytes(pos, n) ELSE @]
        /\ pc' = IF n > 0 /\ client = "gone" THEN "done" ELSE pc
        /\ UNCHANGED <<given, skip, remaining, client, cut, stored>>
    BY DEF VersionFrame
  <1>3. /\ Plan.status = 200 /\ Base = 0 /\ streamStart = 0 /\ stop = core.size
        /\ core.size \in Long /\ LongMax \in Nat
        /\ \A p \in Long : p <= stop => Sent(p) = p
    BY <1>1, VersionWindow
  <1>4. /\ n \in Nat
        /\ (n = 0 /\ first) \/ (n > 0 /\ pos + n <= stop)
    BY <1>1, <1>2, <1>3, FrameAssumption DEF Chunk, Least, Long
  <1>5. /\ pos <= stop /\ Sent(pos) = pos /\ pos + n \in Long /\ Sent(pos + n) = pos + n
        /\ pos + n <= stop
    BY <1>1, <1>3, <1>4 DEF DownloadOK, Long
  <1>6. Sent(pos)' = Sent(pos + n)
    BY <1>2, GivenStable DEF Sent
  <1>7. CASE n = 0
    <2>1. resp' = resp /\ pc' = pc /\ pos' = pos
      BY <1>1, <1>2, <1>4, <1>7 DEF Long
    <2>2. DownloadOK'
      BY <1>1, <1>2, <1>5, <1>6, <1>7, <2>1, GivenStable DEF DownloadOK, FromBase
    <2>3. pos' = 0 /\ NoHeader'
      <3>1. pos = 0 /\ NoHeader
        BY <1>1, <1>3, <1>4, <1>7 DEF DownloadOK
      <3> QED
        BY <1>1, <1>2, <2>1, <3>1, GivenStable DEF NoHeader
    <2> QED
      BY <1>1, <1>2, <1>5, <2>1, <2>2, <2>3, GivenStable DEF IInv
  <1>8. CASE n > 0
    <2> DEFINE more == IF client = "there" THEN resp.body \o Bytes(pos, n) ELSE resp.body
    <2>1. resp' = [resp EXCEPT !.status = 200, !.body = more]
      BY <1>2, <1>8
    <2>2. /\ resp.body \in Seq(Long) /\ FromBase(resp.body) /\ Len(resp.body) <= pos
          /\ client = "there" => Len(resp.body) = pos
          /\ resp.length = -1 /\ Len(resp.body) \in Nat
      <3>1. resp.body \in Seq(Long) /\ Len(resp.body) \in Nat
        BY <1>1, LenProperties DEF Response
      <3>2. CASE pos = 0
        BY <1>1, <1>5, <3>1, <3>2 DEF NoHeader, DownloadOK
      <3>3. CASE pos # 0
        BY <1>1, <1>5, <3>1, <3>3 DEF VersionOK, DownloadOK
      <3> QED
        BY <3>2, <3>3
    <2>3. /\ more \in Seq(Long) /\ FromBase(more)
          /\ Len(more) <= pos + n
          /\ client = "there" => Len(more) = pos + n
      <3>1. CASE client = "there"
        <4>1. pos = Base + Len(resp.body) /\ pos + n - 1 \in Long
          BY <1>1, <1>3, <1>5, <1>8, <2>2, <3>1 DEF Long
        <4>2. /\ resp.body \o Bytes(pos, n) \in Seq(Long)
              /\ Len(resp.body \o Bytes(pos, n)) = Len(resp.body) + n
              /\ FromBase(resp.body \o Bytes(pos, n))
          BY <1>1, <1>4, <2>2, <4>1, AppendOK
        <4>3. more = resp.body \o Bytes(pos, n)
          BY <3>1
        <4>4. Len(more) = pos + n
          BY <2>2, <3>1, <4>2, <4>3, Zenon
        <4>5. pos + n <= pos + n
          BY <1>5 DEF Long
        <4> QED
          BY <4>2, <4>3, <4>4, <4>5, Zenon
      <3>2. CASE client # "there"
        BY <1>1, <1>4, <2>2, <3>2 DEF Long
      <3> QED
        BY <3>1, <3>2
    <2> HIDE DEF more
    <2>4. /\ resp' \in Response /\ resp'.status = 200 /\ resp'.body = more
          /\ resp'.length = -1
      <3>1. resp \in Response /\ more \in Seq(Long) /\ resp.length = -1
        BY <1>1, <2>2, <2>3
      <3>2. resp' = Out(resp, more)
        BY <2>1 DEF Out
      <3> QED
        BY <3>1, <3>2, BodyPut
    <2>5. pos' # 0 /\ pc' \in {"reading", "done"} /\ (pc' = "done" => client' # "there")
      BY <1>1, <1>2, <1>8 DEF Long
    <2>6. \A i \in 1 .. Len(resp'.body) : resp'.body[i] = Base' + i - 1
      BY <1>2, <2>3, <2>4, GivenStable, SMTT(30) DEF FromBase
    <2>7. Len(resp'.body) <= Sent(pos)' /\ (client' = "there" => Len(resp'.body) = Sent(pos)')
      BY <1>2, <1>5, <1>6, <2>3, <2>4
    <2>8. DownloadOK'
      BY <1>1, <1>2, <1>3, <1>5, <2>4, <2>6, <2>7, GivenStable, SMTT(30)
      DEF DownloadOK, FromBase, Long
    <2>9. VersionOK'
      BY <1>2, <2>4, <2>5, <2>7 DEF VersionOK
    <2> QED
      BY <1>1, <1>2, <1>5, <2>4, <2>5, <2>8, <2>9, GivenStable DEF IInv
  <1> QED
    BY <1>4, <1>7, <1>8

\* The stream of a download is over: what it left, the response keeps, unless no
\* header is out.
LEMMA StreamOverStep ==
  ASSUME IInv, StreamFails \/ StreamEnds \/ StreamCancelled
  PROVE  IInv'
  <1>1. /\ pc = "reading" /\ pc' = "done" /\ req.route \in {"content", "version"}
        /\ UNCHANGED <<given, pos, first, skip, remaining, client, stored>>
        /\ cut' \in BOOLEAN
        /\ resp' = AfterFailure \/ resp' = AfterSuccess
        /\ ~cut' => pos >= stop /\ (first => core.size = 0) /\ resp' = AfterSuccess
        /\ GivenOK /\ DownloadOK /\ resp \in Response /\ pos \in Long
    <2>1. pc = "reading" /\ cut \in BOOLEAN /\ GivenOK
          /\ (req.route # "put" => DownloadOK) /\ req.route # "put"
          /\ resp \in Response /\ pos \in Long
      BY DEF IInv, StreamFails, StreamEnds, StreamCancelled
    <2>2. req.route \in {"content", "version"}
      BY <2>1 DEF GivenOK
    <2>3. CASE StreamFails
      BY <2>1, <2>2, <2>3 DEF StreamFails
    <2>4. CASE StreamEnds
      BY <2>1, <2>2, <2>4 DEF StreamEnds
    <2>5. CASE StreamCancelled
      BY <2>1, <2>2, <2>5 DEF StreamCancelled
    <2> QED
      BY <2>3, <2>4, <2>5, Zenon
  <1>2. LongMax \in Nat
    BY FrameAssumption
  <1>3. /\ resp' \in Response /\ resp'.body = resp.body
        /\ resp'.from = resp.from /\ resp'.to = resp.to
        /\ resp.status # 0 => resp' = resp
        /\ resp.status = 0 => resp'.status \in {200, 500}
        /\ resp.status = 0 /\ resp'.status = 200 => resp'.length = 0
    <2>1. CASE resp.status # 0
      BY <1>1, <2>1 DEF AfterFailure, AfterSuccess
    <2>2. CASE resp.status = 0
      <3>1. \/ resp' = [resp EXCEPT !.status = 500]
            \/ resp' = [resp EXCEPT !.status = 200, !.length = 0]
        BY <1>1, <2>2 DEF AfterFailure, AfterSuccess
      <3>2. resp \in Response /\ 0 \in -1 .. LongMax
        BY <1>1, <1>2
      <3>3. CASE resp' = [resp EXCEPT !.status = 500]
        BY <2>2, <3>2, <3>3 DEF Response
      <3>4. CASE resp' = [resp EXCEPT !.status = 200, !.length = 0]
        <4>1. /\ resp'.status = 200 /\ resp'.length = 0 /\ resp'.body = resp.body
              /\ resp'.from = resp.from /\ resp'.to = resp.to
          BY <3>2, <3>4 DEF Response
        <4>2. resp' \in Response
          <5>1. resp' = [status |-> 200, length |-> 0, from |-> resp.from, to |-> resp.to,
                         body |-> resp.body]
            BY <3>2, <3>4, ZenonT(30) DEF Response
          <5> QED
            BY <1>2, <3>2, <5>1 DEF Response
        <4> QED
          BY <2>2, <4>1, <4>2
      <3> QED
        BY <3>1, <3>3, <3>4, Zenon
    <2> QED
      BY <2>1, <2>2, Zenon
  <1>4. Sent(pos)' = Sent(pos)
    BY <1>1, GivenStable DEF Sent
  <1>5. DownloadOK'
    <2>1. resp'.status # 0 /\ resp'.status # 204
      BY <1>1, <1>3 DEF DownloadOK
    <2>2. resp'.status \in {416, 500} => Len(resp'.body) = 0
      BY <1>1, <1>3 DEF DownloadOK
    <2>3. \A i \in 1 .. Len(resp'.body) : resp'.body[i] = Base' + i - 1
      BY <1>1, <1>3, GivenStable DEF DownloadOK, FromBase
    <2>4. Len(resp'.body) <= Sent(pos)'
      BY <1>1, <1>3, <1>4 DEF DownloadOK
    <2> QED
      BY <1>1, <2>1, <2>2, <2>3, <2>4, GivenStable DEF DownloadOK, FromBase
  <1>6. ASSUME NoHeader, ~cut' => core.size = 0
        PROVE  NoHeader'
    BY <1>1, <1>3, <1>6, GivenStable DEF NoHeader
  <1>7. CASE req.route = "content"
    <2>1. CASE first
      <3>1. NoHeader'
        BY <1>1, <1>6, <1>7, <2>1 DEF IInv
      <3> QED
        BY <1>1, <1>3, <1>5, <1>7, <2>1, <3>1, GivenStable DEF IInv
    <2>2. CASE ~first
      <3>1. ContentOK
        BY <1>7, <2>2 DEF IInv
      <3>2. resp' = resp
        BY <1>1, <1>3, <3>1, WindowPlanned DEF ContentOK, WindowOK
      <3>3. ContentOK'
        BY <1>1, <1>4, <3>1, <3>2, GivenStable DEF ContentOK, Owed
      <3> QED
        BY <1>1, <1>3, <1>5, <1>7, <2>2, <3>3, GivenStable DEF IInv
    <2> QED
      BY <2>1, <2>2
  <1>8. CASE req.route = "version"
    <2>1. CASE pos = 0
      <3>1. stop = core.size /\ core.size \in Long
        BY <1>1, <1>8, VersionWindow
      <3>2. NoHeader'
        BY <1>1, <1>2, <1>6, <1>8, <2>1, <3>1 DEF IInv, Long
      <3> QED
        BY <1>1, <1>3, <1>5, <1>8, <2>1, <3>2, GivenStable DEF IInv
    <2>2. CASE pos # 0
      <3>1. VersionOK
        BY <1>8, <2>2 DEF IInv
      <3>2. resp' = resp
        BY <1>3, <3>1 DEF VersionOK
      <3>3. VersionOK'
        BY <1>1, <1>4, <3>1, <3>2, GivenStable DEF VersionOK
      <3> QED
        BY <1>1, <1>3, <1>5, <1>8, <2>2, <3>3, GivenStable DEF IInv
    <2> QED
      BY <2>1, <2>2
  <1> QED
    BY <1>1, <1>7, <1>8

\* What putContent() may rely on while it handles an upload.
LEMMA UploadFacts ==
  ASSUME IInv, pc \in {"uploading", "finishing"}
  PROVE  /\ req.route = "put" /\ GivenOK /\ UploadOK /\ resp \in Response
         /\ pos \in Long /\ stored \in Stored /\ resp.status = 0
         /\ core.size \in Long /\ LongMax \in Nat /\ first \in BOOLEAN /\ cut \in BOOLEAN
  <1>1. /\ req.route = "put" /\ GivenOK /\ UploadOK /\ resp \in Response
        /\ pos \in Long /\ stored \in Stored /\ first \in BOOLEAN /\ cut \in BOOLEAN
    BY DEF IInv
  <1> QED
    BY <1>1, CoreFacts DEF UploadOK

\* A chunk: the core has it unless the call is over.
LEMMA UploadChunkStep ==
  ASSUME IInv, NEW n \in 1 .. MaxFrame, UploadChunk(n) \/ WriteFails(n)
  PROVE  IInv'
  <1>1. /\ pc = "uploading" /\ n \in 1 .. Least(MaxFrame, core.size - pos)
        /\ pos' = pos + n /\ first' = FALSE
        /\ UNCHANGED <<given, skip, remaining, resp, client, cut>>
    BY DEF UploadChunk, WriteFails
  <1>2. /\ req.route = "put" /\ GivenOK /\ UploadOK /\ resp \in Response
        /\ pos \in Long /\ stored \in Stored /\ resp.status = 0
        /\ core.size \in Long /\ LongMax \in Nat
    BY <1>1, UploadFacts
  <1>3. n \in Nat /\ n <= core.size - pos
    BY <1>1, <1>2, FrameAssumption DEF Least, Long
  <1>4. pos' \in Long /\ pos' <= core.size
    BY <1>1, <1>2, <1>3 DEF Long
  <1>5. /\ stored' \in Stored /\ stored'.answer = stored.answer
        /\ stored'.committed = stored.committed
        /\ stored'.bytes <= pos' /\ (~CallOver /\ stored.bytes = pos => stored'.bytes = pos')
        /\ pc' = "uploading" \/ (CallOver /\ pc' = "finishing")
    <2>1. CASE CallOver
      <3>1. stored' = stored
        BY <2>1 DEF UploadChunk, WriteFails
      <3>2. stored.bytes \in Int /\ pos \in Int /\ stored.bytes <= pos
        BY <1>2 DEF UploadOK, Stored, Long
      <3> QED
        BY <1>1, <1>2, <1>3, <2>1, <3>1, <3>2 DEF UploadChunk, WriteFails
    <2>2. CASE ~CallOver
      <3>1. stored' = [stored EXCEPT !.bytes = @ + n] /\ pc' = pc
        BY <2>2 DEF UploadChunk, WriteFails
      <3>2. stored.bytes \in Int /\ 0 <= stored.bytes /\ stored.bytes <= pos /\ pos \in Int
        BY <1>2 DEF UploadOK, Stored, Long
      <3>3. stored.bytes + n \in Long
        BY <1>2, <1>3, <3>2 DEF Long
      <3> QED
        BY <1>1, <1>2, <1>3, <2>2, <3>1, <3>2, <3>3 DEF Stored
    <2> QED
      BY <2>1, <2>2
  <1>6. CallOver' = CallOver
    BY <1>5 DEF CallOver
  <1>7. CallOver => cut
    BY <1>1, <1>2 DEF UploadOK
  <1>8. UploadOK'
    BY <1>1, <1>2, <1>4, <1>5, <1>6, <1>7, GivenStable DEF UploadOK
  <1> QED
    BY <1>1, <1>2, <1>4, <1>5, <1>8, GivenStable DEF IInv

\* The end of the body as the bridge sees it: all of it, or the client left.
LEMMA BodyEndsStep ==
  ASSUME IInv, BodyEnds
  PROVE  IInv'
  <1>1. /\ pc = "uploading" /\ pc' = "finishing" /\ (pos = core.size \/ client = "gone")
        /\ UNCHANGED <<given, pos, first, skip, remaining, resp, client, cut, stored>>
    BY DEF BodyEnds
  <1>2. req.route = "put" /\ GivenOK /\ UploadOK
    BY <1>1, UploadFacts
  <1>3. UploadOK'
    BY <1>1, <1>2, GivenStable DEF UploadOK, CallOver
  <1> QED
    BY <1>1, <1>2, <1>3, GivenStable DEF IInv

\* The answer of the core, or its loss.
LEMMA CoreStep ==
  ASSUME IInv, NEW b \in BOOLEAN, CoreAnswers(b) \/ CallBreaks(b)
  PROVE  IInv'
  <1>1. /\ pc \in {"uploading", "finishing"}
        /\ UNCHANGED <<given, pc, pos, first, skip, remaining, resp, client>>
    BY DEF CoreAnswers, CallBreaks
  <1>2. /\ req.route = "put" /\ GivenOK /\ UploadOK /\ stored \in Stored
        /\ resp.status = 0 /\ cut \in BOOLEAN
    BY <1>1, UploadFacts
  <1>3. /\ stored' \in Stored /\ stored'.bytes = stored.bytes /\ stored'.committed = b
        /\ \/ stored'.answer = "lost" /\ cut' = TRUE
           \/ stored'.answer = (IF b THEN "ok" ELSE "refused") /\ cut' = (cut \/ pc = "uploading")
    <2>1. CASE CoreAnswers(b)
      <3>1. /\ stored' = [stored EXCEPT !.committed = b, !.answer = IF b THEN "ok" ELSE "refused"]
            /\ cut' = (cut \/ pc = "uploading")
        BY <2>1 DEF CoreAnswers
      <3> QED
        BY <1>2, <3>1 DEF Stored
    <2>2. CASE CallBreaks(b)
      <3>1. stored' = [stored EXCEPT !.committed = b, !.answer = "lost"] /\ cut' = TRUE
        BY <2>2 DEF CallBreaks
      <3> QED
        BY <1>2, <3>1 DEF Stored
    <2> QED
      BY <2>1, <2>2
  <1>4. cut' \in BOOLEAN /\ (cut => cut') /\ (pc = "uploading" => cut')
    BY <1>2, <1>3
  <1>5. /\ stored'.answer = "ok" => stored'.committed
        /\ stored'.answer \in {"none", "refused"} => ~stored'.committed
    BY <1>3
  <1>6. UploadOK'
    BY <1>1, <1>2, <1>3, <1>4, <1>5, GivenStable DEF UploadOK
  <1> QED
    BY <1>1, <1>2, <1>3, <1>4, <1>6, GivenStable DEF IInv

\* Finish(): 204 stands for an answer that arrived and said so.
LEMMA UploadFinishesStep ==
  ASSUME IInv, UploadFinishes
  PROVE  IInv'
  <1>1. /\ pc = "finishing" /\ pc' = "done" /\ CallOver
        /\ resp' = [resp EXCEPT !.status = uploadStatus(stored.answer)]
        /\ UNCHANGED <<given, pos, first, skip, remaining, client, cut, stored>>
    BY DEF UploadFinishes
  <1>2. /\ req.route = "put" /\ GivenOK /\ UploadOK /\ resp \in Response /\ stored \in Stored
    BY <1>1, UploadFacts
  <1>3. /\ resp' \in Response /\ resp'.body = resp.body /\ resp'.length = resp.length
        /\ resp'.status = IF stored.answer = "ok" THEN 204 ELSE 500
    BY <1>1, <1>2 DEF Response, uploadStatus
  <1>4. stored.answer \in {"ok", "refused", "lost"}
    BY <1>1, <1>2 DEF CallOver, Stored
  <1>5. UploadOK'
    BY <1>1, <1>2, <1>3, <1>4, GivenStable DEF UploadOK, CallOver
  <1> QED
    BY <1>1, <1>2, <1>3, <1>5, GivenStable DEF IInv

\* The client leaves, or nothing happens.
LEMMA QuietStep ==
  ASSUME IInv, ClientLeaves \/ UNCHANGED vars
  PROVE  IInv'
  <1>1. /\ UNCHANGED <<given, pc, pos, first, skip, remaining, resp, cut, stored>>
        /\ client' \in {"there", "gone"} /\ (client' = "there" => client = "there")
    BY DEF ClientLeaves, vars, given, IInv
  <1>2. Sent(pos)' = Sent(pos)
    BY <1>1, GivenStable DEF Sent
  <1>3. DownloadOK => DownloadOK'
    BY <1>1, <1>2, GivenStable DEF DownloadOK, FromBase
  <1>4. (UploadOK => UploadOK') /\ (NoHeader => NoHeader')
    BY <1>1, GivenStable DEF UploadOK, NoHeader, CallOver
  <1>5. (ContentOK => ContentOK') /\ (VersionOK => VersionOK')
    BY <1>1, <1>2, GivenStable DEF ContentOK, VersionOK
  <1> QED
    BY <1>1, <1>3, <1>4, <1>5, GivenStable DEF IInv

\* Every step.
LEMMA NextIInv == IInv /\ [Next]_vars => IInv'
  <1> SUFFICES ASSUME IInv, [Next]_vars PROVE IInv'
    OBVIOUS
  <1>1. CASE \E n \in 0 .. MaxFrame : ContentFrame(n)
    BY <1>1, ContentFrameStep
  <1>2. CASE \E n \in 0 .. MaxFrame : VersionFrame(n)
    BY <1>2, VersionFrameStep
  <1>3. CASE StreamFails \/ StreamEnds \/ StreamCancelled
    BY <1>3, StreamOverStep
  <1>4. CASE \E n \in 1 .. MaxFrame : UploadChunk(n) \/ WriteFails(n)
    BY <1>4, UploadChunkStep
  <1>5. CASE BodyEnds
    BY <1>5, BodyEndsStep
  <1>6. CASE \E b \in BOOLEAN : CoreAnswers(b) \/ CallBreaks(b)
    BY <1>6, CoreStep
  <1>7. CASE UploadFinishes
    BY <1>7, UploadFinishesStep
  <1>8. CASE ClientLeaves \/ Done \/ UNCHANGED vars
    BY <1>8, QuietStep DEF Done
  <1> QED
    BY <1>1, <1>2, <1>3, <1>4, <1>5, <1>6, <1>7, <1>8 DEF Next

-----------------------------------------------------------------------------
\* The inductive invariant holds in every reachable state.
THEOREM Inductive == Spec => []IInv
  BY InitIInv, NextIInv, PTL DEF Spec

\* No offset, length or counter of a transfer leaves the range of a long.
THEOREM TypeCorrect == Spec => []TypeOK
  <1>1. IInv => TypeOK
    BY DEF IInv, TypeOK, Response, Long, Stored
  <1> QED
    BY <1>1, Inductive, PTL

\* streamFileUpload(): an acknowledged upload is committed and whole, unless the
\* client left or the core answered before the end; an upload that is stored is
\* answered with an error only if the core's answer was lost.
THEOREM UploadWhole == Spec => []AcknowledgedUploadIsWhole
  <1>1. IInv => AcknowledgedUploadIsWhole
    BY DEF IInv, UploadOK, AcknowledgedUploadIsWhole
  <1> QED
    BY <1>1, Inductive, PTL

\* The window that belongs to the status line of a download with a body.
LEMMA WindowOfBody ==
  ASSUME IInv, req.route # "put", resp.status \in {200, 206},
         ~(req.route = "content" /\ first), ~(req.route = "version" /\ pos = 0)
  PROVE  Window = Base .. End - 1
  <1>1. GivenOK /\ req.route \in {"content", "version"}
    BY DEF IInv, GivenOK
  <1>2. CASE req.route = "content"
    <2>1. resp.status = Plan.status
      BY <1>2 DEF IInv, ContentOK
    <2> QED
      BY <1>1, <2>1, WindowPlanned DEF WindowOK, Window
  <1>3. CASE req.route = "version"
    <2>1. resp.status = 200
      BY <1>3 DEF IInv, VersionOK
    <2>2. Plan.status = 200
      BY <1>1, <1>3, VersionWindow
    <2> QED
      BY <1>1, <2>1, <2>2, WindowPlanned DEF WindowOK, Window
  <1> QED
    BY <1>1, <1>2, <1>3

\* The numbers of the window.
LEMMA WindowNumbers ==
  ASSUME IInv
  PROVE  /\ Base \in Nat /\ End \in Int /\ stop \in Nat /\ pos \in Nat
         /\ Len(resp.body) \in Nat /\ Plan.length \in Int
         /\ Sent(pos) \in Nat /\ (Sent(pos) > 0 => Base + Sent(pos) <= End)
         /\ Plan.length >= 0 => End = Base + Plan.length /\ Sent(pos) <= Plan.length
  <1>1. GivenOK /\ pos \in Long /\ resp.body \in Seq(Long)
    BY DEF IInv, Response
  <1>2. /\ Base \in Nat /\ stop \in Nat /\ pos \in Nat
        /\ Plan.length \in Int
    BY <1>1, WindowPlanned, CoreFacts DEF WindowOK, Long
  <1>3. Len(resp.body) \in Nat
    BY <1>1, LenProperties
  <1> QED
    BY <1>2, <1>3 DEF End, Sent, Above, Least

\* getContent() and getVersion(): whatever the core does with the range and
\* however it cuts the file into frames, the body is a prefix of the window and
\* no longer than announced.
THEOREM BodyExact == Spec => []BodyIsTheWindow
  <1>1. ASSUME IInv PROVE BodyIsTheWindow
    <2>1. CASE Len(resp.body) = 0
      <3>1. \A i \in 1 .. Len(resp.body) : FALSE
        BY <2>1
      <3>2. resp.length >= 0 => Len(resp.body) <= resp.length
        BY <1>1, <2>1 DEF IInv, Response
      <3> QED
        BY <3>1, <3>2 DEF BodyIsTheWindow
    <2>2. CASE Len(resp.body) # 0
      <3> DEFINE b == resp.body
      <3>1. /\ req.route \in {"content", "version"} /\ DownloadOK
            /\ ~(req.route = "content" /\ first) /\ ~(req.route = "version" /\ pos = 0)
        <4>1. /\ req.route \in {"content", "version", "put"}
              /\ req.route = "put" => UploadOK
              /\ req.route # "put" => DownloadOK
              /\ req.route = "content" /\ first => NoHeader
              /\ req.route = "version" /\ pos = 0 => NoHeader
          BY <1>1 DEF IInv, GivenOK
        <4>2. ~UploadOK /\ ~NoHeader
          BY <2>2, EmptyBody DEF UploadOK, NoHeader
        <4> QED
          BY <4>1, <4>2
      <3>2. resp.status \in {200, 206}
        BY <1>1, <2>2, <3>1 DEF DownloadOK, IInv, Response
      <3>3. Window = Base .. End - 1
        BY <1>1, <3>1, <3>2, WindowOfBody
      <3>4. /\ Base \in Nat /\ End \in Int /\ Len(b) \in Nat
            /\ Len(b) <= Sent(pos) /\ Base + Len(b) <= End
            /\ Plan.length >= 0 => Len(b) <= Plan.length
        BY <1>1, <2>2, <3>1, WindowNumbers DEF DownloadOK
      <3>5. \A i \in 1 .. Len(b) : b[i] = Base + i - 1
        BY <3>1 DEF DownloadOK, FromBase
      <3>6. resp.length >= 0 => Len(b) <= resp.length
        <4>1. CASE req.route = "content"
          BY <1>1, <3>1, <3>2, <3>4, <4>1 DEF IInv, ContentOK
        <4>2. CASE req.route = "version"
          BY <1>1, <3>1, <4>2 DEF IInv, VersionOK
        <4> QED
          BY <3>1, <4>1, <4>2
      <3> HIDE DEF b
      <3>7. ASSUME NEW i \in 1 .. Len(b)
            PROVE  /\ b[i] \in Window
                   /\ \A j \in Window : j < b[i] <=> \E k \in 1 .. i - 1 : b[k] = j
        <4>1. b[i] = Base + i - 1 /\ b[i] \in Window
          BY <3>3, <3>4, <3>5
        <4>2. ASSUME NEW j \in Window, j < b[i]
              PROVE  \E k \in 1 .. i - 1 : b[k] = j
          <5>1. j - Base + 1 \in 1 .. i - 1
            BY <3>3, <3>4, <4>1, <4>2
          <5>2. b[j - Base + 1] = Base + (j - Base + 1) - 1
            BY <3>4, <3>5, <5>1
          <5> QED
            BY <3>3, <3>4, <5>1, <5>2
        <4>3. ASSUME NEW j \in Window, NEW k \in 1 .. i - 1, b[k] = j
              PROVE  j < b[i]
          <5>1. k \in 1 .. Len(b) /\ k < i
            BY <3>4
          <5>2. b[k] = Base + k - 1
            BY <3>5, <5>1
          <5> QED
            BY <3>4, <4>1, <4>3, <5>1, <5>2
        <4> QED
          BY <4>1, <4>2, <4>3
      <3> QED
        BY <3>6, <3>7 DEF BodyIsTheWindow, b
    <2> QED
      BY <2>1, <2>2
  <1> QED
    BY <1>1, Inductive, PTL

\* A body with everything from Base to the end of the window is the window.
LEMMA FullBody ==
  ASSUME NEW b, Len(b) \in Nat, Base \in Nat, End \in Int,
         \A i \in 1 .. Len(b) : b[i] = Base + i - 1,
         Len(b) = Above(End, Base)
  PROVE  {b[i] : i \in 1 .. Len(b)} = Base .. End - 1
  <1>1. ASSUME NEW i \in 1 .. Len(b) PROVE b[i] \in Base .. End - 1
    BY <1>1 DEF Above
  <1>2. ASSUME NEW j \in Base .. End - 1 PROVE \E i \in 1 .. Len(b) : b[i] = j
    <2>1. j - Base + 1 \in 1 .. Len(b)
      BY <1>2 DEF Above
    <2>2. b[j - Base + 1] = Base + (j - Base + 1) - 1
      BY <2>1
    <2> QED
      BY <2>1, <2>2
  <1> QED
    BY <1>1, <1>2

\* A download that was not cut short has given a client that stayed the whole
\* window and exactly the announced length: the keep-alive connection is in step.
THEOREM Complete == Spec => []CompleteUnlessCut
  <1>1. ASSUME IInv, pc = "done", ~cut, client = "there", resp.status \in {200, 206}
        PROVE  /\ {resp.body[i] : i \in 1 .. Len(resp.body)} = Window
               /\ resp.length \in {-1, Len(resp.body)}
    <2>1. /\ req.route \in {"content", "version"} /\ DownloadOK /\ GivenOK
          /\ resp.body \in Seq(Long)
      <3>1. req.route \in {"content", "version", "put"}
        BY <1>1 DEF IInv, GivenOK
      <3>2. req.route # "put"
        BY <1>1 DEF IInv, UploadOK
      <3> QED
        BY <1>1, <3>1, <3>2 DEF IInv, Response
    <2>2. CASE NoHeader
      <3>1. Len(resp.body) = 0 /\ resp.status = 200 /\ resp.length = 0 /\ core.size = 0
        BY <1>1, <2>2 DEF NoHeader
      <3>2. Window = {}
        BY <3>1 DEF Window, Whole
      <3> QED
        BY <3>1, <3>2
    <2>3. CASE ~NoHeader
      <3>1. /\ ~(req.route = "content" /\ first) /\ ~(req.route = "version" /\ pos = 0)
            /\ req.route = "content" => ContentOK
            /\ req.route = "version" => VersionOK
        BY <1>1, <2>3 DEF IInv
      <3>2. Window = Base .. End - 1
        BY <1>1, <2>1, <3>1, WindowOfBody
      <3>3. /\ Base \in Nat /\ End \in Int /\ stop \in Nat /\ pos \in Nat
            /\ Len(resp.body) \in Nat /\ Plan.length \in Int
            /\ Sent(pos) \in Nat
            /\ Plan.length >= 0 => End = Base + Plan.length /\ Sent(pos) <= Plan.length
        BY <1>1, WindowNumbers
      <3>4. WindowOK
        BY <2>1, WindowPlanned
      <3>5. /\ Len(resp.body) = Sent(pos)
            /\ resp.length \in {-1, Plan.length}
            /\ pos >= stop \/ (Plan.length >= 0 /\ Sent(pos) = Plan.length)
        <4>1. CASE req.route = "content"
          <5>1. ContentOK /\ Plan.status # 416
            BY <1>1, <3>1, <4>1 DEF ContentOK
          <5> QED
            BY <1>1, <3>3, <5>1 DEF ContentOK
        <4>2. CASE req.route = "version"
          BY <1>1, <3>1, <4>2 DEF VersionOK
        <4> QED
          BY <2>1, <4>1, <4>2
      <3>6. Plan.length >= 0 \/ Plan.length = -1
        BY <3>3, <3>4 DEF WindowOK
      <3>7. Sent(pos) = Above(End, Base) /\ (Plan.length >= 0 => Sent(pos) = Plan.length)
        <4>1. CASE Plan.length >= 0
          <5>1. Base + Plan.length <= stop
            BY <3>3, <3>4, <4>1 DEF WindowOK
          <5> QED
            BY <3>3, <3>5, <4>1, <5>1 DEF Sent, Above, Least
        <4>2. CASE Plan.length < 0
          <5>1. End = stop
            BY <3>3, <4>2 DEF End
          <5> QED
            BY <3>3, <3>5, <4>2, <5>1 DEF Sent, Above, Least
        <4> QED
          BY <3>3, <4>1, <4>2
      <3>8. \A i \in 1 .. Len(resp.body) : resp.body[i] = Base + i - 1
        BY <2>1 DEF DownloadOK, FromBase
      <3>9. {resp.body[i] : i \in 1 .. Len(resp.body)} = Base .. End - 1
        BY <3>3, <3>5, <3>7, <3>8, FullBody
      <3>10. resp.length \in {-1, Len(resp.body)}
        BY <3>5, <3>6, <3>7
      <3> QED
        BY <3>2, <3>9, <3>10
    <2> QED
      BY <2>2, <2>3
  <1>2. IInv => CompleteUnlessCut
    BY <1>1 DEF CompleteUnlessCut
  <1> QED
    BY <1>2, Inductive, PTL

\* planRange(): with the total known, every header is answered as it says, up to
\* the largest numbers, and a malformed one with the whole file.
THEOREM RangeExact == Spec => []RangeAnsweredExactly
  <1>1. ASSUME IInv, req.route = "content", ~first, core.totals, core.size > 0
        PROVE  /\ ~RangeRequested => resp.status = 200
               /\ RangeRequested /\ Wanted = {} => resp.status = 416
               /\ RangeRequested /\ Wanted # {} =>
                    /\ resp.status = 206
                    /\ resp.from .. resp.to = Wanted
                    /\ resp.length = resp.to - resp.from + 1
    <2>1. GivenOK /\ ContentOK
      BY <1>1 DEF IInv
    <2>2. /\ resp.status = Plan.status /\ resp.from = Plan.from /\ resp.to = Plan.to
          /\ Plan.status # 416 => resp.length = Plan.length
      BY <2>1 DEF ContentOK
    <2>3. (asked.has <=> RangeRequested) /\ totalSize > 0
      BY <1>1, <2>1, AskedFacts, CoreFacts
    <2>4. ~asked.has => Plan.status = 200
      BY <2>1, WindowPlanned DEF WindowOK
    <2>5. asked.has => /\ Wanted = {} => Plan.status = 416
                       /\ Wanted # {} => /\ Plan.status = 206
                                         /\ Plan.from .. Plan.to = Wanted
                                         /\ Plan.length = Plan.to - Plan.from + 1
      BY <2>1, <2>3, WindowTotalled
    <2> QED
      BY <2>2, <2>3, <2>4, <2>5
  <1>2. RangeRequested \in BOOLEAN
    BY DEF RangeRequested
  <1>3. IInv => RangeAnsweredExactly
    BY <1>1, <1>2 DEF RangeAnsweredExactly
  <1> QED
    BY <1>3, Inductive, PTL
===============================================================================
