------------------------------- MODULE Content -------------------------------
(***************************************************************************)
(* One content request of the HTTP bridge: getContent(), getVersion() and  *)
(* putContent() of src/src/http_server.cpp, planRange()                    *)
(* (src/include/range_response.h), and streamFileDownload() and            *)
(* streamFileUpload() of src/src/grpc_client_wrapper.cpp.                  *)
(*                                                                         *)
(* A byte is its offset, so a body is a sequence of offsets.  The core is  *)
(* external: it may know byte ranges or not, report the total on its first *)
(* frame or not, cut a file into frames of any size, answer with an error  *)
(* frame, or break off.  It may answer an upload before it has all of it,  *)
(* and its answer may be lost after it has stored the file.  The client    *)
(* may leave at any time.                                                  *)
(***************************************************************************)
EXTENDS Integers, Sequences

CONSTANTS
  Size,      \* lengths a file or an upload may have
  Number,    \* numbers a Range header may hold
  LongMax,   \* the largest long
  MaxFrame   \* bytes in a frame, at most

ASSUME SizeAssumption == Size \subseteq 0 .. LongMax
ASSUME NumberAssumption == Number \subseteq 0 .. LongMax
ASSUME FrameAssumption == LongMax \in Nat /\ MaxFrame \in Nat \ {0}

Absent == -1

VARIABLES
  req,        \* the route, and the Range header: its two numbers
  core,       \* what the core is and holds (external)
  pc,         \* "reading" while the stream is open
  pos, stop,  \* the core streams the offsets from pos up to stop
  first,      \* no frame has been read
  skip,       \* bytes to drop before the window
  remaining,  \* bytes still owed to the client, -1 if that is unknown
  resp,       \* status, Content-Length, Content-Range and the body sent
  client,     \* "there" or "gone"
  cut,        \* history: the stream did not reach its end
  stored      \* the upload at the core: the bytes it has received, whether it has
              \* committed them, and its answer as the bridge will see it

vars == <<req, core, pc, pos, stop, first, skip, remaining, resp, client, cut, stored>>
given == <<req, core, stop>>

Least(a, b) == IF a <= b THEN a ELSE b

\* Signed arithmetic that overflows: the builds wrap.
wrap(x) == IF x > LongMax THEN x - 2 * (LongMax + 1) ELSE x

\* n bytes from offset a on.
Bytes(a, n) == [i \in 1 .. n |-> a + i - 1]

-----------------------------------------------------------------------------
(* The range a request asks for.                                           *)

NoRange == [has |-> FALSE, rs |-> -1, re |-> -1]

\* A header without a start, a suffix range for one, does not parse.  A negative
\* end, which no comparison below tells from none, is Absent too.
parseRange(h) ==
  IF h.start = Absent THEN NoRange ELSE [has |-> TRUE, rs |-> h.start, re |-> h.end]

\* Mutant: a range that ends before it starts is not malformed.
askedRangeAsIs(r) == IF r.route = "content" THEN parseRange(r.header) ELSE NoRange

\* What getContent() goes by; the version route knows no ranges.
askedRange(r) ==
  LET p == parseRange(r.header)
  IN  IF r.route # "content" \/ (p.has /\ p.re >= 0 /\ p.re < p.rs) THEN NoRange ELSE p

\* The length put into the request: 0 is "to the end".
askedLength(r) == IF r.has /\ r.re >= 0 THEN wrap(r.re - r.rs + 1) ELSE 0

\* Mutant: the end of the range is not held to the file.
planRangeUnclamped(r, total) ==
  IF ~r.has \/ total <= 0
  THEN [status |-> 200, length |-> IF total > 0 THEN total ELSE -1, from |-> -1, to |-> -1]
  ELSE IF r.rs >= total
  THEN [status |-> 416, length |-> -1, from |-> -1, to |-> -1]
  ELSE LET end == IF r.re >= 0 THEN r.re ELSE total - 1
       IN  [status |-> 206, length |-> end - r.rs + 1, from |-> r.rs, to |-> end]

\* from and to are the two ends in Content-Range, -1 if it has none.
planRange(r, total) ==
  IF ~r.has \/ total <= 0
  THEN [status |-> 200, length |-> IF total > 0 THEN total ELSE -1, from |-> -1, to |-> -1]
  ELSE IF r.rs >= total
  THEN [status |-> 416, length |-> -1, from |-> -1, to |-> -1]
  ELSE LET end == IF r.re >= 0 THEN Least(r.re, total - 1) ELSE total - 1
       IN  [status |-> 206, length |-> end - r.rs + 1, from |-> r.rs, to |-> end]

-----------------------------------------------------------------------------
(* The core (external).                                                    *)

asked == askedRange(req)

\* A range was applied: offset 0 and length 0 are what an unranged request has.
ranged == core.windows /\ asked.has /\ (asked.rs # 0 \/ askedLength(asked) # 0)

streamStart == IF ranged THEN asked.rs ELSE 0

\* A length that is not positive reads to the end, or is an error.
streamEnd ==
  IF ranged /\ askedLength(asked) > 0
  THEN Least(core.size, asked.rs + askedLength(asked))
  ELSE core.size

rangeLength == IF streamEnd > streamStart THEN streamEnd - streamStart ELSE 0

totalSize == IF core.totals THEN core.size ELSE 0

-----------------------------------------------------------------------------
Unsent == [status |-> 0, length |-> -1, from |-> -1, to |-> -1, body |-> <<>>]

TypeOK ==
  /\ pc \in {"reading", "uploading", "finishing", "done"}
  /\ pos \in 0 .. LongMax
  /\ first \in BOOLEAN
  /\ skip \in 0 .. LongMax
  /\ remaining \in -1 .. LongMax
  /\ resp.status \in {0, 200, 204, 206, 416, 500}
  /\ resp.length \in -1 .. LongMax
  /\ resp.body \in Seq(0 .. LongMax)
  /\ client \in {"there", "gone"}
  /\ cut \in BOOLEAN
  /\ stored \in [bytes : 0 .. LongMax, committed : BOOLEAN,
                 answer : {"none", "ok", "refused", "lost"}]

Init ==
  /\ req \in [route : {"content", "version", "put"},
              header : [start : Number \cup {Absent}, end : Number \cup {Absent}]]
  /\ core \in [size : Size, windows : BOOLEAN, totals : BOOLEAN]
  /\ pc = IF req.route = "put" THEN "uploading" ELSE "reading"
  /\ pos = IF req.route = "put" THEN 0 ELSE streamStart
  /\ stop = streamEnd
  /\ first = TRUE
  /\ skip = 0
  /\ remaining = -1
  /\ resp = Unsent
  /\ client = "there"
  /\ cut = FALSE
  /\ stored = [bytes |-> 0, committed |-> FALSE, answer |-> "none"]

-----------------------------------------------------------------------------
(* onMeta(): the response is planned from the first frame.                 *)

\* A core that windows without a total: what follows, of an unknown total.
planFirst ==
  IF asked.has /\ totalSize <= 0 /\ ranged
  THEN LET n == IF rangeLength > 0 THEN rangeLength ELSE -1
       IN  [status |-> 206, length |-> n, from |-> asked.rs,
            to |-> IF n > 0 THEN asked.rs + n - 1 ELSE -1]
  ELSE planRange(asked, totalSize)

\* Mutant: the prefix is left to the core, whatever it did.
prefixNone(status) == 0

\* A core that ignored the range streams from zero: the prefix is dropped here.
prefixToDrop(status) == IF status = 206 /\ ~ranged THEN asked.rs ELSE 0

\* A 416 goes out with an empty body.
Header(plan) ==
  [status |-> plan.status, length |-> IF plan.status = 416 THEN 0 ELSE plan.length,
   from |-> plan.from, to |-> plan.to, body |-> <<>>]

\* Mutant: what is still owed is not looked at.
writtenAll(n, owed) == n

\* How many of n bytes after the prefix go out.
written(n, owed) == IF owed >= 0 THEN Least(n, owed) ELSE n

\* onChunk() of getContent(), for n bytes from pos on, after the header hd with
\* the prefix s and the window of owed bytes: what is left of the three, and
\* whether the caller has had enough.  A write to a client that has left is lost.
onChunk(n, hd, s, owed) ==
  LET d == Least(s, n)
      w == IF n = d THEN 0 ELSE written(n - d, owed)
      more == IF client = "there" THEN hd.body \o Bytes(pos + d, w) ELSE hd.body
      left == IF owed >= 0 /\ n > d THEN owed - w ELSE owed
  IN  [hd |-> [hd EXCEPT !.body = more], skip |-> s - d, remaining |-> left,
       enough |-> n > d /\ owed >= 0 /\ left <= 0]

-----------------------------------------------------------------------------
(* streamFileDownload(): one action per frame, onMeta() and onChunk()      *)
(* included.                                                               *)

\* Only the first frame may come without data.
Chunk(n) == (n = 0 /\ first) \/ n \in 1 .. Least(MaxFrame, stop - pos)

\* A frame of getContent()'s stream; n is 0 for one with metadata only.
ContentFrame(n) ==
  LET plan == planFirst
      hd == IF first THEN Header(plan) ELSE resp
      s == IF first THEN prefixToDrop(plan.status) ELSE skip
      owed == IF first THEN plan.length ELSE remaining
      out == onChunk(n, hd, s, owed)
      refused == first /\ plan.status = 416
  IN  /\ pc = "reading" /\ req.route = "content"
      /\ Chunk(n)
      /\ first' = FALSE
      /\ pos' = pos + n
      /\ IF refused
         THEN resp' = hd /\ pc' = "done" /\ UNCHANGED <<skip, remaining>>
         ELSE /\ resp' = out.hd
              /\ skip' = out.skip
              /\ remaining' = out.remaining
              /\ pc' = IF out.enough THEN "done" ELSE pc
      /\ UNCHANGED <<given, client, cut, stored>>

\* A frame of getVersion()'s stream: the header goes out with the first bytes,
\* and a client that has left ends the stream.
VersionFrame(n) ==
  /\ pc = "reading" /\ req.route = "version"
  /\ Chunk(n)
  /\ first' = FALSE
  /\ pos' = pos + n
  /\ resp' = IF n = 0 THEN resp
             ELSE [resp EXCEPT !.status = 200,
                               !.body = IF client = "there" THEN @ \o Bytes(pos, n) ELSE @]
  /\ pc' = IF n > 0 /\ client = "gone" THEN "done" ELSE pc
  /\ UNCHANGED <<given, skip, remaining, client, cut, stored>>

\* An error is only an error response while no header is out.
AfterFailure == IF resp.status = 0 THEN [resp EXCEPT !.status = 500] ELSE resp

\* An error frame, or a stream whose status is not OK.
StreamFails ==
  /\ pc = "reading"
  /\ resp' = AfterFailure
  /\ cut' = TRUE
  /\ pc' = "done"
  /\ UNCHANGED <<given, pos, first, skip, remaining, client, stored>>

\* If no header is out, there was no content.
AfterSuccess == IF resp.status = 0 THEN [resp EXCEPT !.status = 200, !.length = 0] ELSE resp

\* The end of the stream.  The core sends no frame at all only for a file
\* without content.
StreamEnds ==
  /\ pc = "reading"
  /\ pos >= stop
  /\ first => core.size = 0
  /\ resp' = AfterSuccess
  /\ pc' = "done"
  /\ UNCHANGED <<given, pos, first, skip, remaining, client, cut, stored>>

\* A status CANCELLED that the bridge did not ask for, as from a core that shuts
\* down, is not told from the bridge's own cancelling and is no error.
StreamCancelled ==
  /\ pc = "reading"
  /\ resp' = AfterSuccess
  /\ cut' = TRUE
  /\ pc' = "done"
  /\ UNCHANGED <<given, pos, first, skip, remaining, client, stored>>

-----------------------------------------------------------------------------
(* putContent() over streamFileUpload(); pos counts the bytes read.        *)

\* Once the call is over, gRPC takes no more chunks or drops the ones it takes.
CallOver == stored.answer # "none"

\* A chunk of the body is read, and Write() takes it.
UploadChunk(n) ==
  /\ pc = "uploading"
  /\ n \in 1 .. Least(MaxFrame, core.size - pos)
  /\ pos' = pos + n
  /\ stored' = IF CallOver THEN stored ELSE [stored EXCEPT !.bytes = @ + n]
  /\ first' = FALSE
  /\ UNCHANGED <<given, pc, skip, remaining, resp, client, cut>>

\* Mutant: a failed Write() is the end of the upload, and an error.
WriteFailsAtOnce(n) ==
  /\ pc = "uploading"
  /\ n \in 1 .. Least(MaxFrame, core.size - pos)
  /\ CallOver
  /\ pos' = pos + n
  /\ first' = FALSE
  /\ resp' = [resp EXCEPT !.status = 500]
  /\ pc' = "done"
  /\ UNCHANGED <<given, skip, remaining, client, cut, stored>>

\* A chunk is read, and Write() fails.  That only ends the loop.
WriteFails(n) ==
  /\ pc = "uploading"
  /\ n \in 1 .. Least(MaxFrame, core.size - pos)
  /\ CallOver
  /\ pos' = pos + n
  /\ first' = FALSE
  /\ pc' = "finishing"
  /\ UNCHANGED <<given, skip, remaining, resp, client, cut, stored>>

\* The body is at its end, as far as a read can tell: all of it was read, or the
\* client has left.  An empty body goes to the core as a request without data.
BodyEnds ==
  /\ pc = "uploading"
  /\ pos = core.size \/ client = "gone"
  /\ pc' = "finishing"
  /\ UNCHANGED <<given, pos, first, skip, remaining, resp, client, cut, stored>>

\* The core ends the call: it commits what it has, or refuses.  It need not have
\* waited for the end.
CoreAnswers(ok) ==
  /\ pc \in {"uploading", "finishing"}
  /\ ~CallOver
  /\ stored' = [stored EXCEPT !.committed = ok, !.answer = IF ok THEN "ok" ELSE "refused"]
  /\ cut' = (cut \/ pc = "uploading")
  /\ UNCHANGED <<given, pc, pos, first, skip, remaining, resp, client>>

\* The connection to the core breaks and the answer with it.  A core that had
\* not answered commits what it has or throws it away.
CallBreaks(commits) ==
  /\ pc \in {"uploading", "finishing"}
  /\ stored.answer # "lost"
  /\ CallOver => commits = stored.committed
  /\ stored' = [stored EXCEPT !.committed = commits, !.answer = "lost"]
  /\ cut' = TRUE
  /\ UNCHANGED <<given, pc, pos, first, skip, remaining, resp, client>>

uploadStatus(answer) == IF answer = "ok" THEN 204 ELSE 500

\* WritesDone() and Finish(): the answer of the core alone decides.
UploadFinishes ==
  /\ pc = "finishing"
  /\ CallOver
  /\ resp' = [resp EXCEPT !.status = uploadStatus(stored.answer)]
  /\ pc' = "done"
  /\ UNCHANGED <<given, pos, first, skip, remaining, client, cut, stored>>

ClientLeaves ==
  /\ pc # "done"
  /\ client = "there"
  /\ client' = "gone"
  /\ UNCHANGED <<given, pc, pos, first, skip, remaining, resp, cut, stored>>

\* The request is over.
Done == pc = "done" /\ UNCHANGED vars

Next ==
  \/ \E n \in 0 .. MaxFrame : ContentFrame(n)
  \/ \E n \in 0 .. MaxFrame : VersionFrame(n)
  \/ StreamFails
  \/ StreamEnds
  \/ StreamCancelled
  \/ \E n \in 1 .. MaxFrame : UploadChunk(n)
  \/ \E n \in 1 .. MaxFrame : WriteFails(n)
  \/ BodyEnds
  \/ \E ok \in BOOLEAN : CoreAnswers(ok)
  \/ \E commits \in BOOLEAN : CallBreaks(commits)
  \/ UploadFinishes
  \/ ClientLeaves
  \/ Done

Spec == Init /\ [][Next]_vars

-----------------------------------------------------------------------------
(* What a content request promises.  The offsets it asks for are defined    *)
(* here from the header and the file alone.                                 *)

Whole == 0 .. core.size - 1

RangeRequested ==
  /\ req.route = "content"
  /\ req.header.start # Absent
  /\ req.header.end = Absent \/ req.header.end >= req.header.start

Wanted ==
  {i \in Whole : i >= req.header.start /\ (req.header.end = Absent \/ i <= req.header.end)}

Window == IF resp.status = 206 THEN Wanted ELSE Whole

(* getContent()'s onMeta() and onChunk(): whatever the core does with the    *)
(* range, however it cuts the file into frames and whenever it breaks off,   *)
(* the body is the beginning of what the status line and the Range header    *)
(* stand for: no byte of before the window, none twice, none left out, and   *)
(* never more bytes than Content-Length has announced.                       *)
BodyIsTheWindow ==
  LET b == resp.body IN
  /\ \A i \in 1 .. Len(b) :
       b[i] \in Window /\ \A j \in Window : j < b[i] <=> \E k \in 1 .. i - 1 : b[k] = j
  /\ resp.length >= 0 => Len(b) <= resp.length

(* A stream that reached its end, or was cancelled because the window was    *)
(* complete, has given a client that is still there the whole of the window, *)
(* and exactly the announced length: a keep-alive client waits for the rest  *)
(* of it otherwise.                                                          *)
CompleteUnlessCut ==
  pc = "done" /\ ~cut /\ client = "there" /\ resp.status \in {200, 206} =>
    /\ {resp.body[i] : i \in 1 .. Len(resp.body)} = Window
    /\ resp.length \in {-1, Len(resp.body)}

(* "206 with an exact `Content-Range: bytes start-end/total` and             *)
(* Content-Length, or 416": once the core has reported the total of a file   *)
(* that has content, every range is answered as the header says, up to the   *)
(* largest numbers a header can hold, and a malformed one with the whole.    *)
RangeAnsweredExactly ==
  (req.route = "content" /\ ~first /\ core.totals /\ core.size > 0) =>
    CASE ~RangeRequested                 -> resp.status = 200
      [] RangeRequested /\ Wanted = {}   -> resp.status = 416
      [] RangeRequested /\ Wanted # {}   -> /\ resp.status = 206
                                           /\ resp.from .. resp.to = Wanted
                                           /\ resp.length = resp.to - resp.from + 1

(* streamFileUpload(): an upload that is acknowledged is committed, and what *)
(* is committed is every byte that was read, up to the end of the body       *)
(* unless the client left before it (the bridge cannot tell the two apart);  *)
(* the one exception is a core that says OK before the body is at its end.   *)
(* An upload that is answered with an error is not stored, unless the        *)
(* connection to the core broke: the client of a 500 must not conclude that  *)
(* nothing happened.                                                         *)
AcknowledgedUploadIsWhole ==
  req.route = "put" =>
    /\ resp.status = 204 => stored.committed
    /\ resp.status = 204 /\ ~cut =>
         stored.bytes = pos /\ (pos = core.size \/ client = "gone")
    /\ resp.status = 500 /\ stored.committed => stored.answer = "lost"
===============================================================================
