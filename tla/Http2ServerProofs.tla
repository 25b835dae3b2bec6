--------------------------- MODULE Http2ServerProofs ---------------------------
(***************************************************************************)
(* Two proofs about Http2Server, for any number of clients, streams,       *)
(* chunks and parts: a request is handled with its own body, and the       *)
(* string that handle_post_data allocates for the response is there for    *)
(* every call of its read_callback.                                        *)
(*                                                                         *)
(* The first follows the body of one stream from the client to             *)
(* stream_data: the chunks collected, those in the buffer of read() and    *)
(* those under way are the first, the next and the last ones of it.        *)
(***************************************************************************)
EXTENDS Http2Server, SequenceTheorems, TLAPS

\* A chunk of s, the end of a body that ends in a DATA frame, a chunk's number, and a
\* request whose body may still grow.
IsChunk(x, s) == x.kind = "chunk" /\ x.stream = s
IsEnd(x, s) == x.kind = "data" /\ x.stream = s
Number(x) == x.chunk[3]
Early(req) == req \in {"none", "open"}

\* What c has sent and nghttp2 has not taken, the chunks of s that stand in stream_data,
\* and the connections that have not been served to their end.
Flight(c) == IF c = current THEN input \o net[c] ELSE net[c]
Base(c, s) == IF c = current /\ s \in DOMAIN streamData THEN Len(streamData[s]) ELSE 0
Live(c) == c = current \/ conn[c] = "none" \/ \E i \in 1 .. Len(backlog) : backlog[i] = c
\* The first n chunks of a body.
Body(c, s, n) == [i \in 1 .. n |-> <<c, s, i>>]

\* The chunks of s in f are c's own and bear, in this order, base + 1, base + 2, ...
Consecutive(f, c, s, base) ==
    \A j \in 1 .. Len(f) : IsChunk(f[j], s) =>
        /\ f[j].chunk = <<c, s, Number(f[j])>> /\ Number(f[j]) > base
        /\ \A i \in 1 .. j - 1 : IsChunk(f[i], s) => Number(f[i]) < Number(f[j])
        /\ Number(f[j]) > base + 1 =>
             \E i \in 1 .. j - 1 : IsChunk(f[i], s) /\ Number(f[i]) = Number(f[j]) - 1
\* All up to number k have been collected or stand among the first m of f.
Within(f, m, s, base, k) ==
    k = base \/ \E i \in 1 .. m : IsChunk(f[i], s) /\ Number(f[i]) = k
\* The rest f of a request of which base chunks have been collected and k were sent: the
\* chunks follow one another, none bears more than k, the end of the body stands behind
\* all k of them and ends it, and while the client goes on none is missing.
StreamOk(f, c, s, base, k, req, up) ==
    /\ Consecutive(f, c, s, base)
    /\ \A j \in 1 .. Len(f) : IsChunk(f[j], s) => Number(f[j]) <= k
    /\ \A j \in 1 .. Len(f) : IsEnd(f[j], s) =>
         /\ Within(f, j - 1, s, base, k) /\ ~Early(req)
         /\ \A i \in j + 1 .. Len(f) : ~IsChunk(f[i], s) /\ ~IsEnd(f[i], s)
    /\ Early(req) /\ up => Within(f, Len(f), s, base, k)

\* The types, and where the thread, the backlog and the client served stand together.
Kinds == {"headers", "chunk", "data", "trailers", "window", "rst", "bad"}
BPiece == [kind : Kinds, stream : Streams, chunk : Clients \X Streams \X Nat]
Requests == {"none", "open", "endedByData", "endedElsewhere", "reset"}
BodyTypes ==
    /\ conn \in [Clients -> {"none", "open", "closed", "reset"}]
    /\ backlog \in Seq(Clients)
    /\ net \in [Clients -> Seq(BPiece)] /\ input \in Seq(BPiece)
    /\ request \in [Clients -> [Streams -> Requests]]
    /\ chunks \in [Clients -> [Streams -> Nat]]
    /\ current \in Clients \cup {None}
    /\ DOMAIN streamData \subseteq Streams
    /\ DOMAIN handled = Clients /\ \A c \in Clients : DOMAIN handled[c] = Streams
    /\ handled = [c \in Clients |-> [s \in Streams |-> handled[c][s]]]

Places ==
    /\ main \in {"accept", "greet", "read", "process", "answer", "flush", "cleanup", "killed"}
    /\ main = "accept" => current = None
    /\ main \notin {"accept", "killed"} => current \in Clients
    /\ main \in {"accept", "greet", "read", "flush"} => input = << >>
    /\ \A i \in 1 .. Len(backlog) : backlog[i] # current /\ conn[backlog[i]] # "none"
    /\ \A i, j \in 1 .. Len(backlog) : backlog[i] = backlog[j] => i = j
    /\ current \in Clients => conn[current] # "none"

\* Every stream of every connection that is still to be served is on its way; what has
\* been collected is a beginning of the body; and what has been handled was all of it.
Ok(c, s) == StreamOk(Flight(c), c, s, Base(c, s), chunks[c][s], request[c][s],
                     conn[c] \in {"none", "open"})
InFlight == \A c \in Clients : Live(c) => \A s \in Streams : Ok(c, s)
Collected == \A s \in DOMAIN streamData :
                /\ Len(streamData[s]) \in Nat
                /\ streamData[s] = Body(current, s, Len(streamData[s]))
HandledWell == \A c \in Clients, s \in Streams : handled[c][s] # None =>
                  handled[c][s] = Body(c, s, chunks[c][s]) /\ ~Early(request[c][s])

BodyInv == BodyTypes /\ Places /\ InFlight /\ Collected /\ HandledWell

-------------------------------------------------------------------------------
\* g is f without its first element.
Shifted(g, f) == /\ Len(f) \in Nat /\ Len(g) \in Nat /\ Len(f) = Len(g) + 1
                 /\ \A i \in 1 .. Len(g) : g[i] = f[i + 1]

Numbered(f) == \A i \in 1 .. Len(f) : Number(f[i]) \in Nat

\* Taking the first piece, when it is no chunk of s, leaves what stands among the others.
LEMMA WithinShifted ==
  ASSUME NEW f, NEW g, Shifted(g, f), NEW s, NEW base, NEW k, NEW m \in 0 .. Len(g),
         ~IsChunk(f[1], s), Within(f, m + 1, s, base, k)
  PROVE  Within(g, m, s, base, k)
<1> SUFFICES ASSUME k # base PROVE \E i \in 1 .. m : IsChunk(g[i], s) /\ Number(g[i]) = k
  BY DEF Within
<1>1. PICK i \in 1 .. m + 1 : IsChunk(f[i], s) /\ Number(f[i]) = k
  BY DEF Within
<1>2. i # 1
  BY <1>1
<1>3. i - 1 \in 1 .. m /\ i - 1 \in 1 .. Len(g) /\ (i - 1) + 1 = i
  BY <1>2 DEF Shifted
<1>4. g[i - 1] = f[i]
  BY <1>3 DEF Shifted
<1> QED
  BY <1>1, <1>3, <1>4

\* Another stream than that of a chunk does not notice that the piece is taken.
LEMMA EatenOther ==
  ASSUME NEW f, NEW g, Shifted(g, f), NEW c, NEW s, NEW base, NEW k, NEW req, NEW up,
         StreamOk(f, c, s, base, k, req, up), ~IsChunk(f[1], s)
  PROVE  StreamOk(g, c, s, base, k, req, up)
<1>1. ASSUME NEW j \in 1 .. Len(g) PROVE j + 1 \in 1 .. Len(f) /\ g[j] = f[j + 1]
  BY DEF Shifted
<1>2. ASSUME NEW j \in 1 .. Len(g), IsChunk(g[j], s), NEW i \in 1 .. j - 1, IsChunk(g[i], s)
      PROVE  Number(g[i]) < Number(g[j])
  <2>1. i \in 1 .. Len(g) /\ i + 1 \in 1 .. (j + 1) - 1
    BY DEF Shifted
  <2>2. /\ IsChunk(f[j + 1], s) /\ IsChunk(f[i + 1], s)
        /\ g[i] = f[i + 1] /\ g[j] = f[j + 1] /\ j + 1 \in 1 .. Len(f)
    BY <1>1, <1>2, <2>1
  <2> QED BY <2>1, <2>2 DEF StreamOk, Consecutive
<1>3. ASSUME NEW j \in 1 .. Len(g), IsChunk(g[j], s), Number(g[j]) > base + 1
      PROVE  \E i \in 1 .. j - 1 : IsChunk(g[i], s) /\ Number(g[i]) = Number(g[j]) - 1
  <2>1. j + 1 \in 1 .. Len(f) /\ g[j] = f[j + 1]
    BY <1>1
  <2>2. PICK i \in 1 .. (j + 1) - 1 : IsChunk(f[i], s) /\ Number(f[i]) = Number(f[j + 1]) - 1
    BY <1>3, <2>1 DEF StreamOk, Consecutive
  <2>3. i # 1
    BY <2>2
  <2>4. i - 1 \in 1 .. j - 1 /\ i - 1 \in 1 .. Len(g) /\ (i - 1) + 1 = i
    BY <2>3 DEF Shifted
  <2>5. g[i - 1] = f[i]
    BY <1>1, <2>4
  <2> QED BY <2>1, <2>2, <2>4, <2>5
<1>4. Consecutive(g, c, s, base)
  <2>1. ASSUME NEW j \in 1 .. Len(g), IsChunk(g[j], s)
        PROVE  g[j].chunk = <<c, s, Number(g[j])>> /\ Number(g[j]) > base
    BY <1>1, <2>1 DEF StreamOk, Consecutive
  <2> QED BY <1>2, <1>3, <2>1 DEF Consecutive
<1>5. \A j \in 1 .. Len(g) : IsChunk(g[j], s) => Number(g[j]) <= k
  BY <1>1 DEF StreamOk
<1>6. ASSUME NEW j \in 1 .. Len(g), IsEnd(g[j], s)
      PROVE  /\ Within(g, j - 1, s, base, k) /\ ~Early(req)
             /\ \A i \in j + 1 .. Len(g) : ~IsChunk(g[i], s) /\ ~IsEnd(g[i], s)
  <2>1. j + 1 \in 1 .. Len(f) /\ IsEnd(f[j + 1], s)
    BY <1>1, <1>6
  <2>2. /\ Within(f, (j + 1) - 1, s, base, k) /\ ~Early(req)
        /\ \A i \in (j + 1) + 1 .. Len(f) : ~IsChunk(f[i], s) /\ ~IsEnd(f[i], s)
    BY <2>1 DEF StreamOk
  <2>3. (j + 1) - 1 = (j - 1) + 1 /\ j - 1 \in 0 .. Len(g)
    BY DEF Shifted
  <2>4. Within(g, j - 1, s, base, k)
    BY <2>2, <2>3, WithinShifted
  <2>5. ASSUME NEW i \in j + 1 .. Len(g) PROVE ~IsChunk(g[i], s) /\ ~IsEnd(g[i], s)
    <3>1. i \in 1 .. Len(g) /\ i + 1 \in (j + 1) + 1 .. Len(f)
      BY DEF Shifted
    <3> QED BY <1>1, <2>2, <3>1
  <2> QED BY <2>2, <2>4, <2>5
<1>7. Early(req) /\ up => Within(g, Len(g), s, base, k)
  <2>1. Len(g) \in 0 .. Len(g) /\ Len(g) + 1 = Len(f)
    BY DEF Shifted
  <2>2. Early(req) /\ up => Within(f, Len(g) + 1, s, base, k)
    BY <2>1 DEF StreamOk
  <2> QED BY <2>1, <2>2, WithinShifted
<1> QED
  BY <1>4, <1>5, <1>6, <1>7 DEF StreamOk

\* A chunk that is taken is the one that follows those collected.
LEMMA FirstNumber ==
  ASSUME NEW f, NEW c, NEW s, NEW base \in Nat, NEW k \in Nat, NEW req, NEW up,
         Len(f) \in Nat \ {0}, Number(f[1]) \in Nat,
         StreamOk(f, c, s, base, k, req, up), IsChunk(f[1], s)
  PROVE  Number(f[1]) = base + 1 /\ f[1].chunk = <<c, s, base + 1>> /\ base + 1 <= k
<1>1. 1 \in 1 .. Len(f) /\ 1 .. 1 - 1 = {}
  OBVIOUS
<1>2. /\ f[1].chunk = <<c, s, Number(f[1])>> /\ Number(f[1]) > base
      /\ Number(f[1]) > base + 1 =>
           \E i \in 1 .. 1 - 1 : IsChunk(f[i], s) /\ Number(f[i]) = Number(f[1]) - 1
      /\ Number(f[1]) <= k
  BY <1>1, Zenon DEF StreamOk, Consecutive
<1>3. ~(Number(f[1]) > base + 1)
  BY <1>1, <1>2
<1>4. Number(f[1]) = base + 1
  BY <1>2, <1>3
<1> QED
  BY <1>2, <1>4

\* When it has been collected, the rest follows it.
LEMMA EatenChunk ==
  ASSUME NEW f, NEW g, Shifted(g, f), Numbered(f),
         NEW c, NEW s, NEW base \in Nat, NEW k \in Nat, NEW req, NEW up,
         StreamOk(f, c, s, base, k, req, up), IsChunk(f[1], s)
  PROVE  StreamOk(g, c, s, base + 1, k, req, up)
<1>0. Number(f[1]) = base + 1 /\ base + 1 <= k /\ 1 \in 1 .. Len(f)
  <2>1. Len(f) \in Nat \ {0} /\ 1 \in 1 .. Len(f)
    BY DEF Shifted
  <2>2. Number(f[1]) \in Nat
    BY <2>1 DEF Numbered
  <2> QED BY <2>1, <2>2, FirstNumber
<1>1. ASSUME NEW j \in 1 .. Len(g)
      PROVE  j + 1 \in 1 .. Len(f) /\ g[j] = f[j + 1] /\ Number(f[j + 1]) \in Nat
  BY DEF Shifted, Numbered
<1>2. ASSUME NEW j \in 1 .. Len(g), IsChunk(g[j], s), NEW i \in 1 .. j - 1, IsChunk(g[i], s)
      PROVE  Number(g[i]) < Number(g[j])
  <2>1. i \in 1 .. Len(g) /\ i + 1 \in 1 .. (j + 1) - 1
    BY DEF Shifted
  <2>2. /\ IsChunk(f[j + 1], s) /\ IsChunk(f[i + 1], s)
        /\ g[i] = f[i + 1] /\ g[j] = f[j + 1] /\ j + 1 \in 1 .. Len(f)
    BY <1>1, <1>2, <2>1
  <2> QED BY <2>1, <2>2 DEF StreamOk, Consecutive
<1>3. ASSUME NEW j \in 1 .. Len(g), IsChunk(g[j], s), Number(g[j]) > (base + 1) + 1
      PROVE  \E i \in 1 .. j - 1 : IsChunk(g[i], s) /\ Number(g[i]) = Number(g[j]) - 1
  <2>1. j + 1 \in 1 .. Len(f) /\ g[j] = f[j + 1] /\ Number(g[j]) \in Nat
        /\ Number(g[j]) > base + 1
    <3>1. j + 1 \in 1 .. Len(f) /\ g[j] = f[j + 1] /\ Number(g[j]) \in Nat
      BY <1>1
    <3> HIDE DEF IsChunk
    <3> QED BY <1>3, <3>1
  <2>2. PICK i \in 1 .. (j + 1) - 1 : IsChunk(f[i], s) /\ Number(f[i]) = Number(f[j + 1]) - 1
    <3>1. IsChunk(f[j + 1], s) /\ Number(f[j + 1]) > base + 1
      BY <1>3, <2>1
    <3>2. Consecutive(f, c, s, base)
      BY DEF StreamOk
    <3> QED BY <2>1, <3>1, <3>2, Zenon DEF Consecutive
  <2>3. i # 1
    <3>1. Number(f[i]) = Number(g[j]) - 1 /\ Number(g[j]) - 1 # base + 1
      BY <1>3, <2>1, <2>2
    <3> QED BY <1>0, <3>1
  <2>4. i - 1 \in 1 .. j - 1 /\ i - 1 \in 1 .. Len(g) /\ (i - 1) + 1 = i
    BY <2>3 DEF Shifted
  <2>5. g[i - 1] = f[i]
    BY <1>1, <2>4
  <2> QED BY <2>1, <2>2, <2>4, <2>5
<1>4. Consecutive(g, c, s, base + 1)
  <2>1. ASSUME NEW j \in 1 .. Len(g), IsChunk(g[j], s)
        PROVE  g[j].chunk = <<c, s, Number(g[j])>> /\ Number(g[j]) > base + 1
    <3>1. j + 1 \in 1 .. Len(f) /\ g[j] = f[j + 1] /\ 1 \in 1 .. (j + 1) - 1
      BY <1>1
    <3>2. f[j + 1].chunk = <<c, s, Number(f[j + 1])>> /\ Number(f[1]) < Number(f[j + 1])
      BY <2>1, <3>1 DEF StreamOk, Consecutive
    <3> QED BY <1>0, <3>1, <3>2
  <2> QED BY <1>2, <1>3, <2>1 DEF Consecutive
<1>5. \A j \in 1 .. Len(g) : IsChunk(g[j], s) => Number(g[j]) <= k
  BY <1>1 DEF StreamOk
<1>6. ASSUME NEW m \in 0 .. Len(g), Within(f, m + 1, s, base, k)
      PROVE  Within(g, m, s, base + 1, k)
  <2>1. PICK i \in 1 .. m + 1 : IsChunk(f[i], s) /\ Number(f[i]) = k
    BY <1>0, <1>6 DEF Within
  <2>2. CASE i = 1
    BY <1>0, <2>1, <2>2 DEF Within
  <2>3. CASE i # 1
    <3>1. i - 1 \in 1 .. m /\ i - 1 \in 1 .. Len(g) /\ (i - 1) + 1 = i
      BY <2>3 DEF Shifted
    <3>2. g[i - 1] = f[i]
      BY <1>1, <3>1
    <3> QED BY <2>1, <3>1, <3>2 DEF Within
  <2> QED BY <2>2, <2>3
<1>7. ASSUME NEW j \in 1 .. Len(g), IsEnd(g[j], s)
      PROVE  /\ Within(g, j - 1, s, base + 1, k) /\ ~Early(req)
             /\ \A i \in j + 1 .. Len(g) : ~IsChunk(g[i], s) /\ ~IsEnd(g[i], s)
  <2>1. j + 1 \in 1 .. Len(f) /\ IsEnd(f[j + 1], s)
    BY <1>1, <1>7
  <2>2. /\ Within(f, (j + 1) - 1, s, base, k) /\ ~Early(req)
        /\ \A i \in (j + 1) + 1 .. Len(f) : ~IsChunk(f[i], s) /\ ~IsEnd(f[i], s)
    BY <2>1 DEF StreamOk
  <2>3. (j + 1) - 1 = (j - 1) + 1 /\ j - 1 \in 0 .. Len(g)
    BY DEF Shifted
  <2>4. Within(g, j - 1, s, base + 1, k)
    BY <1>6, <2>2, <2>3
  <2>5. ASSUME NEW i \in j + 1 .. Len(g) PROVE ~IsChunk(g[i], s) /\ ~IsEnd(g[i], s)
    <3>1. i \in 1 .. Len(g) /\ i + 1 \in (j + 1) + 1 .. Len(f)
      BY DEF Shifted
    <3> QED BY <1>1, <2>2, <3>1
  <2> QED BY <2>2, <2>4, <2>5
<1>8. Early(req) /\ up => Within(g, Len(g), s, base + 1, k)
  <2>1. Len(g) \in 0 .. Len(g) /\ Len(g) + 1 = Len(f)
    BY DEF Shifted
  <2>2. Early(req) /\ up => Within(f, Len(g) + 1, s, base, k)
    BY <2>1 DEF StreamOk
  <2> QED BY <1>6, <2>1, <2>2
<1> QED
  BY <1>4, <1>5, <1>7, <1>8 DEF StreamOk

\* At the end of the body all of it is there, and nothing of the stream follows.
LEMMA EatenEnd ==
  ASSUME NEW f, NEW g, Shifted(g, f), NEW c, NEW s, NEW base, NEW k, NEW req, NEW up,
         StreamOk(f, c, s, base, k, req, up), IsEnd(f[1], s)
  PROVE  k = base /\ ~Early(req) /\ \A b : StreamOk(g, c, s, b, k, req, up)
<1>1. 1 \in 1 .. Len(f) /\ 1 .. 1 - 1 = {}
  BY DEF Shifted
<1>2. /\ Within(f, 1 - 1, s, base, k) /\ ~Early(req)
      /\ \A i \in 1 + 1 .. Len(f) : ~IsChunk(f[i], s) /\ ~IsEnd(f[i], s)
  BY <1>1 DEF StreamOk
<1>3. ASSUME NEW j \in 1 .. Len(g) PROVE ~IsChunk(g[j], s) /\ ~IsEnd(g[j], s)
  <2>1. j + 1 \in 1 + 1 .. Len(f) /\ g[j] = f[j + 1]
    BY DEF Shifted
  <2> QED BY <1>2, <2>1
<1>4. k = base
  BY <1>1, <1>2 DEF Within
<1>5. ASSUME NEW b PROVE StreamOk(g, c, s, b, k, req, up)
  BY <1>2, <1>3 DEF StreamOk, Consecutive
<1> QED
  BY <1>2, <1>4, <1>5

-------------------------------------------------------------------------------
\* h is f with x behind it.
Added(h, f, x) == /\ Len(f) \in Nat /\ Len(h) = Len(f) + 1 /\ h[Len(f) + 1] = x
                  /\ \A i \in 1 .. Len(f) : h[i] = f[i]

\* A piece behind the others hides none of them.
LEMMA WithinAdded ==
  ASSUME NEW f, NEW h, NEW x, Added(h, f, x), NEW s, NEW base, NEW k, NEW m \in 0 .. Len(f)
  PROVE  /\ Within(f, m, s, base, k) => Within(h, m, s, base, k)
         /\ Within(f, m, s, base, k) => Within(h, m + 1, s, base, k)
<1>1. ASSUME NEW i \in 1 .. m PROVE h[i] = f[i] /\ i \in 1 .. m + 1
  BY DEF Added
<1> QED
  BY <1>1 DEF Within

\* A piece of another stream, or one that is neither chunk nor end.
LEMMA AddedOther ==
  ASSUME NEW f, NEW h, NEW x, Added(h, f, x), NEW c, NEW s, NEW base, NEW k, NEW req,
         NEW up, NEW next, Early(next) => Early(req),
         StreamOk(f, c, s, base, k, req, up), ~IsChunk(x, s), ~IsEnd(x, s)
  PROVE  StreamOk(h, c, s, base, k, next, up)
<1>1. ASSUME NEW j \in 1 .. Len(h), IsChunk(h[j], s) \/ IsEnd(h[j], s)
      PROVE  j \in 1 .. Len(f) /\ h[j] = f[j] /\ \A i \in 1 .. j - 1 : h[i] = f[i]
  BY <1>1 DEF Added
<1>2. Consecutive(h, c, s, base)
  <2> SUFFICES ASSUME NEW j \in 1 .. Len(h), IsChunk(h[j], s)
               PROVE  /\ h[j].chunk = <<c, s, Number(h[j])>> /\ Number(h[j]) > base
                      /\ \A i \in 1 .. j - 1 : IsChunk(h[i], s) => Number(h[i]) < Number(h[j])
                      /\ Number(h[j]) > base + 1 =>
                           \E i \in 1 .. j - 1 : IsChunk(h[i], s)
                                                 /\ Number(h[i]) = Number(h[j]) - 1
    BY DEF Consecutive
  <2>1. j \in 1 .. Len(f) /\ h[j] = f[j] /\ \A i \in 1 .. j - 1 : h[i] = f[i]
    BY <1>1
  <2> QED BY <2>1 DEF StreamOk, Consecutive
<1>3. \A j \in 1 .. Len(h) : IsChunk(h[j], s) => Number(h[j]) <= k
  BY <1>1 DEF StreamOk
<1>4. ASSUME NEW j \in 1 .. Len(h), IsEnd(h[j], s)
      PROVE  /\ Within(h, j - 1, s, base, k) /\ ~Early(next)
             /\ \A i \in j + 1 .. Len(h) : ~IsChunk(h[i], s) /\ ~IsEnd(h[i], s)
  <2>1. j \in 1 .. Len(f) /\ IsEnd(f[j], s) /\ j - 1 \in 0 .. Len(f)
    BY <1>1, <1>4 DEF Added
  <2>2. /\ Within(f, j - 1, s, base, k) /\ ~Early(req)
        /\ \A i \in j + 1 .. Len(f) : ~IsChunk(f[i], s) /\ ~IsEnd(f[i], s)
    BY <2>1 DEF StreamOk
  <2>3. ASSUME NEW i \in j + 1 .. Len(h) PROVE ~IsChunk(h[i], s) /\ ~IsEnd(h[i], s)
    <3>1. (i \in j + 1 .. Len(f) /\ h[i] = f[i]) \/ h[i] = x
      BY <2>1 DEF Added
    <3> QED BY <2>2, <3>1
  <2> QED BY <2>1, <2>2, <2>3, WithinAdded
<1>5. Early(next) /\ up => Within(h, Len(h), s, base, k)
  <2>1. Len(f) \in 0 .. Len(f) /\ Len(h) = Len(f) + 1
    BY DEF Added
  <2> QED BY <2>1, WithinAdded DEF StreamOk
<1> QED
  BY <1>2, <1>3, <1>4, <1>5 DEF StreamOk

\* Another piece of the body.
LEMMA AddedChunk ==
  ASSUME NEW f, NEW h, NEW x, Added(h, f, x), Numbered(f),
         NEW c, NEW s, NEW base \in Nat, NEW k \in Nat,
         NEW req, Early(req), NEW up, up,
         StreamOk(f, c, s, base, k, req, up), IsChunk(x, s), x.chunk = <<c, s, k + 1>>
  PROVE  StreamOk(h, c, s, base, k + 1, req, up)
<1>0. Number(x) = k + 1 /\ ~IsEnd(x, s)
  BY DEF Number, IsEnd, IsChunk
<1>1. ASSUME NEW j \in 1 .. Len(h)
      PROVE  \/ /\ j \in 1 .. Len(f) /\ h[j] = f[j] /\ \A i \in 1 .. j - 1 : h[i] = f[i]
             \/ j = Len(f) + 1 /\ h[j] = x /\ \A i \in 1 .. j - 1 : i \in 1 .. Len(f) /\ h[i] = f[i]
  BY DEF Added
<1>2. Within(f, Len(f), s, base, k)
  BY DEF StreamOk
<1>3. \A j \in 1 .. Len(f) : IsChunk(f[j], s) =>
         Number(f[j]) <= k /\ Number(f[j]) > base /\ Number(f[j]) \in Nat
  BY DEF StreamOk, Consecutive, Numbered
<1>4. k >= base /\ (k > base => \E i \in 1 .. Len(f) : IsChunk(f[i], s) /\ Number(f[i]) = k)
  BY <1>2, <1>3 DEF Within
<1>5. \A j \in 1 .. Len(f) : ~IsEnd(f[j], s)
  BY DEF StreamOk
<1>6. Consecutive(h, c, s, base)
  <2> SUFFICES ASSUME NEW j \in 1 .. Len(h), IsChunk(h[j], s)
               PROVE  /\ h[j].chunk = <<c, s, Number(h[j])>> /\ Number(h[j]) > base
                      /\ \A i \in 1 .. j - 1 : IsChunk(h[i], s) => Number(h[i]) < Number(h[j])
                      /\ Number(h[j]) > base + 1 =>
                           \E i \in 1 .. j - 1 : IsChunk(h[i], s)
                                                 /\ Number(h[i]) = Number(h[j]) - 1
    BY DEF Consecutive
  <2>1. CASE j \in 1 .. Len(f) /\ h[j] = f[j] /\ \A i \in 1 .. j - 1 : h[i] = f[i]
    BY <2>1 DEF StreamOk, Consecutive
  <2>2. CASE j = Len(f) + 1 /\ h[j] = x /\ \A i \in 1 .. j - 1 : i \in 1 .. Len(f) /\ h[i] = f[i]
    <3>1. h[j].chunk = <<c, s, Number(h[j])>> /\ Number(h[j]) = k + 1 /\ k + 1 > base
      BY <1>0, <1>4, <2>2
    <3>2. \A i \in 1 .. j - 1 : IsChunk(h[i], s) => Number(h[i]) < k + 1
      BY <1>3, <2>2
    <3>3. k + 1 > base + 1 => \E i \in 1 .. j - 1 : IsChunk(h[i], s) /\ Number(h[i]) = (k + 1) - 1
      <4>1. /\ (k + 1) - 1 = k /\ (k + 1 > base + 1 => k > base)
            /\ \A i \in 1 .. Len(f) : i \in 1 .. j - 1
        BY <2>2 DEF Added
      <4> QED BY <1>4, <2>2, <4>1
    <3> QED BY <3>1, <3>2, <3>3
  <2> QED BY <1>1, <2>1, <2>2
<1>7. \A j \in 1 .. Len(h) : IsChunk(h[j], s) => Number(h[j]) <= k + 1
  BY <1>0, <1>1, <1>3
<1>8. \A j \in 1 .. Len(h) : ~IsEnd(h[j], s)
  BY <1>0, <1>1, <1>5
<1>9. Within(h, Len(h), s, base, k + 1)
  <2>1. Len(h) \in 1 .. Len(h) /\ h[Len(h)] = x
    BY DEF Added
  <2>2. CASE IsChunk(x, s)
    BY <1>0, <2>1, <2>2 DEF Within
  <2> QED BY <2>2
<1> QED
  BY <1>6, <1>7, <1>8, <1>9 DEF StreamOk

\* The end of a body, behind all of it.
LEMMA AddedEnd ==
  ASSUME NEW f, NEW h, NEW x, Added(h, f, x), NEW c, NEW s, NEW base, NEW k,
         NEW req, Early(req), NEW up, up, NEW next, ~Early(next),
         StreamOk(f, c, s, base, k, req, up), IsEnd(x, s)
  PROVE  StreamOk(h, c, s, base, k, next, up)
<1>0. ~IsChunk(x, s)
  BY DEF IsEnd, IsChunk
<1>1. ASSUME NEW j \in 1 .. Len(h), j # Len(f) + 1
      PROVE  j \in 1 .. Len(f) /\ h[j] = f[j] /\ \A i \in 1 .. j - 1 : h[i] = f[i]
  BY <1>1 DEF Added
<1>2. Consecutive(h, c, s, base)
  <2> SUFFICES ASSUME NEW j \in 1 .. Len(h), IsChunk(h[j], s)
               PROVE  /\ h[j].chunk = <<c, s, Number(h[j])>> /\ Number(h[j]) > base
                      /\ \A i \in 1 .. j - 1 : IsChunk(h[i], s) => Number(h[i]) < Number(h[j])
                      /\ Number(h[j]) > base + 1 =>
                           \E i \in 1 .. j - 1 : IsChunk(h[i], s)
                                                 /\ Number(h[i]) = Number(h[j]) - 1
    BY DEF Consecutive
  <2>1. j # Len(f) + 1
    BY <1>0 DEF Added
  <2>2. j \in 1 .. Len(f) /\ h[j] = f[j] /\ \A i \in 1 .. j - 1 : h[i] = f[i]
    BY <1>1, <2>1
  <2> QED BY <2>2 DEF StreamOk, Consecutive
<1>3. \A j \in 1 .. Len(h) : IsChunk(h[j], s) => Number(h[j]) <= k
  <2> SUFFICES ASSUME NEW j \in 1 .. Len(h), IsChunk(h[j], s) PROVE Number(h[j]) <= k
    OBVIOUS
  <2>1. j # Len(f) + 1
    BY <1>0 DEF Added
  <2> QED BY <1>1, <2>1 DEF StreamOk
<1>4. ASSUME NEW j \in 1 .. Len(h), IsEnd(h[j], s)
      PROVE  /\ Within(h, j - 1, s, base, k)
             /\ \A i \in j + 1 .. Len(h) : ~IsChunk(h[i], s) /\ ~IsEnd(h[i], s)
  <2>1. j = Len(f) + 1
    BY <1>1, <1>4 DEF StreamOk
  <2>2. j - 1 = Len(f) /\ Len(f) \in 0 .. Len(f) /\ j + 1 .. Len(h) = {}
    BY <2>1 DEF Added
  <2>3. Within(f, Len(f), s, base, k)
    BY DEF StreamOk
  <2> QED BY <2>2, <2>3, WithinAdded
<1> QED
  BY <1>2, <1>3, <1>4 DEF StreamOk

\* The rest of a connection that is gone: a part of what was on its way may be lost.
\* h is a beginning of f.
PartOf(h, f) == /\ Len(h) \in Nat /\ Len(f) \in Nat /\ Len(h) <= Len(f)
                /\ \A i \in 1 .. Len(h) : h[i] = f[i]

LEMMA Cut ==
  ASSUME NEW f, NEW h, PartOf(h, f),
         NEW c, NEW s, NEW base, NEW k, NEW req, NEW up,
         StreamOk(f, c, s, base, k, req, up)
  PROVE  StreamOk(h, c, s, base, k, req, FALSE)
<1>1. ASSUME NEW j \in 1 .. Len(h)
      PROVE  /\ j \in 1 .. Len(f) /\ h[j] = f[j]
             /\ \A i \in 1 .. j - 1 : h[i] = f[i]
             /\ \A i \in j + 1 .. Len(h) : i \in j + 1 .. Len(f) /\ h[i] = f[i]
  BY DEF PartOf
<1>2. Consecutive(h, c, s, base)
  <2> SUFFICES ASSUME NEW j \in 1 .. Len(h), IsChunk(h[j], s)
               PROVE  /\ h[j].chunk = <<c, s, Number(h[j])>> /\ Number(h[j]) > base
                      /\ \A i \in 1 .. j - 1 : IsChunk(h[i], s) => Number(h[i]) < Number(h[j])
                      /\ Number(h[j]) > base + 1 =>
                           \E i \in 1 .. j - 1 : IsChunk(h[i], s)
                                                 /\ Number(h[i]) = Number(h[j]) - 1
    BY DEF Consecutive
  <2>1. j \in 1 .. Len(f) /\ h[j] = f[j] /\ \A i \in 1 .. j - 1 : h[i] = f[i]
    BY <1>1
  <2> QED BY <2>1 DEF StreamOk, Consecutive
<1>3. \A j \in 1 .. Len(h) : IsChunk(h[j], s) => Number(h[j]) <= k
  BY <1>1 DEF StreamOk
<1>4. ASSUME NEW j \in 1 .. Len(h), IsEnd(h[j], s)
      PROVE  /\ Within(h, j - 1, s, base, k) /\ ~Early(req)
             /\ \A i \in j + 1 .. Len(h) : ~IsChunk(h[i], s) /\ ~IsEnd(h[i], s)
  <2>1. j \in 1 .. Len(f) /\ IsEnd(f[j], s)
    BY <1>1, <1>4
  <2>2. /\ Within(f, j - 1, s, base, k) /\ ~Early(req)
        /\ \A i \in j + 1 .. Len(f) : ~IsChunk(f[i], s) /\ ~IsEnd(f[i], s)
    BY <2>1 DEF StreamOk
  <2>3. Within(h, j - 1, s, base, k)
    BY <1>1, <2>2 DEF Within
  <2> QED BY <1>1, <2>2, <2>3
<1> QED
  BY <1>2, <1>3, <1>4 DEF StreamOk

-------------------------------------------------------------------------------
\* Everything the invariant speaks of.
bodyVars == <<conn, backlog, net, request, chunks, current, input, streamData, handled>>

\* The steps of nghttp2_session_send, and others that touch no body.
LEMMA SameBody ==
  ASSUME BodyInv, UNCHANGED bodyVars, Places'
  PROVE  BodyInv'
<1>1. BodyTypes' /\ Collected' /\ HandledWell'
  BY DEF BodyInv, bodyVars, BodyTypes, Collected, HandledWell, Body
<1>2. InFlight'
  BY DEF BodyInv, bodyVars, InFlight, Live, Ok, Flight, Base
<1> QED
  BY <1>1, <1>2 DEF BodyInv

\* Facts about the types.
LEMMA PiecesNumbered ==
  ASSUME NEW f \in Seq(BPiece)
  PROVE  Numbered(f) /\ Len(f) \in Nat
<1>1. Len(f) \in Nat /\ \A i \in 1 .. Len(f) : f[i] \in BPiece
  BY LenProperties, ElementOfSeq
<1>2. \A x \in BPiece : Number(x) \in Nat
  BY DEF BPiece, Number
<1> QED
  BY <1>1, <1>2 DEF Numbered

LEMMA FlightPieces ==
  ASSUME BodyTypes, NEW c \in Clients
  PROVE  Flight(c) \in Seq(BPiece) /\ Numbered(Flight(c)) /\ Len(Flight(c)) \in Nat
<1>1. Flight(c) \in Seq(BPiece)
  BY ConcatProperties DEF BodyTypes, Flight
<1> QED
  BY <1>1, PiecesNumbered

LEMMA BaseIsNat ==
  ASSUME BodyInv, NEW c \in Clients, NEW s \in Streams
  PROVE  Base(c, s) \in Nat /\ chunks[c][s] \in Nat
BY DEF BodyInv, BodyTypes, Collected, Base

\* A client sends a piece.
LEMMA FlightAdded ==
  ASSUME BodyTypes, NEW c \in Clients, NEW x \in BPiece,
         net' = [net EXCEPT ![c] = Append(@, x)], UNCHANGED <<current, input>>
  PROVE  /\ Added(Flight(c)', Flight(c), x)
         /\ net' \in [Clients -> Seq(BPiece)]
         /\ \A d \in Clients : d # c => Flight(d)' = Flight(d)
<1>1. /\ net[c] \in Seq(BPiece) /\ input \in Seq(BPiece)
      /\ Len(net[c]) \in Nat /\ Len(input) \in Nat
  BY LenProperties DEF BodyTypes
<1>2. /\ Append(net[c], x) \in Seq(BPiece) /\ net'[c] = Append(net[c], x)
      /\ net' \in [Clients -> Seq(BPiece)] /\ \A d \in Clients : d # c => net'[d] = net[d]
  BY <1>1, AppendProperties DEF BodyTypes
<1>3. Added(Append(net[c], x), net[c], x)
  BY <1>1, AppendProperties DEF Added
<1>4. Added(input \o Append(net[c], x), input \o net[c], x)
  <2> DEFINE y == Append(net[c], x)
  <2>1. /\ y \in Seq(BPiece) /\ Len(y) = Len(net[c]) + 1 /\ y[Len(net[c]) + 1] = x
        /\ \A i \in 1 .. Len(net[c]) : y[i] = net[c][i]
    BY <1>2, <1>3 DEF Added
  <2> HIDE DEF y
  <2> DEFINE f == input \o net[c]
             h == input \o y
  <2>2. /\ Len(f) = Len(input) + Len(net[c])
        /\ \A i \in 1 .. Len(input) + Len(net[c]) :
             f[i] = IF i <= Len(input) THEN input[i] ELSE net[c][i - Len(input)]
    BY <1>1, ConcatProperties
  <2>3. /\ Len(h) = Len(input) + Len(y)
        /\ \A i \in 1 .. Len(input) + Len(y) :
             h[i] = IF i <= Len(input) THEN input[i] ELSE y[i - Len(input)]
    BY <1>1, <2>1, ConcatProperties
  <2> HIDE DEF f, h
  <2>4. Len(f) \in Nat /\ Len(h) = Len(f) + 1
    BY <1>1, <2>1, <2>2, <2>3
  <2>5. h[Len(f) + 1] = x
    <3>1. /\ Len(f) + 1 \in 1 .. Len(input) + Len(y) /\ ~(Len(f) + 1 <= Len(input))
          /\ Len(f) + 1 - Len(input) = Len(net[c]) + 1
      BY <1>1, <2>1, <2>2
    <3> QED BY <2>1, <2>3, <3>1
  <2>6. ASSUME NEW i \in 1 .. Len(f) PROVE h[i] = f[i]
    <3>1. /\ i \in 1 .. Len(input) + Len(y) /\ i \in 1 .. Len(input) + Len(net[c])
          /\ ~(i <= Len(input)) => i - Len(input) \in 1 .. Len(net[c])
      BY <1>1, <2>1, <2>2
    <3> QED BY <2>1, <2>2, <2>3, <3>1
  <2>7. Added(h, f, x)
    BY <2>4, <2>5, <2>6 DEF Added
  <2> QED BY <2>7 DEF f, h, y
<1> QED
  BY <1>2, <1>3, <1>4 DEF Flight

\* A client sends a piece, after which its request is at next, with n chunks sent.
Sends(c, s, kind, next, n) ==
    /\ conn[c] = "open" /\ net' = [net EXCEPT ![c] = Append(@, Piece(kind, c, s))]
    /\ UNCHANGED <<conn, backlog, current, input, streamData, handled, main>>
    /\ request' = [request EXCEPT ![c][s] = next]
    /\ chunks' = [chunks EXCEPT ![c][s] = n]
    /\ n = chunks[c][s] \/ Early(request[c][s])
    /\ Early(next) => Early(request[c][s])

\* Whatever a client sends, it is enough to look at the stream it sends on.
LEMMA SendsInv ==
  ASSUME BodyInv, NEW c \in Clients, NEW s \in Streams, NEW kind \in Kinds,
         NEW next \in Requests, NEW n \in Nat, Sends(c, s, kind, next, n),
         Live(c) => Ok(c, s)'
  PROVE  BodyInv'
<1> USE DEF Sends
<1> DEFINE x == Piece(kind, c, s)
<1>1. x \in BPiece /\ x.stream = s
  <2>1. chunks[c][s] + 1 \in Nat
    BY BaseIsNat
  <2> QED BY <2>1 DEF BPiece, Piece
<1>2. /\ Added(Flight(c)', Flight(c), x) /\ net' \in [Clients -> Seq(BPiece)]
      /\ \A d \in Clients : d # c => Flight(d)' = Flight(d)
  BY <1>1, FlightAdded DEF BodyInv
<1> HIDE DEF x
<1>3. /\ request' \in [Clients -> [Streams -> Requests]] /\ chunks' \in [Clients -> [Streams -> Nat]]
      /\ request'[c][s] = next /\ chunks'[c][s] = n
      /\ \A d \in Clients, t \in Streams : <<d, t>> # <<c, s>> =>
           request'[d][t] = request[d][t] /\ chunks'[d][t] = chunks[d][t]
  BY DEF BodyInv, BodyTypes
<1>4. BodyTypes'
  BY <1>2, <1>3 DEF BodyInv, BodyTypes
<1>5. Places' /\ Collected'
  BY DEF BodyInv, Places, Collected, Body
<1>6. \A d \in Clients : Live(d)' => Live(d)
  BY DEF Live
<1>7. ASSUME NEW d \in Clients, Live(d), NEW t \in Streams PROVE Ok(d, t)'
  <2>1. Ok(d, t)
    BY <1>7 DEF BodyInv, InFlight
  <2>2. Base(d, t)' = Base(d, t)
    BY DEF Base
  <2>3. CASE d # c
    <3>1. request'[d][t] = request[d][t] /\ chunks'[d][t] = chunks[d][t] /\ Flight(d)' = Flight(d)
      BY <1>2, <1>3, <2>3
    <3> QED BY <2>1, <2>2, <3>1 DEF Ok
  <2>4. CASE d = c /\ t # s
    <3>1. request'[d][t] = request[d][t] /\ chunks'[d][t] = chunks[d][t]
      BY <1>3, <2>4
    <3>2. ~IsChunk(x, t) /\ ~IsEnd(x, t)
      BY <1>1, <2>4 DEF IsChunk, IsEnd
    <3>3. StreamOk(Flight(d)', d, t, Base(d, t), chunks[d][t], request[d][t],
                   conn[d] \in {"none", "open"})
      BY <1>2, <2>1, <2>4, <3>2, AddedOther DEF Ok
    <3> QED BY <2>2, <3>1, <3>3 DEF Ok
  <2> QED BY <1>7, <2>3, <2>4
<1>8. HandledWell'
  <2> SUFFICES ASSUME NEW d \in Clients, NEW t \in Streams, handled'[d][t] # None
               PROVE  handled'[d][t] = Body(d, t, chunks'[d][t]) /\ ~Early(request'[d][t])
    BY DEF HandledWell, Body
  <2>1. handled[d][t] = Body(d, t, chunks[d][t]) /\ ~Early(request[d][t])
    BY DEF BodyInv, HandledWell
  <2>2. chunks'[d][t] = chunks[d][t] /\ (Early(request'[d][t]) => Early(request[d][t]))
    BY <1>3, <2>1
  <2> QED BY <2>1, <2>2
<1> QED
  BY <1>4, <1>5, <1>6, <1>7, <1>8 DEF BodyInv, InFlight

\* The pieces a client may send, one by one: those that are neither chunk nor end ...
SendsOther(c, s, kind, next) ==
    /\ SendPiece(kind, c, s) /\ UNCHANGED chunks
    /\ request' = [request EXCEPT ![c][s] = next]
    /\ Early(next) => Early(request[c][s])

LEMMA SendsOtherInv ==
  ASSUME BodyInv, NEW c \in Clients, NEW s \in Streams, NEW kind \in Kinds \ {"chunk", "data"},
         NEW next \in Requests, SendsOther(c, s, kind, next)
  PROVE  BodyInv'
<1> USE DEF SendsOther
<1> DEFINE x == Piece(kind, c, s)
<1>1. /\ conn[c] = "open" /\ net' = [net EXCEPT ![c] = Append(@, x)]
      /\ UNCHANGED <<conn, backlog, current, input, streamData, handled, main>>
  BY DEF SendPiece, server, sessionVars
<1>2. x \in BPiece /\ x.kind = kind
  <2>1. chunks[c][s] + 1 \in Nat
    BY BaseIsNat
  <2> QED BY <2>1 DEF BPiece, Piece
<1>3. ~IsChunk(x, s) /\ ~IsEnd(x, s)
  BY <1>2 DEF IsChunk, IsEnd
<1>4. Added(Flight(c)', Flight(c), x)
  <2> HIDE DEF x
  <2> QED BY <1>1, <1>2, FlightAdded DEF BodyInv
<1>5. ASSUME Live(c) PROVE Ok(c, s)'
  <2>1. Ok(c, s)
    BY <1>5 DEF BodyInv, InFlight
  <2>2. StreamOk(Flight(c)', c, s, Base(c, s), chunks[c][s], next, conn[c] \in {"none", "open"})
    <3> HIDE DEF x
    <3> QED BY <1>3, <1>4, <2>1, AddedOther DEF Ok
  <2>3. request'[c][s] = next /\ Base(c, s)' = Base(c, s)
    BY <1>1 DEF BodyInv, BodyTypes, Base
  <2> QED BY <1>1, <2>2, <2>3 DEF Ok
<1>6. chunks[c][s] \in Nat /\ chunks' = [chunks EXCEPT ![c][s] = chunks[c][s]]
  BY BaseIsNat DEF BodyInv, BodyTypes
<1>7. Sends(c, s, kind, next, chunks[c][s])
  BY <1>1, <1>6, Zenon DEF Sends
<1> QED
  BY <1>5, <1>6, <1>7, SendsInv

\* ... the next chunk ...
LEMMA SendChunkInv ==
  ASSUME BodyInv, NEW c \in Clients, NEW s \in Streams, SendChunk(c, s)
  PROVE  BodyInv'
<1> DEFINE x == Piece("chunk", c, s)
           k == chunks[c][s]
<1>1. /\ conn[c] = "open" /\ net' = [net EXCEPT ![c] = Append(@, x)]
      /\ UNCHANGED <<conn, backlog, current, input, streamData, handled, main>>
      /\ request[c][s] = "open" /\ request' = [request EXCEPT ![c][s] = "open"]
      /\ chunks' = [chunks EXCEPT ![c][s] = k + 1]
  BY DEF SendChunk, SendPiece, RequestGoto, server, sessionVars
<1>2. k \in Nat /\ k + 1 \in Nat /\ Base(c, s) \in Nat
  BY BaseIsNat
<1>3. x \in BPiece /\ IsChunk(x, s) /\ x.chunk = <<c, s, k + 1>>
  BY <1>2 DEF BPiece, Piece, Kinds, IsChunk
<1>4. Added(Flight(c)', Flight(c), x)
  <2> HIDE DEF x
  <2> QED BY <1>1, <1>3, FlightAdded DEF BodyInv
<1>5. ASSUME Live(c) PROVE Ok(c, s)'
  <2>1. StreamOk(Flight(c), c, s, Base(c, s), k, "open", TRUE)
    <3>1. StreamOk(Flight(c), c, s, Base(c, s), k, "open", conn[c] \in {"none", "open"})
      BY <1>1, <1>5 DEF BodyInv, InFlight, Ok
    <3>2. (conn[c] \in {"none", "open"}) = TRUE
      BY <1>1
    <3> QED BY <3>1, <3>2
  <2>2. Numbered(Flight(c)) /\ Early("open")
    BY FlightPieces DEF BodyInv, Early
  <2>3. StreamOk(Flight(c)', c, s, Base(c, s), k + 1, "open", TRUE)
    <3> HIDE DEF x, k
    <3> QED BY <1>2, <1>3, <1>4, <2>1, <2>2, AddedChunk
  <2>4. /\ request'[c][s] = "open" /\ chunks'[c][s] = k + 1 /\ Base(c, s)' = Base(c, s)
        /\ (conn'[c] \in {"none", "open"}) = TRUE
    BY <1>1 DEF BodyInv, BodyTypes, Base
  <2> HIDE DEF k
  <2> QED BY <2>3, <2>4 DEF Ok
<1>6. Early(request[c][s]) /\ "chunk" \in Kinds /\ "open" \in Requests
  BY <1>1 DEF Early, Kinds, Requests
<1>7. Sends(c, s, "chunk", "open", k + 1)
  BY <1>1, <1>6, Zenon DEF Sends
<1> HIDE DEF k
<1> QED
  BY <1>2, <1>5, <1>6, <1>7, SendsInv

\* ... and the end of the body.
LEMMA SendEndInv ==
  ASSUME BodyInv, NEW c \in Clients, NEW s \in Streams,
         RequestGoto(c, s, "open", "endedByData"), SendPiece("data", c, s), UNCHANGED chunks
  PROVE  BodyInv'
<1> DEFINE x == Piece("data", c, s)
           k == chunks[c][s]
<1>1. /\ conn[c] = "open" /\ net' = [net EXCEPT ![c] = Append(@, x)]
      /\ UNCHANGED <<conn, backlog, current, input, streamData, handled, main>>
      /\ request[c][s] = "open" /\ request' = [request EXCEPT ![c][s] = "endedByData"]
  BY DEF SendPiece, RequestGoto, server, sessionVars
<1>2. k \in Nat /\ k + 1 \in Nat
  BY BaseIsNat
<1>3. x \in BPiece /\ IsEnd(x, s)
  BY <1>2 DEF BPiece, Piece, Kinds, IsEnd
<1>4. Added(Flight(c)', Flight(c), x)
  <2> HIDE DEF x
  <2> QED BY <1>1, <1>3, FlightAdded DEF BodyInv
<1>5. ASSUME Live(c) PROVE Ok(c, s)'
  <2>1. StreamOk(Flight(c), c, s, Base(c, s), k, "open", TRUE)
    <3>1. StreamOk(Flight(c), c, s, Base(c, s), k, "open", conn[c] \in {"none", "open"})
      BY <1>1, <1>5 DEF BodyInv, InFlight, Ok
    <3>2. (conn[c] \in {"none", "open"}) = TRUE
      BY <1>1
    <3> QED BY <3>1, <3>2
  <2>2. Early("open") /\ ~Early("endedByData")
    BY DEF Early
  <2>3. StreamOk(Flight(c)', c, s, Base(c, s), k, "endedByData", TRUE)
    <3> HIDE DEF x, k
    <3> QED BY <1>3, <1>4, <2>1, <2>2, AddedEnd
  <2>4. /\ request'[c][s] = "endedByData" /\ chunks'[c][s] = k /\ Base(c, s)' = Base(c, s)
        /\ (conn'[c] \in {"none", "open"}) = TRUE
    BY <1>1 DEF BodyInv, BodyTypes, Base
  <2> HIDE DEF k
  <2> QED BY <2>3, <2>4 DEF Ok
<1>6. Early(request[c][s]) /\ ~Early("endedByData") /\ "data" \in Kinds /\ "endedByData" \in Requests
  BY <1>1 DEF Early, Kinds, Requests
<1>7. chunks' = [chunks EXCEPT ![c][s] = k]
  BY DEF BodyInv, BodyTypes
<1>8. Sends(c, s, "data", "endedByData", k)
  BY <1>1, <1>6, <1>7, Zenon DEF Sends
<1> HIDE DEF k
<1> QED
  BY <1>2, <1>5, <1>6, <1>8, SendsInv

\* So every piece a client sends keeps the invariant.
LEMMA ClientSends ==
  ASSUME BodyInv, NEW c \in Clients, NEW s \in Streams,
         \/ SendHeaders(c, s) \/ SendChunk(c, s) \/ EndRequest(c, s)
         \/ SendWindow(c, s) \/ SendReset(c, s) \/ SendBad(c, s)
  PROVE  BodyInv'
<1>1. /\ "headers" \in Kinds \ {"chunk", "data"} /\ "trailers" \in Kinds \ {"chunk", "data"}
      /\ "window" \in Kinds \ {"chunk", "data"} /\ "rst" \in Kinds \ {"chunk", "data"}
      /\ "bad" \in Kinds \ {"chunk", "data"}
      /\ "open" \in Requests /\ "endedElsewhere" \in Requests /\ "reset" \in Requests
      /\ Early("none") /\ Early("open") /\ ~Early("endedElsewhere") /\ ~Early("reset")
  BY DEF Kinds, Early, Requests
<1>2. request' = request => request' = [request EXCEPT ![c][s] = request[c][s]]
  BY DEF BodyInv, BodyTypes
<1>3. request[c][s] \in Requests
  BY DEF BodyInv, BodyTypes
<1>4. CASE SendHeaders(c, s)
  <2>1. SendsOther(c, s, "headers", "open") \/ SendsOther(c, s, "headers", "endedElsewhere")
    BY <1>1, <1>4 DEF SendHeaders, RequestGoto, SendsOther
  <2> QED BY <1>1, <2>1, SendsOtherInv
<1>5. CASE SendChunk(c, s)
  BY <1>5, SendChunkInv
<1>6. CASE EndRequest(c, s)
  <2>1. CASE RequestGoto(c, s, "open", "endedByData") /\ SendPiece("data", c, s)
    BY <1>6, <2>1, SendEndInv DEF EndRequest
  <2>2. CASE RequestGoto(c, s, "open", "endedElsewhere") /\ SendPiece("trailers", c, s)
    <3>1. SendsOther(c, s, "trailers", "endedElsewhere")
      BY <1>1, <1>6, <2>2 DEF EndRequest, RequestGoto, SendsOther
    <3> QED BY <1>1, <3>1, SendsOtherInv
  <2> QED BY <1>6, <2>1, <2>2 DEF EndRequest
<1>7. CASE SendWindow(c, s)
  <2>1. SendsOther(c, s, "window", request[c][s])
    BY <1>2, <1>7 DEF SendWindow, SendsOther
  <2> QED BY <1>1, <1>3, <2>1, SendsOtherInv
<1>8. CASE SendReset(c, s)
  <2>1. SendsOther(c, s, "rst", "reset")
    BY <1>1, <1>8 DEF SendReset, SendsOther
  <2> QED BY <1>1, <2>1, SendsOtherInv
<1>9. CASE SendBad(c, s)
  <2>1. SendsOther(c, s, "bad", request[c][s])
    BY <1>2, <1>9 DEF SendBad, SendsOther
  <2> QED BY <1>1, <1>3, <2>1, SendsOtherInv
<1> QED
  BY <1>4, <1>5, <1>6, <1>7, <1>8, <1>9

\* A connection comes into the backlog, once.
LEMMA ConnectInv ==
  ASSUME BodyInv, NEW c \in Clients, Connect(c)
  PROVE  BodyInv'
<1>1. /\ conn[c] = "none" /\ conn' = [conn EXCEPT ![c] = "open"] /\ backlog' = Append(backlog, c)
      /\ UNCHANGED <<net, request, chunks, current, input, streamData, handled, main>>
  BY DEF Connect, server, sessionVars
<1>2. /\ backlog \in Seq(Clients) /\ Len(backlog) \in Nat /\ backlog' \in Seq(Clients)
      /\ Len(backlog') = Len(backlog) + 1 /\ backlog'[Len(backlog) + 1] = c
      /\ \A i \in 1 .. Len(backlog) : backlog'[i] = backlog[i] /\ backlog[i] \in Clients
  BY <1>1, LenProperties, AppendProperties, ElementOfSeq DEF BodyInv, BodyTypes
<1>3. /\ conn' \in [Clients -> {"none", "open", "closed", "reset"}]
      /\ conn'[c] = "open" /\ \A d \in Clients : d # c => conn'[d] = conn[d]
  BY <1>1 DEF BodyInv, BodyTypes
<1>4. BodyTypes'
  BY <1>1, <1>2, <1>3 DEF BodyInv, BodyTypes
<1>5. \A i \in 1 .. Len(backlog) : backlog[i] # c
  BY <1>1 DEF BodyInv, Places
<1>6. ASSUME NEW i \in 1 .. Len(backlog')
      PROVE  \/ i \in 1 .. Len(backlog) /\ backlog'[i] = backlog[i]
             \/ i = Len(backlog) + 1 /\ backlog'[i] = c
  BY <1>2
<1>7. Places'
  <2>1. c # current /\ (current \in Clients => conn'[current] # "none")
    BY <1>1, <1>3 DEF BodyInv, Places
  <2>2. \A i \in 1 .. Len(backlog') : backlog'[i] # current /\ conn'[backlog'[i]] # "none"
    BY <1>2, <1>3, <1>6, <2>1 DEF BodyInv, Places
  <2>3. \A i, j \in 1 .. Len(backlog') : backlog'[i] = backlog'[j] => i = j
    BY <1>5, <1>6 DEF BodyInv, Places
  <2> QED BY <1>1, <2>1, <2>2, <2>3 DEF BodyInv, Places
<1>8. \A d \in Clients : Live(d)' => Live(d)
  BY <1>1, <1>3, <1>6 DEF Live
<1>9. ASSUME NEW d \in Clients, NEW t \in Streams, Ok(d, t) PROVE Ok(d, t)'
  <2>1. Flight(d)' = Flight(d) /\ Base(d, t)' = Base(d, t)
    BY <1>1 DEF Flight, Base
  <2>2. (conn'[d] \in {"none", "open"}) = (conn[d] \in {"none", "open"})
    BY <1>1, <1>3
  <2> QED BY <1>1, <1>9, <2>1, <2>2 DEF Ok
<1>10. Collected' /\ HandledWell'
  BY <1>1 DEF BodyInv, Collected, HandledWell, Body
<1> QED
  BY <1>4, <1>7, <1>8, <1>9, <1>10 DEF BodyInv, InFlight

\* A client that closes or resets loses what is on its way, not what read() has returned.
LEMMA LeaveInv ==
  ASSUME BodyInv, NEW c \in Clients, Leave(c)
  PROVE  BodyInv'
<1>1. /\ conn[c] = "open" /\ conn' \in {[conn EXCEPT ![c] = "closed"], [conn EXCEPT ![c] = "reset"]}
      /\ net' = net \/ net' = [net EXCEPT ![c] = << >>]
      /\ UNCHANGED <<backlog, request, chunks, current, input, streamData, handled, main>>
  BY DEF Leave, server, sessionVars
<1>2. /\ conn' \in [Clients -> {"none", "open", "closed", "reset"}]
      /\ conn'[c] \in {"closed", "reset"} /\ \A d \in Clients : d # c => conn'[d] = conn[d]
  BY <1>1 DEF BodyInv, BodyTypes
<1>3. /\ net' \in [Clients -> Seq(BPiece)] /\ \A d \in Clients : d # c => net'[d] = net[d]
      /\ net'[c] = net[c] \/ net'[c] = << >>
  <2>1. << >> \in Seq(BPiece) /\ net \in [Clients -> Seq(BPiece)]
    BY EmptySeq DEF BodyInv, BodyTypes
  <2>2. CASE net' = net
    BY <2>1, <2>2
  <2>3. CASE net' = [net EXCEPT ![c] = << >>]
    BY <2>1, <2>3
  <2> QED BY <1>1, <2>2, <2>3
<1>4. BodyTypes'
  BY <1>1, <1>2, <1>3 DEF BodyInv, BodyTypes
<1>5. Places'
  <2>1. \A i \in 1 .. Len(backlog) : backlog[i] \in Clients
    BY ElementOfSeq DEF BodyInv, BodyTypes
  <2>2. \A d \in Clients : conn[d] # "none" => conn'[d] # "none"
    BY <1>2
  <2> QED BY <1>1, <2>1, <2>2 DEF BodyInv, Places
<1>6. \A d \in Clients : Live(d)' => Live(d)
  BY <1>1, <1>2 DEF Live
<1>7. ASSUME NEW d \in Clients, NEW t \in Streams, Ok(d, t) PROVE Ok(d, t)'
  <2>1. Base(d, t)' = Base(d, t)
    BY <1>1 DEF Base
  <2>2. CASE d # c
    <3>1. Flight(d)' = Flight(d) /\ conn'[d] = conn[d]
      BY <1>1, <1>2, <1>3, <2>2 DEF Flight
    <3> QED BY <1>1, <1>7, <2>1, <3>1 DEF Ok
  <2>3. CASE d = c
    <3>1. PartOf(Flight(c)', Flight(c))
      <4>1. CASE net'[c] = net[c]
        <5>1. Flight(c)' = Flight(c) /\ Len(Flight(c)) \in Nat
          BY <1>1, <4>1, FlightPieces DEF Flight, BodyInv
        <5> QED BY <5>1 DEF PartOf
      <4>2. CASE net'[c] = << >>
        <5>1. /\ net[c] \in Seq(BPiece) /\ input \in Seq(BPiece) /\ << >> \in Seq(BPiece)
              /\ Len(<< >>) = 0 /\ Len(net[c]) \in Nat /\ Len(input) \in Nat
          BY EmptySeq, LenProperties DEF BodyInv, BodyTypes
        <5>2. CASE c # current
          <6>1. Flight(c)' = << >> /\ Flight(c) = net[c]
            BY <1>1, <4>2, <5>2 DEF Flight
          <6> QED BY <5>1, <6>1 DEF PartOf
        <5>3. CASE c = current
          <6> DEFINE g == input \o << >>
                     f == input \o net[c]
          <6>1. Flight(c)' = g /\ Flight(c) = f
            BY <1>1, <4>2, <5>3 DEF Flight
          <6>2. /\ Len(g) = Len(input) + 0
                /\ \A i \in 1 .. Len(input) + 0 : g[i] = IF i <= Len(input) THEN input[i] ELSE << >>[i - Len(input)]
            BY <5>1, ConcatProperties
          <6>3. /\ Len(f) = Len(input) + Len(net[c])
                /\ \A i \in 1 .. Len(input) + Len(net[c]) :
                     f[i] = IF i <= Len(input) THEN input[i] ELSE net[c][i - Len(input)]
            BY <5>1, ConcatProperties
          <6> HIDE DEF f, g
          <6>4. /\ Len(g) \in Nat /\ Len(f) \in Nat /\ Len(g) <= Len(f)
                /\ \A i \in 1 .. Len(g) : g[i] = f[i]
            BY <5>1, <6>2, <6>3
          <6> QED BY <6>1, <6>4 DEF PartOf
        <5> QED BY <5>2, <5>3
      <4> QED BY <1>3, <4>1, <4>2
    <3>2. StreamOk(Flight(c)', c, t, Base(c, t), chunks[c][t], request[c][t], FALSE)
      <4> DEFINE g == Flight(c)'
                 up == conn[c] \in {"none", "open"}
      <4>1. StreamOk(Flight(c), c, t, Base(c, t), chunks[c][t], request[c][t], up)
        BY <1>7, <2>3 DEF Ok
      <4>2. PartOf(g, Flight(c))
        BY <3>1
      <4> HIDE DEF g, up
      <4>3. StreamOk(g, c, t, Base(c, t), chunks[c][t], request[c][t], FALSE)
        BY <4>1, <4>2, Cut
      <4> QED BY <4>3 DEF g
    <3>3. (conn'[c] \in {"none", "open"}) = FALSE
      BY <1>2
    <3>4. chunks' = chunks /\ request' = request /\ Base(c, t)' = Base(c, t)
      BY <1>1, <2>1, <2>3
    <3>5. Ok(c, t)'
      BY <3>2, <3>3, <3>4, Zenon DEF Ok
    <3> QED BY <2>3, <3>5
  <2> QED BY <2>2, <2>3
<1>8. Collected' /\ HandledWell'
  BY <1>1 DEF BodyInv, Collected, HandledWell, Body
<1> QED
  BY <1>4, <1>5, <1>6, <1>7, <1>8 DEF BodyInv, InFlight

-------------------------------------------------------------------------------
\* The server's thread: the session of the next connection begins with nothing collected.
LEMMA AcceptInv ==
  ASSUME BodyInv, Accept
  PROVE  BodyInv'
<1> DEFINE c == Head(backlog)
<1>1. /\ main = "accept" /\ main' = "greet" /\ backlog # << >> /\ backlog' = Tail(backlog)
      /\ current' = c /\ DOMAIN streamData' = {}
      /\ UNCHANGED <<conn, net, request, chunks, input, handled>>
  BY DEF Accept, NewSession, MainGoto
<1>2. current = None /\ current \notin Clients /\ input = << >>
  BY <1>1, Http2Assumption DEF BodyInv, Places
<1>3. /\ backlog' \in Seq(Clients) /\ Len(backlog) \in Nat \ {0} /\ Len(backlog') = Len(backlog) - 1
      /\ c = backlog[1] /\ c \in Clients
      /\ \A i \in 1 .. Len(backlog') : backlog'[i] = backlog[i + 1] /\ i + 1 \in 1 .. Len(backlog)
  <2>1. backlog \in Seq(Clients) /\ Len(backlog) \in Nat \ {0} /\ c = backlog[1]
    BY <1>1, EmptySeq DEF BodyInv, BodyTypes
  <2>2. /\ c \in Clients /\ Tail(backlog) \in Seq(Clients) /\ Len(Tail(backlog)) = Len(backlog) - 1
        /\ \A i \in 1 .. Len(Tail(backlog)) : Tail(backlog)[i] = backlog[i + 1]
    BY <1>1, <2>1, HeadTailProperties
  <2> QED BY <1>1, <2>1, <2>2
<1>4. \A i \in 1 .. Len(backlog) : backlog[i] \in Clients
  BY ElementOfSeq DEF BodyInv, BodyTypes
<1> HIDE DEF c
<1>5. BodyTypes'
  BY <1>1, <1>3 DEF BodyInv, BodyTypes
<1>6. Places'
  <2>1. 1 \in 1 .. Len(backlog)
    BY <1>3
  <2>2. \A i \in 1 .. Len(backlog') : backlog'[i] # c /\ conn'[backlog'[i]] # "none"
    <3>1. \A i \in 1 .. Len(backlog') : i + 1 # 1
      BY <1>3
    <3> QED BY <1>1, <1>3, <2>1, <3>1 DEF BodyInv, Places
  <2>3. ASSUME NEW i \in 1 .. Len(backlog'), NEW j \in 1 .. Len(backlog'), backlog'[i] = backlog'[j]
        PROVE  i = j
    <3>1. backlog[i + 1] = backlog[j + 1] /\ i + 1 \in 1 .. Len(backlog) /\ j + 1 \in 1 .. Len(backlog)
      BY <1>3, <2>3
    <3>2. i + 1 = j + 1
      BY <3>1 DEF BodyInv, Places
    <3> QED BY <1>3, <3>2
  <2>4. conn'[c] # "none"
    BY <1>1, <1>3, <2>1 DEF BodyInv, Places
  <2> QED BY <1>1, <1>2, <1>3, <2>2, <2>3, <2>4 DEF BodyInv, Places
<1>7. ASSUME NEW d \in Clients, Live(d)' PROVE Live(d)
  <2>1. CASE d = c
    <3>1. 1 \in 1 .. Len(backlog)
      BY <1>3
    <3> QED BY <1>3, <2>1, <3>1 DEF Live
  <2>2. CASE d # c
    BY <1>1, <1>3, <1>7, <2>2 DEF Live
  <2> QED BY <2>1, <2>2
<1>8. ASSUME NEW d \in Clients, NEW t \in Streams, Ok(d, t) PROVE Ok(d, t)'
  <2>1. d # current /\ net[d] \in Seq(BPiece)
    BY <1>2 DEF BodyInv, BodyTypes
  <2>2. Flight(d) = net[d] /\ Base(d, t) = 0
    BY <2>1 DEF Flight, Base
  <2>3. Base(d, t)' = 0 /\ Flight(d)' = net[d]
    BY <1>1, <1>2, <2>1 DEF Flight, Base
  <2> QED BY <1>1, <1>8, <2>2, <2>3 DEF Ok
<1>9. Collected' /\ HandledWell'
  BY <1>1 DEF BodyInv, Collected, HandledWell, Body
<1> QED
  BY <1>5, <1>6, <1>7, <1>8, <1>9 DEF BodyInv, InFlight

\* read() cuts what has arrived anywhere, and moves it in order.
LEMMA ReadInv ==
  ASSUME BodyInv, Read
  PROVE  BodyInv'
<1>1. PICK n \in 1 .. Len(net[current]) :
        /\ input' = SubSeq(net[current], 1, n)
        /\ net' = [net EXCEPT ![current] = SubSeq(@, n + 1, Len(@))]
  BY DEF Read
<1>2. /\ main = "read" /\ main' = "process"
      /\ UNCHANGED <<conn, backlog, request, chunks, current, streamData, handled>>
  BY DEF Read, MainGoto, sessionVars
<1>3. current \in Clients /\ input = << >>
  BY <1>2 DEF BodyInv, Places
<1> DEFINE f == net[current]
           a == SubSeq(f, 1, n)
           b == SubSeq(f, n + 1, Len(f))
<1>4. f \in Seq(BPiece) /\ Len(f) \in Nat
  BY <1>3, LenProperties DEF BodyInv, BodyTypes
<1>5. a \in Seq(BPiece) /\ b \in Seq(BPiece) /\ a \o b = f
  <2>1. /\ 1 \in 1 .. Len(f) + 1 /\ n \in 1 - 1 .. Len(f) /\ Len(f) \in n .. Len(f)
        /\ \A i \in 1 .. n : f[i] \in BPiece
        /\ \A i \in n + 1 .. Len(f) : f[i] \in BPiece
    <3>1. \A i \in 1 .. Len(f) : f[i] \in BPiece
      BY <1>4, ElementOfSeq
    <3> HIDE DEF f
    <3> QED BY <1>1, <1>4, <3>1 DEF f
  <2> HIDE DEF f
  <2>2. SubSeq(f, 1, n) \o SubSeq(f, n + 1, Len(f)) = SubSeq(f, 1, Len(f))
    BY <1>4, <2>1, ConcatAdjacentSubSeq
  <2>3. SubSeq(f, 1, n) \in Seq(BPiece) /\ SubSeq(f, n + 1, Len(f)) \in Seq(BPiece)
    BY <1>4, <2>1, SubSeqProperties
  <2> QED BY <1>4, <2>2, <2>3, SubSeqFull
<1>6. /\ input' = a /\ net' \in [Clients -> Seq(BPiece)] /\ net'[current] = b
      /\ \A d \in Clients : d # current => net'[d] = net[d]
  <2> HIDE DEF a
  <2> QED BY <1>1, <1>3, <1>5 DEF a, BodyInv, BodyTypes
<1> HIDE DEF a, b
<1>7. BodyTypes'
  BY <1>2, <1>5, <1>6 DEF BodyInv, BodyTypes
<1>8. Places'
  BY <1>2, <1>3 DEF BodyInv, Places
<1>9. ASSUME NEW d \in Clients PROVE Flight(d)' = Flight(d)
  <2>1. CASE d = current
    <3>1. Flight(d)' = a \o b
      BY <1>2, <1>6, <2>1 DEF Flight
    <3>2. Flight(d) = << >> \o f
      BY <1>3, <2>1 DEF Flight
    <3>3. << >> \o f = f
      <4> HIDE DEF f
      <4> QED BY <1>4
    <3> QED BY <1>5, <3>1, <3>2, <3>3
  <2>2. CASE d # current
    BY <1>2, <1>6, <2>2 DEF Flight
  <2> QED BY <2>1, <2>2
<1>10. InFlight'
  BY <1>2, <1>9 DEF BodyInv, InFlight, Live, Ok, Base
<1>11. Collected' /\ HandledWell'
  BY <1>2 DEF BodyInv, Collected, HandledWell, Body
<1> QED
  BY <1>7, <1>8, <1>10, <1>11 DEF BodyInv

\* What a connection leaves behind is never served.
LEMMA CleanupInv ==
  ASSUME BodyInv, Cleanup
  PROVE  BodyInv'
<1>1. /\ main = "cleanup" /\ main' = "accept" /\ conn' = [conn EXCEPT ![current] = "closed"]
      /\ current' = None /\ input' = << >> /\ DOMAIN streamData' = {}
      /\ UNCHANGED <<backlog, net, request, chunks, handled>>
  BY DEF Cleanup, NewSession, MainGoto
<1>2. current \in Clients /\ None \notin Clients
  BY <1>1, Http2Assumption DEF BodyInv, Places
<1>3. /\ conn' \in [Clients -> {"none", "open", "closed", "reset"}] /\ conn'[current] = "closed"
      /\ \A d \in Clients : d # current => conn'[d] = conn[d]
  BY <1>1, <1>2 DEF BodyInv, BodyTypes
<1>4. BodyTypes'
  BY <1>1, <1>3, EmptySeq DEF BodyInv, BodyTypes
<1>5. \A i \in 1 .. Len(backlog) : backlog[i] \in Clients /\ backlog[i] # current
  BY ElementOfSeq DEF BodyInv, BodyTypes, Places
<1>6. Places'
  BY <1>1, <1>2, <1>3, <1>5 DEF BodyInv, Places
<1>7. ASSUME NEW d \in Clients, Live(d)' PROVE d # current /\ Live(d)
  BY <1>1, <1>2, <1>3, <1>5, <1>7 DEF Live
<1>8. ASSUME NEW d \in Clients, d # current, NEW t \in Streams, Ok(d, t) PROVE Ok(d, t)'
  <2>1. Flight(d)' = Flight(d) /\ Base(d, t)' = Base(d, t)
    BY <1>1, <1>2, <1>8 DEF Flight, Base
  <2> QED BY <1>1, <1>3, <1>8, <2>1 DEF Ok
<1>9. Collected' /\ HandledWell'
  BY <1>1 DEF BodyInv, Collected, HandledWell, Body
<1> QED
  BY <1>4, <1>6, <1>7, <1>8, <1>9 DEF BodyInv, InFlight

-------------------------------------------------------------------------------
\* The callbacks: the first piece of the input is taken.
Ate == /\ main = "process" /\ input # << >> /\ input' = Tail(input)
       /\ UNCHANGED <<conn, backlog, net, request, chunks, current>>

\* The rest is what it was, without its first piece.
LEMMA AteFlight ==
  ASSUME BodyInv, Ate
  PROVE  /\ current \in Clients /\ Live(current) /\ Live(current)'
         /\ Shifted(Flight(current)', Flight(current))
         /\ Flight(current)[1] = Head(input) /\ Head(input) \in BPiece
         /\ input' \in Seq(BPiece)
         /\ \A d \in Clients : d # current => Flight(d)' = Flight(d)
<1> DEFINE n == net[current]
           t == Tail(input)
<1>1. current \in Clients
  BY DEF Ate, BodyInv, Places
<1>2. /\ input \in Seq(BPiece) /\ n \in Seq(BPiece) /\ Len(input) \in Nat \ {0}
      /\ Len(n) \in Nat /\ input # << >> /\ Head(input) = input[1]
  BY <1>1, EmptySeq, LenProperties DEF Ate, BodyInv, BodyTypes
<1>3. /\ t \in Seq(BPiece) /\ Len(t) = Len(input) - 1 /\ Head(input) \in BPiece
      /\ \A i \in 1 .. Len(t) : t[i] = input[i + 1]
  BY <1>2, HeadTailProperties
<1> HIDE DEF n, t
<1> DEFINE f == input \o n
           g == t \o n
<1>4. /\ Len(f) = Len(input) + Len(n)
      /\ \A i \in 1 .. Len(input) + Len(n) :
           f[i] = IF i <= Len(input) THEN input[i] ELSE n[i - Len(input)]
  BY <1>2, ConcatProperties
<1>5. /\ Len(g) = Len(t) + Len(n)
      /\ \A i \in 1 .. Len(t) + Len(n) :
           g[i] = IF i <= Len(t) THEN t[i] ELSE n[i - Len(t)]
  BY <1>2, <1>3, ConcatProperties
<1> HIDE DEF f, g
<1>6. Len(f) \in Nat /\ Len(g) \in Nat /\ Len(f) = Len(g) + 1
  BY <1>2, <1>3, <1>4, <1>5
<1>7. f[1] = input[1]
  <2>1. 1 \in 1 .. Len(input) + Len(n) /\ 1 <= Len(input)
    BY <1>2
  <2> QED BY <1>4, <2>1
<1>8. ASSUME NEW i \in 1 .. Len(g) PROVE g[i] = f[i + 1]
  <2>1. /\ i \in 1 .. Len(t) + Len(n) /\ i + 1 \in 1 .. Len(input) + Len(n)
        /\ i <= Len(t) <=> i + 1 <= Len(input)
        /\ i <= Len(t) => i \in 1 .. Len(t)
        /\ i - Len(t) = (i + 1) - Len(input)
    BY <1>2, <1>3, <1>5
  <2>2. f[i + 1] = IF i + 1 <= Len(input) THEN input[i + 1] ELSE n[(i + 1) - Len(input)]
    BY <1>4, <2>1
  <2>3. g[i] = IF i <= Len(t) THEN t[i] ELSE n[i - Len(t)]
    BY <1>5, <2>1
  <2> QED BY <1>3, <2>1, <2>2, <2>3
<1>9. Shifted(g, f)
  BY <1>6, <1>8 DEF Shifted
<1>10. Flight(current) = f /\ Flight(current)' = g
  BY DEF Ate, Flight, f, g, n, t
<1> QED
  BY <1>1, <1>2, <1>3, <1>7, <1>9, <1>10 DEF Ate, Flight, Live, t

\* What a callback has to keep of the stream the piece belongs to, and of the others.
LEMMA AteInv ==
  ASSUME BodyInv, Ate, main' \in {"process", "answer", "cleanup"},
         DOMAIN streamData' \subseteq Streams, Collected', HandledWell',
         DOMAIN handled' = Clients, \A c \in Clients : DOMAIN handled'[c] = Streams,
         handled' = [c \in Clients |-> [s \in Streams |-> handled'[c][s]]],
         \A s \in Streams :
            StreamOk(Flight(current)', current, s, Base(current, s)', chunks[current][s],
                     request[current][s], conn[current] \in {"none", "open"})
  PROVE  BodyInv'
<1>1. /\ current \in Clients /\ input' \in Seq(BPiece)
      /\ \A d \in Clients : d # current => Flight(d)' = Flight(d)
  BY AteFlight
<1>2. BodyTypes'
  BY <1>1 DEF BodyInv, BodyTypes, Ate
<1>3. Places'
  BY <1>1 DEF BodyInv, Places, Ate
<1>4. ASSUME NEW d \in Clients, Live(d)', NEW s \in Streams PROVE Ok(d, s)'
  <2>1. CASE d = current
    BY <2>1 DEF Ok, Ate
  <2>2. CASE d # current
    <3>1. Live(d)
      BY <1>4 DEF Live, Ate
    <3>2. Base(d, s)' = Base(d, s)
      BY <2>2 DEF Base, Ate
    <3>3. Ok(d, s)
      BY <3>1 DEF BodyInv, InFlight
    <3> QED BY <1>1, <2>2, <3>2, <3>3 DEF Ok, Ate
  <2> QED BY <2>1, <2>2
<1> QED
  BY <1>2, <1>3, <1>4 DEF BodyInv, InFlight

\* The stream of another piece than a chunk keeps its books.
LEMMA AteOther ==
  ASSUME BodyInv, Ate, NEW s \in Streams, ~IsChunk(Head(input), s)
  PROVE  StreamOk(Flight(current)', current, s, Base(current, s), chunks[current][s],
                  request[current][s], conn[current] \in {"none", "open"})
<1>1. /\ Shifted(Flight(current)', Flight(current)) /\ ~IsChunk(Flight(current)[1], s)
      /\ current \in Clients /\ Live(current)
  BY AteFlight
<1>2. StreamOk(Flight(current), current, s, Base(current, s), chunks[current][s],
               request[current][s], conn[current] \in {"none", "open"})
  BY <1>1 DEF BodyInv, InFlight, Ok
<1> QED
  BY <1>1, <1>2, EatenOther

\* A piece for which no body and no handled request changes.
LEMMA AteNothing ==
  ASSUME BodyInv, Ate, Head(input).kind # "chunk", UNCHANGED <<streamData, handled>>,
         main' \in {"process", "answer", "cleanup"}
  PROVE  BodyInv'
<1>1. ASSUME NEW s \in Streams
      PROVE  StreamOk(Flight(current)', current, s, Base(current, s)', chunks[current][s],
                      request[current][s], conn[current] \in {"none", "open"})
  <2>1. Base(current, s)' = Base(current, s)
    BY DEF Base, Ate
  <2> QED BY <2>1, AteOther DEF IsChunk
<1>2. Collected' /\ HandledWell'
  BY DEF BodyInv, Collected, HandledWell, Body, Ate
<1>3. /\ DOMAIN streamData' \subseteq Streams
      /\ DOMAIN handled' = Clients /\ \A c \in Clients : DOMAIN handled'[c] = Streams
      /\ handled' = [c \in Clients |-> [s \in Streams |-> handled'[c][s]]]
  BY DEF BodyInv, BodyTypes
<1> QED
  BY <1>1, <1>2, <1>3, AteInv

\* Collecting the next chunk makes the next beginning of the body.
LEMMA BodyGrows ==
  ASSUME NEW c, NEW s, NEW n \in Nat
  PROVE  /\ Append(Body(c, s, n), <<c, s, n + 1>>) = Body(c, s, n + 1)
         /\ Len(Body(c, s, n)) = n /\ Body(c, s, 0) = << >>
<1> DEFINE S == {<<c, s, i>> : i \in Nat}
           x == <<c, s, n + 1>>
           e == Append(Body(c, s, n), x)
<1>1. /\ Body(c, s, n) \in Seq(S) /\ Body(c, s, n + 1) \in Seq(S) /\ x \in S
      /\ Len(Body(c, s, n)) = n /\ Len(Body(c, s, n + 1)) = n + 1
  BY DEF Body
<1>2. /\ e \in Seq(S) /\ Len(e) = n + 1 /\ e[n + 1] = x
      /\ \A i \in 1 .. n : e[i] = Body(c, s, n)[i]
  <2> HIDE DEF S, x
  <2> QED BY <1>1, AppendProperties
<1>3. \A i \in 1 .. n + 1 : e[i] = Body(c, s, n + 1)[i]
  <2> HIDE DEF e
  <2> QED BY <1>2 DEF Body
<1>4. e = Body(c, s, n + 1)
  <2> HIDE DEF e, S, x
  <2> QED BY <1>1, <1>2, <1>3, SeqEqual
<1> QED
  BY <1>1, <1>4 DEF Body

\* on_data_chunk_recv_callback collects the next chunk of its stream.
LEMMA OnChunkInv ==
  ASSUME BodyInv, OnChunk
  PROVE  BodyInv'
<1> DEFINE c == current
           s == At
           b == Base(c, s)
           old == IF s \in DOMAIN streamData THEN streamData[s] ELSE << >>
           f == Flight(c)
<1>1. /\ Ate /\ IsChunk(Head(input), s) /\ main' = "process" /\ UNCHANGED handled
      /\ streamData' = [t \in DOMAIN streamData \cup {s} |->
                          IF t = s THEN Append(old, Head(input).chunk) ELSE streamData[t]]
  BY DEF OnChunk, Got, At, Eat, Key, clientVars, Ate, IsChunk
<1>2. /\ c \in Clients /\ Live(c) /\ Head(input) \in BPiece /\ s \in Streams
      /\ Shifted(Flight(c)', f) /\ IsChunk(f[1], s)
  BY <1>1, AteFlight DEF BPiece, At
<1>3. b \in Nat /\ chunks[c][s] \in Nat
  BY <1>2, BaseIsNat
<1>4. StreamOk(f, c, s, b, chunks[c][s], request[c][s], conn[c] \in {"none", "open"})
  BY <1>2 DEF BodyInv, InFlight, Ok
<1>5. Numbered(f) /\ Len(f) \in Nat \ {0} /\ Number(f[1]) \in Nat
  <2>1. Numbered(f)
    BY <1>2, FlightPieces DEF BodyInv
  <2>2. Len(f) \in Nat \ {0} /\ 1 \in 1 .. Len(f)
    BY <1>2 DEF Shifted
  <2> QED BY <2>1, <2>2 DEF Numbered
<1>6. Head(input).chunk = <<c, s, b + 1>>
  <2>1. f[1] = Head(input)
    BY <1>1, AteFlight
  <2>2. f[1].chunk = <<c, s, b + 1>>
    <3> HIDE DEF f, b, c, s
    <3> QED BY <1>2, <1>3, <1>4, <1>5, FirstNumber
  <2> QED BY <2>1, <2>2
<1>7. old = Body(c, s, b)
  <2>1. CASE s \in DOMAIN streamData
    BY <2>1 DEF BodyInv, Collected, Base
  <2>2. CASE s \notin DOMAIN streamData
    <3>1. b = 0
      BY <2>2 DEF Base
    <3> QED BY <2>2, <3>1, BodyGrows
  <2> QED BY <2>1, <2>2
<1> HIDE DEF old, b, f
<1>8. streamData'[s] = Body(c, s, b + 1) /\ DOMAIN streamData' = DOMAIN streamData \cup {s}
  BY <1>1, <1>3, <1>6, <1>7, BodyGrows
<1>9. Len(streamData'[s]) = b + 1 /\ b + 1 \in Nat
  BY <1>3, <1>8, BodyGrows
<1>10. /\ DOMAIN streamData' \subseteq Streams
       /\ DOMAIN handled' = Clients /\ \A d \in Clients : DOMAIN handled'[d] = Streams
       /\ handled' = [d \in Clients |-> [t \in Streams |-> handled'[d][t]]]
  BY <1>1, <1>2, <1>8 DEF BodyInv, BodyTypes
<1>11. Collected'
  <2> SUFFICES ASSUME NEW t \in DOMAIN streamData'
               PROVE  /\ Len(streamData'[t]) \in Nat
                      /\ streamData'[t] = Body(current', t, Len(streamData'[t]))
    BY DEF Collected
  <2>0. current' = c
    BY <1>1 DEF Ate
  <2>1. CASE t = s
    BY <1>8, <1>9, <2>0, <2>1
  <2>2. CASE t # s
    <3>1. t \in DOMAIN streamData /\ streamData'[t] = streamData[t]
      BY <1>1, <1>8, <2>2
    <3> QED BY <2>0, <3>1 DEF BodyInv, Collected
  <2> QED BY <2>1, <2>2
<1>12. HandledWell'
  BY <1>1 DEF BodyInv, HandledWell, Body, Ate
<1>13. ASSUME NEW t \in Streams
       PROVE  StreamOk(Flight(current)', current, t, Base(current, t)', chunks[current][t],
                       request[current][t], conn[current] \in {"none", "open"})
  <2>1. CASE t = s
    <3>1. Base(current, t)' = b + 1
      BY <1>1, <1>8, <1>9, <2>1 DEF Base, Ate
    <3>2. StreamOk(Flight(c)', c, s, b + 1, chunks[c][s], request[c][s],
                   conn[c] \in {"none", "open"})
      <4> HIDE DEF c, s
      <4> QED BY <1>2, <1>3, <1>4, <1>5, EatenChunk
    <3> QED BY <2>1, <3>1, <3>2
  <2>2. CASE t # s
    <3>1. ~IsChunk(Head(input), t)
      BY <2>2 DEF IsChunk, At
    <3>2. Base(current, t)' = Base(current, t)
      BY <1>1, <1>8, <2>2 DEF Base, Ate
    <3> QED BY <1>1, <3>1, <3>2, AteOther
  <2> QED BY <2>1, <2>2
<1> QED
  BY <1>1, <1>10, <1>11, <1>12, <1>13, AteInv

\* on_frame_recv_callback hands over all of the body, and forgets it.
LEMMA OnDataEndInv ==
  ASSUME BodyInv, OnDataEnd
  PROVE  BodyInv'
<1> DEFINE c == current
           s == At
           b == Base(c, s)
           f == Flight(c)
           k == chunks[c][s]
<1>1. /\ Ate /\ IsEnd(Head(input), s) /\ main' = "answer" /\ s \in DOMAIN streamData
      /\ handled' = [handled EXCEPT ![c][s] = streamData[s]]
      /\ streamData' = [t \in DOMAIN streamData \ {s} |-> streamData[t]]
  BY DEF OnDataEnd, Got, At, Eat, Key, clientVars, Ate, IsEnd
<1>2. /\ c \in Clients /\ Live(c) /\ s \in Streams
      /\ Shifted(Flight(c)', f) /\ IsEnd(f[1], s)
  BY <1>1, AteFlight DEF BPiece, At
<1>3. StreamOk(f, c, s, b, k, request[c][s], conn[c] \in {"none", "open"})
  BY <1>2 DEF BodyInv, InFlight, Ok
<1>4. /\ k = b /\ ~Early(request[c][s])
      /\ \A m : StreamOk(Flight(c)', c, s, m, k, request[c][s], conn[c] \in {"none", "open"})
  <2> HIDE DEF c, s, b, f, k
  <2> QED BY <1>2, <1>3, EatenEnd
<1>5. streamData[s] = Body(c, s, k)
  BY <1>1, <1>4 DEF BodyInv, Collected, Base
<1>6. /\ DOMAIN streamData' \subseteq Streams
      /\ DOMAIN handled' = Clients /\ \A d \in Clients : DOMAIN handled'[d] = Streams
      /\ handled' = [d \in Clients |-> [t \in Streams |-> handled'[d][t]]]
      /\ handled'[c][s] = Body(c, s, k)
      /\ \A d \in Clients, t \in Streams :
           <<d, t>> # <<c, s>> => handled'[d][t] = handled[d][t]
  <2> HIDE DEF c, s, k
  <2> QED BY <1>1, <1>2, <1>5 DEF BodyInv, BodyTypes
<1>7. Collected'
  BY <1>1 DEF BodyInv, Collected, Body, Ate
<1>8. HandledWell'
  <2> SUFFICES ASSUME NEW d \in Clients, NEW t \in Streams, handled'[d][t] # None
               PROVE  handled'[d][t] = Body(d, t, chunks[d][t]) /\ ~Early(request[d][t])
    BY <1>1 DEF HandledWell, Body, Ate
  <2>1. CASE d = c /\ t = s
    BY <1>4, <1>6, <2>1
  <2>2. CASE <<d, t>> # <<c, s>>
    BY <1>6, <2>2 DEF BodyInv, HandledWell
  <2> QED BY <2>1, <2>2
<1>9. ASSUME NEW t \in Streams
      PROVE  StreamOk(Flight(current)', current, t, Base(current, t)', chunks[current][t],
                      request[current][t], conn[current] \in {"none", "open"})
  <2>1. CASE t = s
    BY <1>4, <2>1
  <2>2. CASE t # s
    <3>1. ~IsChunk(Head(input), t)
      BY <2>2 DEF IsChunk, At
    <3>2. Base(current, t)' = Base(current, t)
      BY <1>1, <2>2 DEF Base, Ate
    <3> QED BY <1>1, <3>1, <3>2, AteOther
  <2> QED BY <2>1, <2>2
<1> QED
  BY <1>1, <1>6, <1>7, <1>8, <1>9, AteInv

\* The callbacks together, and nghttp2_session_send.
LEMMA ProcessInv ==
  ASSUME BodyInv, Process
  PROVE  BodyInv'
<1>1. CASE OnChunk
  BY <1>1, OnChunkInv
<1>2. CASE OnDataEnd
  BY <1>2, OnDataEndInv
<1>3. CASE OnOther \/ OnWindow \/ OnReset \/ OnBad
  <2>1. /\ Ate /\ UNCHANGED <<streamData, handled>> /\ main' \in {"process", "cleanup"}
        /\ Head(input).kind # "chunk"
    BY <1>3 DEF OnOther, OnWindow, OnReset, OnBad, Got, Eat, clientVars, streamVars, Ate
  <2> QED BY <2>1, AteNothing
<1>4. CASE Processed
  <2>1. UNCHANGED bodyVars /\ main = "process" /\ main' = "flush" /\ input = << >>
    BY <1>4 DEF Processed, MainGoto, AfterInput, clientVars, sessionVars, bodyVars
  <2>2. Places'
    BY <2>1 DEF BodyInv, Places, bodyVars
  <2> QED BY <2>1, <2>2, SameBody
<1> QED
  BY <1>1, <1>2, <1>3, <1>4 DEF Process

LEMMA SessionSendInv ==
  ASSUME BodyInv, SessionSend
  PROVE  BodyInv'
<1>1. UNCHANGED bodyVars
  BY DEF SessionSend, PackHeaders, PackData, Write, WriteFails, Sent,
         clientVars, sessionVars, bodyVars
<1>2. \/ UNCHANGED main
      \/ main' = "killed"
      \/ main \in {"greet", "flush"} /\ main' \in {"read", "cleanup"}
      \/ main = "answer" /\ main' = "process"
  BY DEF SessionSend, PackHeaders, PackData, Write, WriteFails, Sent, Sending, MainGoto
<1>3. Places'
  BY <1>1, <1>2 DEF BodyInv, Places, bodyVars
<1> QED
  BY <1>1, <1>3, SameBody

\* It holds at first, and every step keeps it.
LEMMA BodyInit == Init => BodyInv
<1> SUFFICES ASSUME Init PROVE BodyInv
  OBVIOUS
<1> USE DEF Init, EachClient, EachStream
<1>1. /\ << >> \in Seq(BPiece) /\ << >> \in Seq(Clients) /\ Len(<< >>) = 0
      /\ "none" \in Requests /\ 0 \in Nat
  BY EmptySeq DEF Requests
<1>2. BodyTypes
  BY <1>1 DEF BodyTypes
<1>3. Places
  BY <1>1, Http2Assumption DEF Places
<1>4. ASSUME NEW c \in Clients, NEW s \in Streams PROVE Ok(c, s)
  <2>1. Flight(c) = << >> /\ Base(c, s) = 0 /\ chunks[c][s] = 0
    BY Http2Assumption DEF Flight, Base
  <2>2. ASSUME NEW req, NEW up PROVE StreamOk(<< >>, c, s, 0, 0, req, up)
    BY <1>1 DEF StreamOk, Consecutive, Within
  <2> QED BY <2>1, <2>2 DEF Ok
<1>5. Collected /\ HandledWell
  BY DEF Collected, HandledWell
<1> QED
  BY <1>2, <1>3, <1>4, <1>5 DEF BodyInv, InFlight

LEMMA BodyStep == BodyInv /\ [Next]_vars => BodyInv'
<1> SUFFICES ASSUME BodyInv, [Next]_vars PROVE BodyInv'
  OBVIOUS
<1>1. CASE UNCHANGED vars
  <2>1. UNCHANGED bodyVars /\ UNCHANGED main
    BY <1>1 DEF vars, clientVars, server, sessionVars, bodyVars
  <2>2. Places'
    BY <2>1 DEF BodyInv, Places, bodyVars
  <2> QED BY <2>1, <2>2, SameBody
<1>2. CASE Accept
  BY <1>2, AcceptInv
<1>3. CASE Read
  BY <1>3, ReadInv
<1>4. CASE ReadEnd
  <2>1. UNCHANGED bodyVars /\ main = "read" /\ main' = "cleanup"
    BY <1>4 DEF ReadEnd, MainGoto, AfterEnd, clientVars, sessionVars, bodyVars
  <2>2. Places'
    BY <2>1 DEF BodyInv, Places, bodyVars
  <2> QED BY <2>1, <2>2, SameBody
<1>5. CASE Cleanup
  BY <1>5, CleanupInv
<1>6. CASE Process
  BY <1>6, ProcessInv
<1>7. CASE SessionSend
  BY <1>7, SessionSendInv
<1>8. ASSUME NEW c \in Clients, ClientStep(c) PROVE BodyInv'
  <2>1. CASE Connect(c)
    BY <2>1, ConnectInv
  <2>2. CASE ReadReply(c)
    <3>1. UNCHANGED bodyVars /\ UNCHANGED main
      BY <2>2 DEF ReadReply, server, sessionVars, bodyVars
    <3>2. Places'
      BY <3>1 DEF BodyInv, Places, bodyVars
    <3> QED BY <3>1, <3>2, SameBody
  <2>3. CASE Leave(c)
    BY <2>3, LeaveInv
  <2>4. ASSUME NEW s \in Streams,
               \/ SendHeaders(c, s) \/ SendChunk(c, s) \/ EndRequest(c, s)
               \/ SendWindow(c, s) \/ SendReset(c, s) \/ SendBad(c, s)
        PROVE  BodyInv'
    BY <2>4, ClientSends
  <2> QED BY <1>8, <2>1, <2>2, <2>3, <2>4 DEF ClientStep
<1> QED
  BY <1>1, <1>2, <1>3, <1>4, <1>5, <1>6, <1>7, <1>8 DEF Next, ServerStep

\* What is collected, in the buffer, on its way and still to be sent make up the body of
\* each request, in every state of the server and its clients.
THEOREM BodyInvariant == Spec => []BodyInv
<1> QED BY BodyInit, BodyStep, PTL DEF Spec

\* handle_post_data is given the body of the request it answers: every chunk the client
\* sent on that stream, in order, and none of another stream or connection, however the
\* streams interleave, wherever read() cuts, and whoever leaves meanwhile.
THEOREM BodiesIntact == Spec => []BodyIntact
<1>1. BodyInv => BodyIntact
  BY DEF BodyInv, HandledWell, BodyIntact, Body
<1> QED BY <1>1, BodyInvariant, PTL

-------------------------------------------------------------------------------
(* The string behind a response.                                           *)

StreamTypes ==
    /\ stream \in [Streams -> {"none", "headers", "data", "done", "dropped"}]
    /\ left \in [Streams -> Nat]
    /\ buffer \in [Streams -> {"none", "live", "deleted"}]

Inv == StreamTypes /\ BufferOutlivesReads

USE DEF vars, server, clientVars, sessionVars, streamVars

\* A session begins without streams.
LEMMA NewSessionInv ==
  ASSUME \/ NewSession
         \/ /\ stream' = EachStream("none") /\ left' = EachStream(0)
            /\ buffer' = EachStream("none")
  PROVE  Inv'
BY DEF NewSession, EachStream, Inv, StreamTypes, BufferOutlivesReads

LEMMA InitInv ==
  ASSUME Init
  PROVE  Inv
BY DEF Init, EachStream, Inv, StreamTypes, BufferOutlivesReads

\* One stream of the session changes.
LEMMA OneStream ==
  ASSUME Inv, NEW s, NEW st \in {"none", "headers", "data", "done", "dropped"}, NEW l \in Nat,
         NEW b \in {"none", "live", "deleted"},
         stream' = [stream EXCEPT ![s] = st], left' = [left EXCEPT ![s] = l],
         buffer' = [buffer EXCEPT ![s] = b],
         st \in {"headers", "data"} => b = "live" /\ l > 0,
         st = "done" => b = "deleted",
         b = "deleted" => st \in {"done", "dropped"}
  PROVE  Inv'
<1>1. StreamTypes'
  BY DEF Inv, StreamTypes
<1>2. \A t \in Streams : /\ t # s => /\ stream'[t] = stream[t] /\ left'[t] = left[t]
                                     /\ buffer'[t] = buffer[t]
                         /\ t = s => stream'[t] = st /\ left'[t] = l /\ buffer'[t] = b
  BY DEF Inv, StreamTypes
<1> QED
  BY <1>1, <1>2 DEF Inv, BufferOutlivesReads

LEMMA StepInv ==
  ASSUME Inv, [Next]_vars
  PROVE  Inv'
<1>1. CASE Accept \/ Cleanup
  BY <1>1, NewSessionInv DEF Accept, Cleanup
<1>2. CASE OnDataEnd
  <2>1. /\ stream' = [stream EXCEPT ![At] = "headers"] /\ left' = [left EXCEPT ![At] = Parts]
        /\ buffer' = [buffer EXCEPT ![At] = "live"]
    BY <1>2 DEF OnDataEnd
  <2> QED
    <3> DEFINE s == At
    <3>1. /\ stream' = [stream EXCEPT ![s] = "headers"] /\ left' = [left EXCEPT ![s] = Parts]
          /\ buffer' = [buffer EXCEPT ![s] = "live"] /\ Parts \in Nat /\ Parts > 0
      BY <2>1, Http2Assumption
    <3> HIDE DEF s
    <3> QED
      BY <3>1, OneStream
<1>3. CASE OnReset
  <2>1. stream' = [stream EXCEPT ![At] = "dropped"] /\ UNCHANGED <<left, buffer>>
    BY <1>3 DEF OnReset
  <2>2. \A t \in Streams : t # At => stream'[t] = stream[t]
    BY <2>1 DEF Inv, StreamTypes
  <2>3. \A t \in Streams : t = At => stream'[t] = "dropped"
    BY <2>1 DEF Inv, StreamTypes
  <2> QED
    BY <2>1, <2>2, <2>3 DEF Inv, StreamTypes, BufferOutlivesReads
<1>4. ASSUME NEW s \in Streams, PackHeaders(s) PROVE Inv'
  BY <1>4 DEF PackHeaders, Inv, StreamTypes, BufferOutlivesReads
<1>5. ASSUME NEW s \in Streams, PackData(s) PROVE Inv'
  <2>1. /\ stream[s] = "data" /\ left[s] \in Nat /\ left[s] > 0 /\ buffer[s] = "live"
        /\ stream' = [stream EXCEPT ![s] = AfterPart(left[s] - 1)]
        /\ left' = [left EXCEPT ![s] = left[s] - 1]
        /\ buffer' = [buffer EXCEPT ![s] = IF left[s] = 1 THEN "deleted" ELSE buffer[s]]
    BY <1>5 DEF PackData, Inv, StreamTypes, BufferOutlivesReads
  <2>2. CASE left[s] = 1
    <3>1. /\ stream' = [stream EXCEPT ![s] = "done"] /\ left' = [left EXCEPT ![s] = 0]
          /\ buffer' = [buffer EXCEPT ![s] = "deleted"]
      BY <2>1, <2>2 DEF AfterPart
    <3> QED
      BY <3>1, OneStream
  <2>3. CASE left[s] # 1
    <3>1. AfterPart(left[s] - 1) = "data" /\ left[s] - 1 \in Nat /\ left[s] - 1 > 0
      BY <2>1, <2>3 DEF AfterPart
    <3> QED
      BY <2>1, <2>3, <3>1, OneStream
  <2> QED
    BY <2>2, <2>3
<1>6. CASE UNCHANGED <<stream, left, buffer>>
  BY <1>6 DEF Inv, StreamTypes, BufferOutlivesReads
<1>7. CASE Read \/ ReadEnd \/ Write \/ WriteFails \/ Sent
  BY <1>6, <1>7 DEF Read, ReadEnd, Write, WriteFails, Sent
<1>8. CASE OnChunk \/ OnOther \/ OnWindow \/ OnBad \/ Processed
  BY <1>6, <1>8 DEF OnChunk, OnOther, OnWindow, OnBad, Processed
<1>9. ASSUME NEW c \in Clients, ClientStep(c) PROVE Inv'
  BY <1>6, <1>9 DEF ClientStep, Connect, ReadReply, Leave, SendHeaders, SendChunk, EndRequest,
                    SendWindow, SendReset, SendBad, SendPiece
<1>10. CASE UNCHANGED vars
  BY <1>6, <1>10
<1> QED
  BY <1>1, <1>2, <1>3, <1>4, <1>5, <1>7, <1>8, <1>9, <1>10
     DEF Next, ServerStep, Process, SessionSend

\* nghttp2 reads the response from a string that is still there, whenever flow control
\* lets it go on, and the string is deleted no earlier than its last part has been read
\* and no later, unless the stream has been reset.
THEOREM BufferLives == Spec => []BufferOutlivesReads
<1>1. Init => Inv
  BY InitInv
<1>2. Inv /\ [Next]_vars => Inv'
  BY StepInv
<1>3. Inv => BufferOutlivesReads
  BY DEF Inv
<1> QED
  BY <1>1, <1>2, <1>3, PTL DEF Spec
===============================================================================
