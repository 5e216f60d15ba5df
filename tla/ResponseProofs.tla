--------------------------- MODULE ResponseProofs ---------------------------
(***************************************************************************)
(* A response on its way, for every response, limit and window: the spool  *)
(* file ends in one true terminal frame, and what a client prints is an    *)
(* initial piece of the response, whatever is repeated, replayed or lost.  *)
(***************************************************************************)
EXTENDS Response, TLAPS, SequenceTheorems, FiniteSetTheorems

(* Frames in a row, as WriteRecord leaves them: the next fragment of a     *)
(* record, a new record, or the error that ends the response early.        *)
Follows(f, g) == /\ f.part < f.total /\ g.part = f.part + 1
                 /\ <<g.kind, g.rec, g.total, g.first>> = <<f.kind, f.rec, f.total, f.first>>
Starts(f, g) == f.part = f.total /\ g.part = 1
Aborts(g) == g.kind = "error" /\ g.part = 1 /\ g.total = 1

(* How many items are complete in the first e frames of fs.                *)
Whole(fs, e) ==
  IF e = 0 \/ fs[e].kind # "chunk" THEN 0
  ELSE IF fs[e].part = fs[e].total THEN fs[e].rec ELSE fs[e].rec - 1

Chained(fs) ==
  /\ \A i \in 1..Len(fs) : fs[i].seq = i - 1 /\ fs[i].part \in 1..fs[i].total
  /\ Len(fs) > 0 => fs[1].part = 1
  /\ \A i \in 1..Len(fs) - 1 :
       Follows(fs[i], fs[i + 1]) \/ Starts(fs[i], fs[i + 1]) \/ Aborts(fs[i + 1])
  /\ \A i \in 1..Len(fs) :
       fs[i].kind = "chunk" => fs[i].rec >= 1 /\ fs[i].rec = Whole(fs, i - 1) + 1

(* The frames of the first k items.                                        *)
Places(sizes, k) == UNION {{i} \X (1..sizes[i]) : i \in 1..k}

(* The file while the worker writes it.                                    *)
Building ==
  ~done =>
    /\ Chained(frames) /\ Len(frames) <= Limit - Reserve
    /\ \A i \in 1..Len(frames) : frames[i].kind = "chunk" /\ Whole(frames, i) <= items
    /\ Whole(frames, Len(frames)) = items
    /\ status = "ok" =>
         /\ items = added
         /\ Len(frames) > 0 => frames[Len(frames)].part = frames[Len(frames)].total
         /\ IsFiniteSet(Places(response.sizes, items))
         /\ Len(frames) = Cardinality(Places(response.sizes, items))
    /\ response.mode = "single" => frames = << >> /\ status = "ok" /\ added = 0

(* The file when it is final.                                              *)
Finished ==
  done =>
    /\ Chained(frames) /\ Len(frames) > 0 /\ Len(frames) <= Limit
    /\ \A i \in 1..Len(frames) - 1 :
         /\ \/ frames[i].kind = "chunk"
            \/ frames[i].part < frames[i].total /\ items = 0
         /\ Whole(frames, i) <= items
    /\ Whole(frames, Len(frames) - 1) = items
    /\ Last.kind # "chunk" /\ Last.part = Last.total
    /\ Last.kind = "complete" =>
         /\ items = Len(response.sizes) /\ Last.rec = items
         /\ Last.seq = Cardinality(Places(response.sizes, items))

(* Nobody looks at a file that is not final.                               *)
Idle ==
  ~done => /\ offset = 0 /\ wire = << >> /\ expected = 0 /\ asm = Nil
           /\ shown = << >> /\ client = "waiting"

(* What the client has made of the first `expected' frames.                *)
Pending(fs, e) == IF e > 0 /\ fs[e].part < fs[e].total THEN fs[e] ELSE Nil
Chunks(r) == [i \in 1..r |-> <<"chunk", i>>]
Printed ==
  done =>
    /\ client # "finished" => /\ expected < Len(frames) /\ asm = Pending(frames, expected)
                              /\ shown = Chunks(Whole(frames, expected))
    /\ client = "finished" => shown = Append(Chunks(items), <<Last.kind, Last.rec>>)

(* The stream holds frames of the file.  Without a drop it never jumps     *)
(* ahead: neither of what precedes, nor of what the client expects, nor    *)
(* does the stored offset jump ahead of the stream.                        *)
Carried ==
  \A i \in 1..Len(wire) :
    wire[i].seq + 1 \in 1..Len(frames) /\ wire[i] = frames[wire[i].seq + 1]
Gapless ==
  drops = 0 =>
    /\ \A i \in 1..Len(wire) - 1 : wire[i + 1].seq <= wire[i].seq + 1
    /\ wire # << >> => offset <= wire[Len(wire)].seq + 1
    /\ expected # 0 /\ client = "waiting" =>
         IF wire = << >> THEN offset <= expected ELSE wire[1].seq <= expected
    /\ ~example => client # "failed"

(* The sequences and the bounds, which TypeOK takes for granted.           *)
Shapes ==
  /\ frames \in Seq(Frames) /\ wire \in Seq(Frames) /\ asm \in Frames \cup {Nil}
  /\ replays <= runs /\ runs \in 1..MaxRuns /\ repeats \in Nat /\ drops \in Nat
  /\ example \in BOOLEAN /\ (response.mode = "single" => items = 0)

IInv == TypeOK /\ Shapes /\ Building /\ Finished /\ Idle /\ Printed /\ Carried /\ Gapless

-----------------------------------------------------------------------------
(* What the constants give.                                                *)
LEMMA Constants ==
  /\ Limit \in Nat /\ Reserve \in Nat /\ Reserve >= 1 /\ Reserve <= Limit
  /\ RecordFrames \in Nat /\ Window \in Nat /\ Window >= 1
  /\ MaxRuns \in Nat /\ MaxRuns >= 1 /\ Nil \notin Frames
  /\ \A r \in Responses : /\ r.mode \in {"dump", "single"} /\ r.sizes \in Seq(Nat \ {0})
                          /\ (r.mode = "single" => Len(r.sizes) = 1)
BY ResponseAssumption

(* The fields of a frame.                                                  *)
LEMMA FrameFields ==
  ASSUME NEW s, NEW k, NEW i, NEW j, NEW t, NEW f
  PROVE  /\ Frame(s, k, i, j, t, f).seq = s /\ Frame(s, k, i, j, t, f).kind = k
         /\ Frame(s, k, i, j, t, f).rec = i /\ Frame(s, k, i, j, t, f).part = j
         /\ Frame(s, k, i, j, t, f).total = t /\ Frame(s, k, i, j, t, f).first = f
BY DEF Frame

(* A frame built from numbers is one of Frames.                            *)
LEMMA FrameType ==
  ASSUME NEW s \in Nat, NEW k \in Kinds, NEW i \in Nat, NEW j \in Nat, NEW t \in Nat,
         NEW f \in Nat
  PROVE  Frame(s, k, i, j, t, f) \in Frames
BY DEF Frame, Frames

(* The types of its fields.                                                *)
LEMMA FramesFields ==
  ASSUME NEW f \in Frames
  PROVE  /\ f.seq \in Nat /\ f.kind \in Kinds /\ f.rec \in Nat /\ f.part \in Nat
         /\ f.total \in Nat /\ f.first \in Nat
BY DEF Frames

(* A sequence after another, element by element.                           *)
LEMMA ConcatFacts ==
  ASSUME NEW a \in Seq(Frames), NEW b \in Seq(Frames)
  PROVE  /\ a \o b \in Seq(Frames) /\ Len(a \o b) = Len(a) + Len(b)
         /\ \A i \in 1..Len(a) : (a \o b)[i] = a[i]
         /\ \A j \in 1..Len(b) : (a \o b)[Len(a) + j] = b[j]
         /\ \A i \in 1..Len(a) + Len(b) :
              i \in 1..Len(a) \/ \E j \in 1..Len(b) : i = Len(a) + j
<1>1. a \o b \in Seq(Frames) /\ Len(a \o b) = Len(a) + Len(b)
  BY ConcatProperties
<1>2. \A i \in 1..Len(a) + Len(b) : (a \o b)[i] = IF i <= Len(a) THEN a[i] ELSE b[i - Len(a)]
  BY ConcatProperties
<1>3. Len(a) \in Nat /\ Len(b) \in Nat
  OBVIOUS
<1>4. \A i \in 1..Len(a) : (a \o b)[i] = a[i]
  BY <1>2, <1>3
<1>5. ASSUME NEW j \in 1..Len(b) PROVE (a \o b)[Len(a) + j] = b[j]
  <2>1. Len(a) + j \in 1..Len(a) + Len(b) /\ ~(Len(a) + j <= Len(a)) /\ Len(a) + j - Len(a) = j
    BY <1>3
  <2> QED
    BY <1>2, <2>1
<1>6. ASSUME NEW i \in 1..Len(a) + Len(b), i \notin 1..Len(a)
      PROVE  \E j \in 1..Len(b) : i = Len(a) + j
  <2>1. i - Len(a) \in 1..Len(b) /\ i = Len(a) + (i - Len(a))
    BY <1>3, <1>6
  <2> QED
    BY <2>1
<1> QED
  BY <1>1, <1>4, <1>5, <1>6

(* The count of complete items is a number, and looks at one frame only.   *)
LEMMA WholeNat ==
  ASSUME NEW fs \in Seq(Frames), Chained(fs), NEW e \in 0..Len(fs)
  PROVE  Whole(fs, e) \in Nat
<1>1. CASE e = 0
  BY <1>1 DEF Whole
<1>2. CASE e # 0
  <2>1. e \in 1..Len(fs) /\ fs[e] \in Frames
    BY <1>2
  <2>2. fs[e].rec \in Nat
    BY <2>1, FramesFields
  <2>3. fs[e].kind = "chunk" => fs[e].rec >= 1
    BY <2>1 DEF Chained
  <2> QED
    BY <2>2, <2>3 DEF Whole
<1> QED
  BY <1>1, <1>2

(* Files that agree at a frame agree on the items complete there.          *)
LEMMA WholeSame ==
  ASSUME NEW fs, NEW gs, NEW e, e = 0 \/ gs[e] = fs[e]
  PROVE  Whole(gs, e) = Whole(fs, e)
BY DEF Whole

-----------------------------------------------------------------------------
(* Writing frames.                                                         *)

(* WriteRecord, after a record that is complete: the first fragments of a  *)
(* record of the given size.                                               *)
Writes(fs, k, i, size, r) ==
  /\ fs \in Seq(Frames) /\ Chained(fs) /\ k \in Kinds /\ i \in Nat /\ size \in Nat
  /\ r \in Seq(Frames) /\ Len(r) \in 0..size
  /\ \A j \in 1..Len(r) : r[j] = Frame(Len(fs) + j - 1, k, i, j, size, Len(fs))
  /\ (Len(fs) > 0 => fs[Len(fs)].part = fs[Len(fs)].total)
  /\ (k = "chunk" => i = Whole(fs, Len(fs)) + 1)

(* The file stays a chain of frames, and counts the items as it did.       *)
LEMMA RecordChains ==
  ASSUME NEW fs, NEW k, NEW i, NEW size, NEW r, Writes(fs, k, i, size, r)
  PROVE  /\ Chained(fs \o r)
         /\ \A e \in 0..Len(fs) : Whole(fs \o r, e) = Whole(fs, e)
         /\ \A j \in 1..Len(r) : Whole(fs \o r, Len(fs) + j) =
              IF k # "chunk" THEN 0 ELSE IF j = size THEN i ELSE i - 1
<1> DEFINE N == Len(fs)
           n == Len(r)
           gs == fs \o r
<1> USE DEF Writes
<1>0. N \in Nat /\ n \in Nat /\ size \in Nat /\ n <= size /\ i \in Nat
  OBVIOUS
<1>1. /\ gs \in Seq(Frames) /\ Len(gs) = N + n
      /\ \A e \in 1..N : gs[e] = fs[e]
      /\ \A j \in 1..n : gs[N + j] = r[j]
      /\ \A e \in 1..N + n : e \in 1..N \/ \E j \in 1..n : e = N + j
  BY ConcatFacts
<1>2. \A j \in 1..n : /\ gs[N + j].seq = N + j - 1 /\ gs[N + j].kind = k /\ gs[N + j].rec = i
                      /\ gs[N + j].part = j /\ gs[N + j].total = size /\ gs[N + j].first = N
  <2> SUFFICES ASSUME NEW j \in 1..n
               PROVE  /\ gs[N + j].seq = N + j - 1 /\ gs[N + j].kind = k /\ gs[N + j].rec = i
                      /\ gs[N + j].part = j /\ gs[N + j].total = size /\ gs[N + j].first = N
    OBVIOUS
  <2>1. gs[N + j] = Frame(N + j - 1, k, i, j, size, N)
    BY <1>1
  <2> QED
    BY <2>1, FrameFields
<1>3. N > 0 => fs[N].part = fs[N].total
  OBVIOUS
<1>4. k = "chunk" => i = Whole(fs, N) + 1 /\ i >= 1
  BY <1>0, WholeNat
<1> HIDE DEF gs, N, n, Writes
<1>5. \A e \in 0..N : Whole(gs, e) = Whole(fs, e)
  BY <1>0, <1>1, WholeSame
<1>6. \A j \in 1..n : Whole(gs, N + j) = IF k # "chunk" THEN 0
                                         ELSE IF j = size THEN i ELSE i - 1
  <2> SUFFICES ASSUME NEW j \in 1..n
               PROVE  Whole(gs, N + j) = IF k # "chunk" THEN 0
                                         ELSE IF j = size THEN i ELSE i - 1
    OBVIOUS
  <2>1. /\ gs[N + j].kind = k /\ gs[N + j].rec = i /\ gs[N + j].part = j
        /\ gs[N + j].total = size
    BY <1>2
  <2>2. N + j # 0
    BY <1>0
  <2> QED
    BY <2>1, <2>2 DEF Whole
<1>7. /\ \A e \in 1..N : fs[e].seq = e - 1 /\ fs[e].part \in 1..fs[e].total
      /\ (N > 0 => fs[1].part = 1)
      /\ \A e \in 1..N - 1 : \/ Follows(fs[e], fs[e + 1]) \/ Starts(fs[e], fs[e + 1])
                             \/ Aborts(fs[e + 1])
      /\ \A e \in 1..N : fs[e].kind = "chunk" =>
                           fs[e].rec >= 1 /\ fs[e].rec = Whole(fs, e - 1) + 1
  BY DEF Chained, N, Writes
<1>8. \A e \in 1..N + n : gs[e].seq = e - 1 /\ gs[e].part \in 1..gs[e].total
  <2> SUFFICES ASSUME NEW e \in 1..N + n
               PROVE  gs[e].seq = e - 1 /\ gs[e].part \in 1..gs[e].total
    OBVIOUS
  <2>1. CASE e \in 1..N
    BY <1>1, <1>7, <2>1
  <2>2. ASSUME NEW j \in 1..n, e = N + j
        PROVE  gs[e].seq = e - 1 /\ gs[e].part \in 1..gs[e].total
    <3>1. j \in 1..size /\ e - 1 = N + j - 1
      BY <1>0, <2>2
    <3>2. gs[N + j].seq = N + j - 1 /\ gs[N + j].part = j /\ gs[N + j].total = size
      BY <1>2
    <3> QED
      BY <2>2, <3>1, <3>2
  <2> QED
    BY <1>1, <2>1, <2>2
<1>9. N + n > 0 => gs[1].part = 1
  <2>1. CASE N > 0
    BY <1>0, <1>1, <1>7, <2>1
  <2>2. CASE N = 0 /\ n > 0
    <3>1. 1 \in 1..n /\ N + 1 = 1
      BY <1>0, <2>2
    <3> QED
      BY <1>2, <3>1
  <2> QED
    BY <1>0, <2>1, <2>2
<1>10. \A e \in 1..N + n - 1 : \/ Follows(gs[e], gs[e + 1]) \/ Starts(gs[e], gs[e + 1])
                               \/ Aborts(gs[e + 1])
  <2> SUFFICES ASSUME NEW e \in 1..N + n - 1
               PROVE  \/ Follows(gs[e], gs[e + 1]) \/ Starts(gs[e], gs[e + 1])
                      \/ Aborts(gs[e + 1])
    OBVIOUS
  <2>1. CASE e \in 1..N - 1
    <3>0. e \in 1..N /\ e + 1 \in 1..N
      BY <1>0, <2>1
    <3>1. gs[e] = fs[e] /\ gs[e + 1] = fs[e + 1]
      BY <1>1, <3>0
    <3> QED
      BY <1>7, <2>1, <3>1
  <2>2. CASE e = N
    <3>1. N \in 1..N /\ 1 \in 1..n
      BY <1>0, <2>2
    <3>2. gs[N] = fs[N] /\ gs[N + 1].part = 1 /\ fs[N].part = fs[N].total
      BY <1>0, <1>1, <1>2, <1>3, <3>1
    <3> QED
      BY <2>2, <3>2 DEF Starts
  <2>3. ASSUME NEW j \in 1..n, e = N + j
        PROVE  Follows(gs[e], gs[e + 1])
    <3>1. j + 1 \in 1..n /\ e + 1 = N + (j + 1) /\ j < size
      BY <1>0, <2>3
    <3>2. /\ gs[N + (j + 1)].kind = k /\ gs[N + (j + 1)].rec = i /\ gs[N + (j + 1)].part = j + 1
          /\ gs[N + (j + 1)].total = size /\ gs[N + (j + 1)].first = N
      BY <1>2, <3>1
    <3> QED
      BY <1>2, <2>3, <3>1, <3>2 DEF Follows
  <2>4. e \in 1..N - 1 \/ e = N \/ \E j \in 1..n : e = N + j
    <3>1. e \in 1..N + n
      BY <1>0
    <3>2. e \in 1..N => e \in 1..N - 1 \/ e = N
      BY <1>0
    <3> QED
      BY <1>1, <3>1, <3>2
  <2> QED
    BY <2>1, <2>2, <2>3, <2>4
<1>11. \A e \in 1..N + n : gs[e].kind = "chunk" =>
                             gs[e].rec >= 1 /\ gs[e].rec = Whole(gs, e - 1) + 1
  <2> SUFFICES ASSUME NEW e \in 1..N + n, gs[e].kind = "chunk"
               PROVE  gs[e].rec >= 1 /\ gs[e].rec = Whole(gs, e - 1) + 1
    OBVIOUS
  <2>1. CASE e \in 1..N
    <3>1. e - 1 \in 0..N /\ gs[e] = fs[e]
      BY <1>0, <1>1, <2>1
    <3> QED
      BY <1>5, <1>7, <2>1, <3>1
  <2>2. ASSUME NEW j \in 1..n, e = N + j
        PROVE  gs[e].rec >= 1 /\ gs[e].rec = Whole(gs, e - 1) + 1
    <3>1. k = "chunk" /\ gs[e].rec = i /\ i >= 1 /\ i = Whole(fs, N) + 1
      BY <1>2, <1>4, <2>2
    <3>2. CASE j = 1
      <4>1. e - 1 = N /\ N \in 0..N
        BY <1>0, <2>2, <3>2
      <4> QED
        BY <1>5, <3>1, <4>1
    <3>3. CASE j # 1
      <4>1. j - 1 \in 1..n /\ e - 1 = N + (j - 1) /\ j - 1 # size
        BY <1>0, <2>2, <3>3
      <4>2. Whole(gs, N + (j - 1)) = i - 1
        BY <1>6, <3>1, <4>1
      <4> QED
        BY <1>0, <3>1, <4>1, <4>2
    <3> QED
      BY <3>2, <3>3
  <2> QED
    BY <1>1, <2>1, <2>2
<1>12. Chained(gs)
  <2>0. Len(gs) = N + n
    BY <1>1
  <2>5. Len(gs) - 1 = N + n - 1
    BY <1>0, <2>0
  <2>1. \A e \in 1..Len(gs) - 1 :
          Follows(gs[e], gs[e + 1]) \/ Starts(gs[e], gs[e + 1]) \/ Aborts(gs[e + 1])
    BY <1>10, <2>5, Zenon
  <2>2. \A e \in 1..Len(gs) : gs[e].kind = "chunk" =>
                                gs[e].rec >= 1 /\ gs[e].rec = Whole(gs, e - 1) + 1
    BY <1>11, <2>0
  <2>3. \A e \in 1..Len(gs) : gs[e].seq = e - 1 /\ gs[e].part \in 1..gs[e].total
    BY <1>8, <2>0
  <2>4. Len(gs) > 0 => gs[1].part = 1
    BY <1>9, <2>0
  <2> QED
    BY <2>1, <2>2, <2>3, <2>4, Zenon DEF Chained
<1> QED
  BY <1>5, <1>6, <1>12 DEF gs, N, n

(* Finish: the terminal frame, after a complete record or as an error.     *)
LEMMA TerminalChains ==
  ASSUME NEW fs \in Seq(Frames), Chained(fs), NEW g \in Frames,
         g.seq = Len(fs), g.part = 1, g.total = 1, g.kind # "chunk",
         Aborts(g) \/ (Len(fs) > 0 => fs[Len(fs)].part = fs[Len(fs)].total)
  PROVE  /\ Append(fs, g) \in Seq(Frames) /\ Len(Append(fs, g)) = Len(fs) + 1
         /\ Append(fs, g)[Len(fs) + 1] = g
         /\ \A e \in 1..Len(fs) : Append(fs, g)[e] = fs[e]
         /\ Chained(Append(fs, g))
         /\ \A e \in 0..Len(fs) : Whole(Append(fs, g), e) = Whole(fs, e)
<1> DEFINE N == Len(fs)
           gs == Append(fs, g)
<1>0. N \in Nat
  OBVIOUS
<1>1. /\ gs \in Seq(Frames) /\ Len(gs) = N + 1 /\ gs[N + 1] = g
      /\ \A e \in 1..N : gs[e] = fs[e]
  OBVIOUS
<1>2. Aborts(g) \/ (N > 0 => fs[N].part = fs[N].total)
  OBVIOUS
<1>3. /\ \A e \in 1..N : fs[e].seq = e - 1 /\ fs[e].part \in 1..fs[e].total
      /\ (N > 0 => fs[1].part = 1)
      /\ \A e \in 1..N - 1 : \/ Follows(fs[e], fs[e + 1]) \/ Starts(fs[e], fs[e + 1])
                             \/ Aborts(fs[e + 1])
      /\ \A e \in 1..N : fs[e].kind = "chunk" =>
                           fs[e].rec >= 1 /\ fs[e].rec = Whole(fs, e - 1) + 1
  BY DEF Chained
<1>4. g.seq = N
  OBVIOUS
<1> HIDE DEF gs, N
<1>5. \A e \in 0..N : Whole(gs, e) = Whole(fs, e)
  BY <1>0, <1>1, WholeSame
<1>6. \A e \in 1..N + 1 : gs[e].seq = e - 1 /\ gs[e].part \in 1..gs[e].total
  <2> SUFFICES ASSUME NEW e \in 1..N + 1
               PROVE  gs[e].seq = e - 1 /\ gs[e].part \in 1..gs[e].total
    OBVIOUS
  <2>1. CASE e \in 1..N
    BY <1>1, <1>3, <2>1
  <2>2. CASE e = N + 1
    BY <1>0, <1>1, <1>4, <2>2
  <2> QED
    BY <1>0, <2>1, <2>2
<1>7. gs[1].part = 1
  BY <1>0, <1>1, <1>3
<1>8. ASSUME NEW e \in 1..N
      PROVE  Follows(gs[e], gs[e + 1]) \/ Starts(gs[e], gs[e + 1]) \/ Aborts(gs[e + 1])
  <2>1. CASE e = N
    <3>1. gs[e] = fs[N] /\ gs[e + 1] = g /\ N > 0
      BY <1>0, <1>1, <2>1
    <3> QED
      BY <1>2, <3>1 DEF Starts
  <2>2. CASE e # N
    <3>1. e \in 1..N - 1 /\ gs[e] = fs[e] /\ gs[e + 1] = fs[e + 1]
      BY <1>0, <1>1, <2>2
    <3> QED
      BY <1>3, <3>1
  <2> QED
    BY <2>1, <2>2
<1>9. ASSUME NEW e \in 1..N + 1, gs[e].kind = "chunk"
      PROVE  gs[e].rec >= 1 /\ gs[e].rec = Whole(gs, e - 1) + 1
  <2>1. e \in 1..N
    BY <1>0, <1>1, <1>9
  <2>2. e - 1 \in 0..N /\ gs[e] = fs[e]
    BY <1>0, <1>1, <2>1
  <2> QED
    BY <1>3, <1>5, <1>9, <2>1, <2>2
<1>10. Len(gs) = N + 1 /\ Len(gs) - 1 = N
  BY <1>0, <1>1
<1>11. Chained(gs)
  <2>1. \A e \in 1..Len(gs) - 1 :
          Follows(gs[e], gs[e + 1]) \/ Starts(gs[e], gs[e + 1]) \/ Aborts(gs[e + 1])
    BY <1>8, <1>10
  <2>2. \A e \in 1..Len(gs) : gs[e].kind = "chunk" =>
                                gs[e].rec >= 1 /\ gs[e].rec = Whole(gs, e - 1) + 1
    BY <1>9, <1>10
  <2>3. \A e \in 1..Len(gs) : gs[e].seq = e - 1 /\ gs[e].part \in 1..gs[e].total
    BY <1>6, <1>10
  <2> QED
    BY <1>7, <2>1, <2>2, <2>3, Zenon DEF Chained
<1> QED
  BY <1>1, <1>5, <1>11 DEF gs, N

(* Counting from one.                                                      *)
LEMMA CountTo ==
  ASSUME NEW m \in Nat
  PROVE  IsFiniteSet(1..m) /\ Cardinality(1..m) = m
<1>1. IsFiniteSet(1..m) /\ Cardinality(1..m) = IF 1 > m THEN 0 ELSE m - 1 + 1
  BY FS_Interval
<1> QED
  BY <1>1

(* The frames of one more item.                                            *)
LEMMA PlacesGrow ==
  ASSUME NEW sizes, NEW k \in Nat, NEW m \in Nat, m = sizes[k + 1],
         IsFiniteSet(Places(sizes, k))
  PROVE  /\ IsFiniteSet(Places(sizes, k + 1))
         /\ Cardinality(Places(sizes, k + 1)) = Cardinality(Places(sizes, k)) + m
<1> DEFINE P == Places(sizes, k)
           Q == {k + 1} \X (1..m)
<1>1. Places(sizes, k + 1) = P \cup Q
  <2>1. 1..(k + 1) = (1..k) \cup {k + 1}
    OBVIOUS
  <2> QED
    BY <2>1 DEF Places
<1>2. IsFiniteSet({k + 1}) /\ Cardinality({k + 1}) = 1
  BY FS_Singleton
<1>3. IsFiniteSet(1..m) /\ Cardinality(1..m) = m
  BY CountTo
<1>4. IsFiniteSet(Q) /\ Cardinality(Q) = Cardinality({k + 1}) * Cardinality(1..m)
  BY <1>2, <1>3, FS_Product
<1>5. Cardinality(Q) = m
  BY <1>2, <1>3, <1>4
<1>6. P \cap Q = {}
  <2> SUFFICES ASSUME NEW p \in P, p \in Q PROVE FALSE
    OBVIOUS
  <2>1. p[1] = k + 1
    OBVIOUS
  <2>2. PICK i \in 1..k : p \in {i} \X (1..sizes[i])
    BY DEF Places
  <2> QED
    BY <2>1, <2>2
<1> HIDE DEF P, Q
<1>7. /\ IsFiniteSet(P) /\ IsFiniteSet(P \cup Q)
      /\ Cardinality(P \cup Q) = Cardinality(P) + Cardinality(Q) - Cardinality(P \cap Q)
  BY <1>4, FS_Union DEF P
<1>8. Cardinality(P \cap Q) = 0 /\ Cardinality(P) \in Nat
  BY <1>6, <1>7, FS_EmptySet, FS_CardinalityType
<1>9. Cardinality(P \cup Q) = Cardinality(P) + m
  BY <1>5, <1>7, <1>8
<1> QED
  BY <1>1, <1>7, <1>9 DEF P

(* What WriteRecord writes: all the fragments, or as many as there is room *)
(* for.                                                                    *)
LEMMA RecordFacts ==
  ASSUME frames \in Seq(Frames), NEW k \in Kinds, NEW i \in Nat, NEW size \in Nat
  PROVE  /\ Record(k, i, size) \in Seq(Frames)
         /\ Len(Record(k, i, size)) \in 0..size
         /\ Len(frames) <= Limit - Reserve =>
              /\ Len(frames) + Len(Record(k, i, size)) <= Limit - Reserve
              /\ (size <= Room => Len(Record(k, i, size)) = size)
              /\ (size > Room => Len(Record(k, i, size)) < size)
         /\ \A j \in 1..Len(Record(k, i, size)) :
              Record(k, i, size)[j] = Frame(Len(frames) + j - 1, k, i, j, size, Len(frames))
<1> DEFINE n == IF Room <= 0 THEN 0 ELSE IF size <= Room THEN size ELSE Room
           R == [j \in 1..n |-> Frame(Len(frames) + j - 1, k, i, j, size, Len(frames))]
<1>1. Len(frames) \in Nat /\ Room \in Int /\ Limit \in Nat /\ Reserve \in Nat
  BY Constants DEF Room
<1>2. Room = Limit - Reserve - Len(frames)
  BY DEF Room
<1>3. n \in 0..size
  BY <1>1
<1>4. Len(frames) <= Limit - Reserve =>
        /\ Len(frames) + n <= Limit - Reserve
        /\ (size <= Room => n = size) /\ (size > Room => n < size)
  BY <1>1, <1>2
<1>5. Record(k, i, size) = R
  BY DEF Record
<1> HIDE DEF n
<1>6. \A j \in 1..n : Frame(Len(frames) + j - 1, k, i, j, size, Len(frames)) \in Frames
  BY <1>1, <1>3, FrameType
<1>7. R \in Seq(Frames) /\ Len(R) = n
  BY <1>3, <1>6
<1>8. \A j \in 1..n : R[j] = Frame(Len(frames) + j - 1, k, i, j, size, Len(frames))
  OBVIOUS
<1> HIDE DEF R
<1> QED
  BY <1>3, <1>4, <1>5, <1>7, <1>8

-----------------------------------------------------------------------------
(* The initial state.                                                      *)
LEMMA InitIInv == Init => IInv
<1> SUFFICES ASSUME Init PROVE IInv
  OBVIOUS
<1>0. /\ response \in Responses /\ response.sizes \in Seq(Nat \ {0})
      /\ Limit \in Nat /\ Reserve \in Nat /\ Reserve <= Limit
      /\ Window \in Nat /\ MaxRuns \in Nat /\ MaxRuns >= 1
  BY Constants DEF Init
<1>1. frames = << >> /\ Len(frames) = 0 /\ wire = << >> /\ Len(wire) = 0
  BY DEF Init
<1>2. TypeOK
  <2>1. replays \in 0..MaxRuns
    BY <1>0 DEF Init
  <2>2. added \in 0..Len(response.sizes) /\ items \in 0..added
    BY <1>0 DEF Init
  <2>3. offset \in 0..Len(frames) /\ expected \in 0..Len(frames) /\ Len(wire) <= Window
    BY <1>0, <1>1 DEF Init
  <2>4. \A i \in 1..Len(frames) : frames[i].kind \in Kinds /\ frames[i].seq = i - 1
    BY <1>1
  <2> QED
    BY <1>0, <2>1, <2>2, <2>3, <2>4 DEF Init, TypeOK
<1>3. Shapes
  BY <1>0 DEF Init, Shapes
<1>4. Places(response.sizes, 0) = {}
  BY DEF Places
<1>5. IsFiniteSet({}) /\ Cardinality({}) = 0
  BY FS_EmptySet
<1>6. Chained(frames)
  BY <1>1 DEF Chained
<1>7. Whole(frames, 0) = 0
  BY DEF Whole
<1>8. Building
  <2>1. Len(frames) <= Limit - Reserve
    BY <1>0, <1>1
  <2>2. \A i \in 1..Len(frames) : frames[i].kind = "chunk" /\ Whole(frames, i) <= items
    BY <1>1
  <2>3. Whole(frames, Len(frames)) = items /\ items = added /\ ~(Len(frames) > 0)
    BY <1>1, <1>7 DEF Init
  <2>4. /\ IsFiniteSet(Places(response.sizes, items))
        /\ Len(frames) = Cardinality(Places(response.sizes, items))
    BY <1>1, <1>4, <1>5 DEF Init
  <2> QED
    BY <1>1, <1>6, <2>1, <2>2, <2>3, <2>4 DEF Init, Building
<1>9. Finished /\ Idle /\ Printed
  BY DEF Init, Finished, Idle, Printed
<1>10. Carried /\ Gapless
  BY <1>1 DEF Init, Carried, Gapless
<1> QED
  BY <1>2, <1>3, <1>8, <1>9, <1>10 DEF IInv

(* A step of the worker leaves what the others hold alone: they start with *)
(* the first frame when the file is final.                                 *)
LEMMA WorkerLeavesRest ==
  ASSUME IInv, ~done, done' \in BOOLEAN,
         UNCHANGED <<response, offset, wire, replays, waiting, bounds>>,
         frames' \in Seq(Frames), Chained(frames'), done' => Len(frames') > 0,
         \A e \in 1..Len(frames') : frames'[e].kind \in Kinds,
         added' \in 0..Len(response.sizes), items' \in 0..added',
         status' \in {"ok", "quota_exceeded", "payload_too_large"},
         response.mode = "single" => items' = 0,
         Building', Finished'
  PROVE  IInv'
<1>1. /\ offset = 0 /\ wire = << >> /\ expected = 0 /\ asm = Nil /\ shown = << >>
      /\ client = "waiting"
  BY DEF IInv, Idle
<1>2. /\ offset' = 0 /\ wire' = << >> /\ expected' = 0 /\ asm' = Nil /\ shown' = << >>
      /\ client' = "waiting" /\ Len(wire') = 0
  BY <1>1 DEF waiting
<1>3. Len(frames') \in Nat
  OBVIOUS
<1>4. \A e \in 1..Len(frames') : frames'[e].kind \in Kinds /\ frames'[e].seq = e - 1
  BY DEF Chained
<1>5. TypeOK'
  BY <1>2, <1>3, <1>4, Constants DEF IInv, TypeOK, waiting
<1>6. Shapes'
  BY <1>2 DEF IInv, Shapes, bounds
<1>7. Idle' /\ Carried'
  BY <1>2 DEF Idle, Carried
<1>8. Gapless'
  BY <1>2 DEF Gapless
<1>9. Printed'
  <2>1. Whole(frames', 0) = 0 /\ Pending(frames', 0) = Nil
    BY DEF Whole, Pending
  <2>2. Chunks(0) = << >>
    BY DEF Chunks
  <2> QED
    BY <1>2, <2>1, <2>2 DEF Printed
<1> QED
  BY <1>5, <1>6, <1>7, <1>8, <1>9 DEF IInv

(* Spool::Add.                                                             *)
LEMMA AddStep == IInv /\ Add => IInv'
<1> SUFFICES ASSUME IInv, Add PROVE IInv'
  OBVIOUS
<1> DEFINE N == Len(frames)
           size == response.sizes[added + 1]
<1>1. /\ ~done /\ response.mode = "dump" /\ added < Len(response.sizes) /\ added' = added + 1
      /\ UNCHANGED <<response, done, offset, wire, replays, waiting, bounds>>
  BY DEF Add
<1>2. /\ response \in Responses /\ response.sizes \in Seq(Nat \ {0})
      /\ Limit \in Nat /\ Reserve \in Nat /\ RecordFrames \in Nat
  BY Constants DEF IInv, TypeOK
<1>3. /\ frames \in Seq(Frames) /\ N \in Nat /\ added \in Nat /\ items \in Nat /\ items <= added
      /\ Len(response.sizes) \in Nat
      /\ status \in {"ok", "quota_exceeded", "payload_too_large"}
      /\ done' = FALSE /\ response' = response
  BY <1>1, <1>2 DEF IInv, TypeOK, Shapes
<1>4. size \in Nat /\ size >= 1
  <2>1. added + 1 \in 1..Len(response.sizes)
    BY <1>1, <1>3
  <2> QED
    BY <1>2, <2>1
<1>5. /\ Chained(frames) /\ N <= Limit - Reserve
      /\ \A e \in 1..N : frames[e].kind = "chunk" /\ Whole(frames, e) <= items
      /\ Whole(frames, N) = items
      /\ (status = "ok" =>
           /\ items = added /\ (N > 0 => frames[N].part = frames[N].total)
           /\ IsFiniteSet(Places(response.sizes, items))
           /\ N = Cardinality(Places(response.sizes, items)))
  BY <1>1 DEF IInv, Building
<1>6. \A e \in 1..N : frames[e] \in Frames /\ frames[e].kind \in Kinds
  BY <1>3, FramesFields
<1>7. added' \in 0..Len(response.sizes)
  BY <1>1, <1>3
<1>8. Finished'
  BY <1>3 DEF Finished
<1>9. ASSUME frames' = frames, items' = items, status' # "ok",
             status' \in {"ok", "quota_exceeded", "payload_too_large"}
      PROVE  IInv'
  <2>1. Building'
    BY <1>1, <1>3, <1>5, <1>9 DEF Building
  <2>2. items' \in 0..added'
    BY <1>1, <1>3, <1>9
  <2> QED
    BY <1>1, <1>3, <1>5, <1>6, <1>7, <1>8, <1>9, <2>1, <2>2, WorkerLeavesRest
<1>10. CASE status # "ok"
  BY <1>3, <1>9, <1>10 DEF Add
<1>11. CASE status = "ok" /\ TooLarge(size)
  <2>1. frames' = frames \o << >> /\ status' = "payload_too_large" /\ items' = items
    BY <1>11 DEF Add, Written
  <2>2. frames' = frames
    BY <1>3, <2>1
  <2> QED
    BY <1>9, <2>1, <2>2
<1>12. CASE status = "ok" /\ ~TooLarge(size)
  <2> DEFINE r == Record("chunk", added + 1, size)
             n == Len(r)
  <2>1. /\ frames' = frames \o r
        /\ status' = (IF size > Room THEN "quota_exceeded" ELSE "ok")
        /\ items' = (IF status' = "ok" THEN items + 1 ELSE items)
    BY <1>12 DEF Add, Written
  <2>2. "chunk" \in Kinds /\ added + 1 \in Nat /\ Room \in Int
    BY <1>2, <1>3 DEF Kinds, Room
  <2>3. /\ r \in Seq(Frames) /\ n \in 0..size /\ N + n <= Limit - Reserve
        /\ (size <= Room => n = size) /\ (size > Room => n < size)
        /\ \A j \in 1..n : r[j] = Frame(N + j - 1, "chunk", added + 1, j, size, N)
    <3>1. frames \in Seq(Frames) /\ size \in Nat /\ Len(frames) <= Limit - Reserve
      BY <1>3, <1>4, <1>5
    <3> HIDE DEF size, N
    <3>2. /\ r \in Seq(Frames) /\ Len(r) \in 0..size
          /\ Len(frames) + Len(r) <= Limit - Reserve
          /\ (size <= Room => Len(r) = size) /\ (size > Room => Len(r) < size)
          /\ \A j \in 1..Len(r) :
               r[j] = Frame(Len(frames) + j - 1, "chunk", added + 1, j, size, Len(frames))
      BY <2>2, <3>1, RecordFacts
    <3> QED
      BY <3>2 DEF N
  <2>4. /\ (N > 0 => frames[N].part = frames[N].total)
        /\ added + 1 = Whole(frames, N) + 1 /\ items = added
    BY <1>5, <1>12
  <2> HIDE DEF r, n, size
  <2>5. Len(r) = n
    BY DEF n
  <2>6. /\ Chained(frames')
        /\ \A e \in 0..N : Whole(frames', e) = Whole(frames, e)
        /\ \A j \in 1..n : Whole(frames', N + j) = IF j = size THEN added + 1 ELSE added
    <3>1. /\ Chained(frames \o r)
          /\ \A e \in 0..N : Whole(frames \o r, e) = Whole(frames, e)
          /\ \A j \in 1..n : Whole(frames \o r, N + j) =
               IF "chunk" # "chunk" THEN 0 ELSE IF j = size THEN added + 1 ELSE (added + 1) - 1
      <4>1. Writes(frames, "chunk", added + 1, size, r)
        BY <1>3, <1>4, <1>5, <2>2, <2>3, <2>4, <2>5 DEF Writes
      <4> QED
        BY <2>5, <4>1, RecordChains
    <3>2. (added + 1) - 1 = added
      BY <1>3
    <3> QED
      BY <2>1, <3>1, <3>2, Zenon
  <2>7. /\ frames' \in Seq(Frames) /\ Len(frames') = N + n
        /\ \A e \in 1..N : frames'[e] = frames[e]
        /\ \A j \in 1..n : frames'[N + j] = r[j]
        /\ \A e \in 1..N + n : e \in 1..N \/ \E j \in 1..n : e = N + j
    BY <1>3, <2>1, <2>3, <2>5, ConcatFacts
  <2>8. \A j \in 1..n : /\ frames'[N + j].kind = "chunk" /\ frames'[N + j].part = j
                        /\ frames'[N + j].total = size
    <3> SUFFICES ASSUME NEW j \in 1..n
                 PROVE  /\ frames'[N + j].kind = "chunk" /\ frames'[N + j].part = j
                        /\ frames'[N + j].total = size
      OBVIOUS
    <3>1. frames'[N + j] = Frame(N + j - 1, "chunk", added + 1, j, size, N)
      BY <2>3, <2>7
    <3> QED
      BY <3>1, FrameFields
  <2> HIDE DEF N
  <2>9. n \in Nat /\ N \in Nat /\ (size <= Room <=> ~(size > Room))
    BY <1>3, <1>4, <2>2, <2>3
  <2>10. items' \in Nat /\ items <= items' /\ items' <= added + 1
    BY <1>3, <2>1, <2>4
  <2>11. \A j \in 1..n : Whole(frames', N + j) <= items'
    <3>1. \A j \in 1..n : j = size => items' = added + 1
      BY <1>4, <2>1, <2>3, <2>4, <2>9
    <3> QED
      BY <1>3, <2>4, <2>6, <2>10, <3>1
  <2>12. \A e \in 1..N + n : frames'[e].kind = "chunk" /\ Whole(frames', e) <= items'
    <3> SUFFICES ASSUME NEW e \in 1..N + n
                 PROVE  frames'[e].kind = "chunk" /\ Whole(frames', e) <= items'
      OBVIOUS
    <3>1. CASE e \in 1..N
      <4>1. e \in 0..N /\ Whole(frames, e) \in Nat
        <5>1. e \in 0..N
          BY <2>9, <3>1
        <5> QED
          BY <1>3, <1>5, <5>1, WholeNat DEF N
      <4>2. frames'[e].kind = "chunk" /\ Whole(frames', e) <= items
        BY <1>5, <2>6, <2>7, <3>1, <4>1
      <4> QED
        BY <1>3, <2>6, <2>10, <4>1, <4>2
    <3>2. ASSUME NEW j \in 1..n, e = N + j
          PROVE  frames'[e].kind = "chunk" /\ Whole(frames', e) <= items'
      BY <2>8, <2>11, <3>2
    <3> QED
      BY <2>7, <3>1, <3>2
  <2>13. Whole(frames', N + n) = items'
    <3>1. CASE n = 0
      <4>1. N + n = N /\ N \in 0..N /\ size > Room
        BY <1>4, <2>3, <2>9, <3>1
      <4>2. Whole(frames', N) = items
        BY <1>5, <2>6, <4>1
      <4> QED
        BY <2>1, <4>1, <4>2
    <3>2. CASE n # 0
      <4>1. n \in 1..n
        BY <2>9, <3>2
      <4>2. Whole(frames', N + n) = IF n = size THEN added + 1 ELSE added
        BY <2>6, <4>1
      <4>3. n = size <=> ~(size > Room)
        BY <1>4, <2>3, <2>9
      <4> QED
        BY <2>1, <2>4, <4>2, <4>3
    <3> QED
      BY <3>1, <3>2
  <2>14. status' = "ok" =>
           /\ items' = added' /\ (N + n > 0 => frames'[N + n].part = frames'[N + n].total)
           /\ IsFiniteSet(Places(response.sizes, items'))
           /\ N + n = Cardinality(Places(response.sizes, items'))
    <3> SUFFICES ASSUME status' = "ok"
                 PROVE  /\ items' = added'
                        /\ (N + n > 0 => frames'[N + n].part = frames'[N + n].total)
                        /\ IsFiniteSet(Places(response.sizes, items'))
                        /\ N + n = Cardinality(Places(response.sizes, items'))
      OBVIOUS
    <3>1. n = size /\ items' = items + 1 /\ items' = added'
      BY <1>1, <2>1, <2>3, <2>4, <2>9
    <3>2. n \in 1..n
      BY <1>4, <3>1
    <3>3. frames'[N + n].part = frames'[N + n].total
      BY <2>8, <3>1, <3>2
    <3>4. size = response.sizes[items + 1]
      BY <2>4 DEF size
    <3>5. IsFiniteSet(Places(response.sizes, items)) /\ N = Cardinality(Places(response.sizes, items))
      BY <1>5, <1>12
    <3>6. /\ IsFiniteSet(Places(response.sizes, items + 1))
          /\ Cardinality(Places(response.sizes, items + 1))
               = Cardinality(Places(response.sizes, items)) + size
      BY <1>3, <1>4, <3>4, <3>5, PlacesGrow
    <3> QED
      BY <3>1, <3>3, <3>5, <3>6
  <2>15. Building'
    BY <1>1, <1>3, <2>3, <2>6, <2>7, <2>12, <2>13, <2>14 DEF Building
  <2>16. items' \in 0..added'
    BY <1>1, <1>3, <2>10
  <2>17. \A e \in 1..Len(frames') : frames'[e].kind \in Kinds
    BY <2>2, <2>7, <2>12
  <2>18. status' \in {"ok", "quota_exceeded", "payload_too_large"}
    BY <2>1
  <2> QED
    BY <1>1, <1>3, <1>7, <1>8, <2>6, <2>7, <2>15, <2>16, <2>17, <2>18, WorkerLeavesRest
<1> QED
  BY <1>10, <1>11, <1>12

(* Spool::Finish of a dump.                                                *)
LEMMA FinishDumpStep == IInv /\ FinishDump => IInv'
<1> SUFFICES ASSUME IInv, FinishDump PROVE IInv'
  OBVIOUS
<1> DEFINE N == Len(frames)
<1>1. PICK reported \in {"ok", "failed"} :
        /\ reported = "ok" => added = Len(response.sizes)
        /\ frames' = Append(frames, IF Terminal(reported) = "ok" THEN Complete
                                    ELSE Error(N))
  BY DEF FinishDump
<1>2. /\ ~done /\ response.mode = "dump" /\ done' = TRUE
      /\ response' = response /\ added' = added /\ items' = items /\ status' = status
      /\ UNCHANGED <<response, offset, wire, replays, waiting, bounds>>
  BY DEF FinishDump
<1>3. /\ frames \in Seq(Frames) /\ N \in Nat /\ items \in Nat /\ items \in 0..added
      /\ added \in 0..Len(response.sizes)
      /\ status \in {"ok", "quota_exceeded", "payload_too_large"}
  BY DEF IInv, TypeOK, Shapes
<1>4. /\ Chained(frames) /\ N <= Limit - Reserve
      /\ \A e \in 1..N : frames[e].kind = "chunk" /\ Whole(frames, e) <= items
      /\ Whole(frames, N) = items
      /\ (status = "ok" =>
           /\ items = added /\ (N > 0 => frames[N].part = frames[N].total)
           /\ N = Cardinality(Places(response.sizes, items)))
  BY <1>2 DEF IInv, Building
<1>5. PICK g \in Frames :
        /\ frames' = Append(frames, g)
        /\ g.seq = N /\ g.part = 1 /\ g.total = 1 /\ g.kind # "chunk"
        /\ Aborts(g) \/ (N > 0 => frames[N].part = frames[N].total)
        /\ (g.kind = "complete" =>
             /\ items = Len(response.sizes) /\ g.rec = items
             /\ g.seq = Cardinality(Places(response.sizes, items)))
  <2>1. CASE Terminal(reported) = "ok"
    <3>1. status = "ok" /\ reported = "ok"
      BY <1>3, <2>1 DEF Terminal
    <3>2. Complete \in Frames
      BY <1>3, FrameType DEF Complete, Kinds
    <3>3. /\ Complete.seq = N /\ Complete.part = 1 /\ Complete.total = 1
          /\ Complete.kind = "complete" /\ Complete.rec = items
      BY FrameFields DEF Complete
    <3>4. frames' = Append(frames, Complete)
      BY <1>1, <2>1
    <3> QED
      BY <1>1, <1>4, <3>1, <3>2, <3>3, <3>4
  <2>2. CASE Terminal(reported) # "ok"
    <3>1. Error(N) \in Frames
      BY <1>3, FrameType DEF Error, Kinds
    <3>2. /\ Error(N).seq = N /\ Error(N).part = 1 /\ Error(N).total = 1
          /\ Error(N).kind = "error"
      BY FrameFields DEF Error
    <3>3. frames' = Append(frames, Error(N))
      BY <1>1, <2>2
    <3> QED
      BY <3>1, <3>2, <3>3 DEF Aborts
  <2> QED
    BY <2>1, <2>2
<1>6. /\ frames' \in Seq(Frames) /\ Len(frames') = N + 1 /\ frames'[N + 1] = g
      /\ \A e \in 1..N : frames'[e] = frames[e]
      /\ Chained(frames')
      /\ \A e \in 0..N : Whole(frames', e) = Whole(frames, e)
  BY <1>3, <1>4, <1>5, TerminalChains
<1> HIDE DEF N
<1>7. Finished'
  <2>1. Len(frames') > 0 /\ Len(frames') <= Limit /\ Len(frames') - 1 = N
    BY <1>3, <1>4, <1>6, Constants
  <2>2. Last' = g
    BY <1>6 DEF Last
  <2>3. \A e \in 1..N : frames'[e].kind = "chunk" /\ Whole(frames', e) <= items'
    <3> SUFFICES ASSUME NEW e \in 1..N
                 PROVE  frames'[e].kind = "chunk" /\ Whole(frames', e) <= items'
      OBVIOUS
    <3>1. e \in 0..N
      BY <1>3
    <3>2. frames'[e] = frames[e] /\ Whole(frames', e) = Whole(frames, e)
      BY <1>6, <3>1
    <3> QED
      BY <1>2, <1>4, <3>2
  <2>4. Whole(frames', N) = items'
    <3>1. N \in 0..N
      BY <1>3
    <3> QED
      BY <1>2, <1>4, <1>6, <3>1
  <2>5. g.kind = "complete" =>
          /\ items' = Len(response'.sizes) /\ g.rec = items'
          /\ g.seq = Cardinality(Places(response'.sizes, items'))
    BY <1>2, <1>5
  <2> QED
    BY <1>5, <1>6, <2>1, <2>2, <2>3, <2>4, <2>5 DEF Finished
<1>8. Building'
  BY <1>2 DEF Building
<1>9. \A e \in 1..Len(frames') : frames'[e].kind \in Kinds
  BY <1>6, FramesFields
<1> QED
  BY <1>2, <1>3, <1>6, <1>7, <1>8, <1>9, WorkerLeavesRest

(* Spool::Single.                                                          *)
LEMMA SingleStep == IInv /\ Single => IInv'
<1> SUFFICES ASSUME IInv, Single PROVE IInv'
  OBVIOUS
<1> DEFINE size == response.sizes[1]
<1>1. PICK k \in {"result", "error"} :
        LET body == IF TooLarge(size) THEN << >> ELSE Record(k, 1, size)
        IN  /\ status' = Written(size) /\ added' = 1
            /\ frames' = IF Written(size) = "ok" THEN body
                         ELSE Append(body, Error(Len(body)))
  BY DEF Single
<1>0. PICK i \in Nat : i = 1
  OBVIOUS
<1> DEFINE b == IF TooLarge(size) THEN << >> ELSE Record(k, i, size)
<1>2. /\ ~done /\ response.mode = "single" /\ done' = TRUE
      /\ response' = response /\ items' = items
      /\ UNCHANGED <<response, offset, wire, replays, waiting, bounds>>
      /\ status' = Written(size) /\ added' = 1
      /\ frames' = (IF Written(size) = "ok" THEN b ELSE Append(b, Error(Len(b))))
  BY <1>0, <1>1 DEF Single
<1>3. /\ frames = << >> /\ Len(frames) = 0 /\ items = 0 /\ frames \in Seq(Frames)
  BY <1>2 DEF IInv, Building, Shapes
<1>4. /\ Limit \in Nat /\ Reserve \in Nat /\ Reserve >= 1 /\ Reserve <= Limit
      /\ RecordFrames \in Nat
      /\ response.sizes \in Seq(Nat \ {0}) /\ Len(response.sizes) = 1
  BY <1>2, Constants DEF IInv, TypeOK
<1>5. size \in Nat /\ size >= 1
  BY <1>4
<1>6. k \in Kinds /\ k # "chunk" /\ k # "complete"
  BY DEF Kinds
<1> HIDE DEF size
<1>7. /\ b \in Seq(Frames) /\ Len(b) \in 0..size /\ Len(b) <= Limit - Reserve
      /\ (Written(size) = "ok" => Len(b) = size)
      /\ (Written(size) # "ok" => Len(b) < size)
      /\ \A j \in 1..Len(b) : b[j] = Frame(Len(frames) + j - 1, k, i, j, size, Len(frames))
  <2>1. CASE TooLarge(size)
    <3>1. b = << >> /\ Len(b) = 0 /\ b \in Seq(Frames)
      BY <2>1
    <3>2. Written(size) # "ok"
      BY <2>1 DEF Written
    <3> HIDE DEF b
    <3> QED
      BY <1>4, <1>5, <3>1, <3>2
  <2>2. CASE ~TooLarge(size)
    <3>1. b = Record(k, i, size) /\ (Written(size) = "ok" <=> ~(size > Room))
      BY <2>2 DEF Written
    <3>2. Room \in Int /\ Len(frames) <= Limit - Reserve
      BY <1>3, <1>4 DEF Room
    <3> HIDE DEF b
    <3>3. /\ Record(k, i, size) \in Seq(Frames) /\ Len(Record(k, i, size)) \in 0..size
          /\ Len(frames) + Len(Record(k, i, size)) <= Limit - Reserve
          /\ (size <= Room => Len(Record(k, i, size)) = size)
          /\ (size > Room => Len(Record(k, i, size)) < size)
          /\ \A j \in 1..Len(Record(k, i, size)) :
               Record(k, i, size)[j] = Frame(Len(frames) + j - 1, k, i, j, size, Len(frames))
      BY <1>3, <1>5, <1>6, <3>2, RecordFacts
    <3>4. size <= Room <=> ~(size > Room)
      BY <1>5, <3>2
    <3>5. Len(b) \in 0..size /\ Len(frames) + Len(b) <= Limit - Reserve
      BY <3>1, <3>3
    <3>6. Len(b) <= Limit - Reserve
      BY <1>3, <1>5, <3>5
    <3> QED
      BY <3>1, <3>3, <3>4, <3>6
  <2> QED
    BY <2>1, <2>2
<1> HIDE DEF b
<1> DEFINE n == Len(b)
<1>8. Writes(frames, k, i, size, b)
  <2>1. Chained(frames)
    BY <1>2 DEF IInv, Building
  <2> QED
    BY <1>3, <1>5, <1>6, <1>7, <2>1 DEF Writes
<1>9. /\ Chained(b) /\ \A e \in 0..n : Whole(b, e) = 0
  <2>1. frames \o b = b
    BY <1>3, <1>7
  <2>2. /\ Chained(b)
        /\ \A j \in 1..n : Whole(b, Len(frames) + j) =
             IF k # "chunk" THEN 0 ELSE IF j = size THEN i ELSE i - 1
    <3>1. /\ Chained(frames \o b)
          /\ \A j \in 1..n : Whole(frames \o b, Len(frames) + j) =
               IF k # "chunk" THEN 0 ELSE IF j = size THEN i ELSE i - 1
      BY <1>8, RecordChains
    <3> QED
      BY <2>1, <3>1, Zenon
  <2>3. Whole(b, 0) = 0
    BY DEF Whole
  <2>4. \A j \in 1..n : Len(frames) + j = j
    BY <1>3
  <2>5. \A j \in 1..n : Whole(b, j) = 0
    BY <1>6, <2>2, <2>4
  <2>6. \A e \in 0..n : e = 0 \/ e \in 1..n
    OBVIOUS
  <2> QED
    BY <2>2, <2>3, <2>5, <2>6
<1>10. \A j \in 1..n : b[j].kind = k /\ b[j].part = j /\ b[j].total = size
  <2> SUFFICES ASSUME NEW j \in 1..n
               PROVE  b[j].kind = k /\ b[j].part = j /\ b[j].total = size
    OBVIOUS
  <2>1. b[j] = Frame(Len(frames) + j - 1, k, i, j, size, Len(frames))
    BY <1>7
  <2> QED
    BY <2>1, FrameFields
<1>11. ASSUME NEW g \in Frames, frames' \in Seq(Frames), Chained(frames'), NEW m \in Nat,
              Len(frames') = m + 1, frames'[m + 1] = g, m + 1 <= Limit, m <= n, m < size,
              \A e \in 1..m : frames'[e] = b[e],
              \A e \in 0..m : Whole(frames', e) = 0,
              g.kind # "chunk", g.kind # "complete", g.part = g.total
       PROVE  IInv'
  <2>1. Finished'
    <3>1. Len(frames') > 0 /\ Len(frames') <= Limit /\ Len(frames') - 1 = m /\ m \in 0..m
      BY <1>4, <1>11
    <3>2. Last' = g
      BY <1>11 DEF Last
    <3>3. \A e \in 1..m : frames'[e].part < frames'[e].total /\ Whole(frames', e) <= items'
      <4> SUFFICES ASSUME NEW e \in 1..m
                   PROVE  frames'[e].part < frames'[e].total /\ Whole(frames', e) <= items'
        OBVIOUS
      <4>1. e \in 1..n /\ e \in 0..m /\ e < size
        BY <1>5, <1>7, <1>11
      <4>2. frames'[e].part = e /\ frames'[e].total = size /\ Whole(frames', e) = 0
        BY <1>10, <1>11, <4>1
      <4> QED
        BY <1>2, <1>3, <4>1, <4>2
    <3>4. Whole(frames', m) = items'
      BY <1>2, <1>3, <1>11, <3>1
    <3> QED
      BY <1>2, <1>3, <1>11, <3>1, <3>2, <3>3, <3>4 DEF Finished
  <2>2. Building'
    BY <1>2 DEF Building
  <2>3. \A e \in 1..Len(frames') : frames'[e].kind \in Kinds
    BY <1>11, FramesFields
  <2>4. added' \in 0..Len(response.sizes) /\ items' \in 0..added'
    BY <1>2, <1>3, <1>4
  <2>5. status' \in {"ok", "quota_exceeded", "payload_too_large"}
    BY <1>2 DEF Written
  <2>6. Len(frames') > 0
    BY <1>11
  <2> QED
    BY <1>2, <1>3, <1>11, <2>1, <2>2, <2>3, <2>4, <2>5, <2>6, WorkerLeavesRest
<1>12. CASE Written(size) = "ok"
  <2>1. frames' = b /\ n = size /\ n \in Nat
    BY <1>2, <1>5, <1>7, <1>12
  <2>2. b[n] \in Frames /\ b[n].kind = k /\ b[n].part = b[n].total
    <3>1. n \in 1..n
      BY <1>5, <2>1
    <3> QED
      BY <1>7, <1>10, <2>1, <3>1
  <2>3. n - 1 \in Nat /\ (n - 1) + 1 = n /\ n <= Limit /\ n - 1 <= n /\ n - 1 < size
    BY <1>4, <1>5, <1>7, <2>1
  <2>4. \A e \in 0..n - 1 : Whole(b, e) = 0
    BY <1>9, <2>1
  <2> QED
    BY <1>6, <1>7, <1>9, <1>11, <2>1, <2>2, <2>3, <2>4
<1>13. CASE Written(size) # "ok"
  <2>1. frames' = Append(b, Error(n)) /\ n \in Nat /\ n < size
    BY <1>2, <1>7, <1>13
  <2>2. Error(n) \in Frames
    BY <2>1, FrameType DEF Error, Kinds
  <2>3. /\ Error(n).seq = n /\ Error(n).part = 1 /\ Error(n).total = 1
        /\ Error(n).kind = "error"
    BY FrameFields DEF Error
  <2>4. /\ frames' \in Seq(Frames) /\ Len(frames') = n + 1 /\ frames'[n + 1] = Error(n)
        /\ \A e \in 1..n : frames'[e] = b[e]
        /\ Chained(frames')
        /\ \A e \in 0..n : Whole(frames', e) = Whole(b, e)
    BY <1>7, <1>9, <2>1, <2>2, <2>3, TerminalChains DEF Aborts
  <2>5. n + 1 <= Limit /\ n <= n
    BY <1>4, <1>7, <2>1
  <2> QED
    BY <1>9, <1>11, <2>1, <2>2, <2>3, <2>4, <2>5
<1> QED
  BY <1>12, <1>13

-----------------------------------------------------------------------------
(* Publishing.                                                             *)

(* What holds of the file still holds when nobody writes it.               *)
LEMMA FileKept ==
  ASSUME IInv, UNCHANGED spool
  PROVE  /\ Building' /\ Finished' /\ frames' = frames /\ done' = done /\ items' = items
         /\ response' = response /\ added' = added /\ status' = status
<1>1. /\ frames' = frames /\ done' = done /\ items' = items
      /\ response' = response /\ added' = added /\ status' = status
  BY DEF spool
<1>2. Building'
  BY <1>1 DEF IInv, Building
<1>3. Last' = Last
  BY <1>1 DEF Last
<1>4. Finished'
  BY <1>1, <1>3 DEF IInv, Finished
<1> QED
  BY <1>1, <1>2, <1>4

(* A step outside the worker, once the file is final.                      *)
LEMMA OutsideStep ==
  ASSUME IInv, UNCHANGED spool, done, wire' \in Seq(Frames), Len(wire') <= Window,
         offset' \in 0..Len(frames), expected' \in 0..Len(frames),
         asm' \in Frames \cup {Nil}, client' \in {"waiting", "finished", "failed"},
         replays' \in Nat, replays' <= runs', runs' \in 1..MaxRuns, repeats' \in Nat,
         drops' \in Nat, example' \in BOOLEAN, Printed', Carried', Gapless'
  PROVE  IInv'
<1>1. /\ Building' /\ Finished' /\ frames' = frames /\ done' = done /\ items' = items
      /\ response' = response /\ added' = added /\ status' = status
  BY FileKept
<1>2. replays' \in 0..MaxRuns
  BY Constants
<1>3. TypeOK'
  BY <1>1, <1>2 DEF IInv, TypeOK
<1>4. Shapes'
  BY <1>1 DEF IInv, Shapes
<1>5. Idle'
  BY <1>1 DEF Idle
<1> QED
  BY <1>1, <1>3, <1>4, <1>5 DEF IInv

(* The types a step outside the worker starts from.                        *)
LEMMA OutsideFacts ==
  ASSUME IInv
  PROVE  /\ wire \in Seq(Frames) /\ Len(wire) \in Nat /\ Len(wire) <= Window
         /\ frames \in Seq(Frames) /\ Len(frames) \in Nat
         /\ offset \in Nat /\ offset \in 0..Len(frames) /\ expected \in 0..Len(frames)
         /\ expected \in Nat
         /\ asm \in Frames \cup {Nil} /\ client \in {"waiting", "finished", "failed"}
         /\ replays \in Nat /\ replays <= runs /\ runs \in 1..MaxRuns /\ runs \in Nat
         /\ repeats \in Nat /\ drops \in Nat /\ example \in BOOLEAN /\ done \in BOOLEAN
BY Constants DEF IInv, TypeOK, Shapes

(* What the client has made of the frames depends on the file and on its   *)
(* own variables.                                                          *)
LEMMA PrintedKept ==
  ASSUME IInv, UNCHANGED spool, UNCHANGED waiting
  PROVE  Printed'
<1>1. frames' = frames /\ done' = done /\ items' = items /\ Last' = Last
  BY DEF spool, Last
<1> QED
  BY <1>1 DEF IInv, Printed, waiting

(* A frame is appended to the stream; the offset behind it may be lost.    *)
LEMMA PublishStep ==
  ASSUME IInv, CanPublish, wire' = Append(wire, frames[offset + 1]),
         offset' \in {offset, offset + 1}, repeats' \in Nat,
         UNCHANGED <<spool, replays, waiting, example, runs, drops>>
  PROVE  IInv'
<1> DEFINE W == Len(wire)
           g == frames[offset + 1]
<1>0. done /\ offset < Len(frames) /\ W < Window
  BY DEF CanPublish
<1>1. /\ wire \in Seq(Frames) /\ W \in Nat /\ frames \in Seq(Frames) /\ Len(frames) \in Nat
      /\ offset \in Nat /\ expected \in 0..Len(frames) /\ Window \in Nat
  BY OutsideFacts, Constants
<1>2. frames' = frames /\ expected' = expected /\ client' = client /\ example' = example
      /\ drops' = drops
  BY DEF spool, waiting
<1>3. offset + 1 \in 1..Len(frames) /\ g \in Frames
  BY <1>0, <1>1
<1>4. g.seq = offset /\ g.seq + 1 = offset + 1
  <2>1. \A i \in 1..Len(frames) : frames[i].seq = i - 1
    BY DEF IInv, TypeOK
  <2> QED
    BY <1>1, <1>3, <2>1
<1>5. /\ wire' \in Seq(Frames) /\ Len(wire') = W + 1 /\ wire'[W + 1] = g
      /\ \A i \in 1..W : wire'[i] = wire[i]
  BY <1>1, <1>3
<1>6. offset' \in 0..Len(frames) /\ Len(wire') <= Window
  BY <1>0, <1>1, <1>5
<1> HIDE DEF W, g
<1>7. Carried'
  <2> SUFFICES ASSUME NEW i \in 1..W + 1
               PROVE  wire'[i].seq + 1 \in 1..Len(frames) /\ wire'[i] = frames[wire'[i].seq + 1]
    BY <1>2, <1>5 DEF Carried
  <2>1. CASE i \in 1..W
    <3>1. wire'[i] = wire[i]
      BY <1>5, <2>1
    <3>2. wire[i].seq + 1 \in 1..Len(frames) /\ wire[i] = frames[wire[i].seq + 1]
      BY <2>1 DEF IInv, Carried, W
    <3> QED
      BY <3>1, <3>2, Zenon
  <2>2. CASE i = W + 1
    <3>1. g = frames[offset + 1]
      BY DEF g
    <3>2. wire'[i] = g
      BY <1>5, <2>2
    <3>3. g.seq + 1 \in 1..Len(frames)
      BY <1>3, <1>4
    <3>4. g = frames[g.seq + 1]
      <4>1. g.seq + 1 = offset + 1
        BY <1>4
      <4> QED
        BY <3>1, <4>1, Zenon
    <3> QED
      BY <3>2, <3>3, <3>4, Zenon
  <2>3. i \in 1..W \/ i = W + 1
    <3>1. W \in Nat
      BY <1>1
    <3> QED
      BY <3>1
  <2> QED
    BY <2>1, <2>2, <2>3, Zenon
<1>8. Gapless'
  <2> SUFFICES ASSUME drops = 0 PROVE Gapless'
    BY <1>2 DEF Gapless
  <2>1. /\ \A i \in 1..W - 1 : wire[i + 1].seq <= wire[i].seq + 1
        /\ (W # 0 => offset <= wire[W].seq + 1)
        /\ (expected # 0 /\ client = "waiting" =>
             IF W = 0 THEN offset <= expected ELSE wire[1].seq <= expected)
        /\ (~example => client # "failed")
    <3>1. wire = << >> <=> W = 0
      BY <1>1 DEF W
    <3> QED
      BY <3>1 DEF IInv, Gapless, W
  <2>2. \A i \in 1..W : wire'[i + 1].seq <= wire'[i].seq + 1
    <3> SUFFICES ASSUME NEW i \in 1..W PROVE wire'[i + 1].seq <= wire'[i].seq + 1
      OBVIOUS
    <3>1. CASE i = W
      BY <1>1, <1>4, <1>5, <2>1, <3>1
    <3>2. CASE i # W
      <4>1. i \in 1..W - 1 /\ i + 1 \in 1..W
        BY <1>1, <3>2
      <4> QED
        BY <1>5, <2>1, <4>1
    <3> QED
      BY <3>1, <3>2
  <2>3. offset' <= wire'[W + 1].seq + 1
    BY <1>1, <1>4, <1>5
  <2>4. expected # 0 /\ client = "waiting" => wire'[1].seq <= expected
    <3>1. CASE W = 0
      BY <1>1, <1>4, <1>5, <2>1, <3>1
    <3>2. CASE W # 0
      <4>1. 1 \in 1..W
        BY <1>1, <3>2
      <4> QED
        BY <1>5, <2>1, <3>2, <4>1
    <3> QED
      BY <3>1, <3>2
  <2>5. Len(wire') = W + 1 /\ Len(wire') - 1 = W /\ wire' # << >>
    BY <1>1, <1>5
  <2> QED
    BY <1>2, <2>1, <2>2, <2>3, <2>4, <2>5 DEF Gapless
<1>9. Printed'
  BY PrintedKept
<1> QED
  BY <1>0, <1>5, <1>6, <1>7, <1>8, <1>9, OutsideFacts, OutsideStep DEF waiting

(* The other steps that leave the file and the client alone.               *)
LEMMA DeliverStep == IInv /\ (Deliver \/ DeliverUnheard) => IInv'
<1> SUFFICES ASSUME IInv, Deliver \/ DeliverUnheard PROVE IInv'
  OBVIOUS
<1>1. repeats \in Nat
  BY OutsideFacts
<1>2. CASE Deliver
  BY <1>1, <1>2, PublishStep DEF Deliver, NextOffset, bounds
<1>3. CASE DeliverUnheard
  BY <1>1, <1>3, PublishStep DEF DeliverUnheard
<1> QED
  BY <1>2, <1>3

(* api.replay starts the response from the first frame again.              *)
LEMMA ReplayStep == IInv /\ Replay => IInv'
<1> SUFFICES ASSUME IInv, Replay PROVE IInv'
  OBVIOUS
<1>1. /\ UNCHANGED spool /\ UNCHANGED waiting /\ wire' = wire
      /\ example' = example /\ repeats' = repeats /\ runs' = runs /\ drops' = drops
      /\ expected' = expected /\ client' = client /\ asm' = asm
      /\ frames' = frames
      /\ replays > 0 /\ replays' = replays - 1 /\ offset' = (IF done THEN 0 ELSE offset)
  BY DEF Replay, bounds, spool, waiting
<1>2. replays' \in Nat /\ replays' <= runs
  BY <1>1, OutsideFacts
<1>3. offset' \in 0..Len(frames) /\ offset' <= offset /\ offset \in Nat /\ offset' \in Nat
  BY <1>1, OutsideFacts
<1>4. Printed'
  BY <1>1, PrintedKept
<1>5. Carried'
  BY <1>1 DEF IInv, Carried
<1>6. Gapless'
  <2> SUFFICES ASSUME drops = 0 PROVE Gapless'
    BY <1>1 DEF Gapless
  <2>1. wire # << >> => offset' <= wire[Len(wire)].seq + 1
    <3> SUFFICES ASSUME wire # << >> PROVE offset' <= wire[Len(wire)].seq + 1
      OBVIOUS
    <3>1. wire \in Seq(Frames) /\ Len(wire) \in 1..Len(wire)
      BY OutsideFacts
    <3>2. wire[Len(wire)].seq \in Nat
      BY <3>1, FramesFields
    <3>3. offset <= wire[Len(wire)].seq + 1
      BY DEF IInv, Gapless
    <3> QED
      BY <1>3, <3>2, <3>3
  <2>2. expected # 0 /\ client = "waiting" =>
          IF wire = << >> THEN offset' <= expected ELSE wire[1].seq <= expected
    <3>1. expected # 0 /\ client = "waiting" =>
            IF wire = << >> THEN offset <= expected ELSE wire[1].seq <= expected
      BY DEF IInv, Gapless
    <3>2. expected \in Nat
      BY OutsideFacts
    <3> QED
      BY <1>3, <3>1, <3>2
  <2>3. /\ \A i \in 1..Len(wire) - 1 : wire[i + 1].seq <= wire[i].seq + 1
        /\ (~example => client # "failed")
    BY DEF IInv, Gapless
  <2> QED
    BY <1>1, <2>1, <2>2, <2>3 DEF Gapless
<1>7. CASE done
  BY <1>1, <1>2, <1>3, <1>4, <1>5, <1>6, <1>7, OutsideFacts, OutsideStep
<1>8. CASE ~done
  <2>1. /\ Building' /\ Finished' /\ done' = done /\ items' = items
        /\ response' = response /\ added' = added /\ status' = status
    BY <1>1, FileKept
  <2>2. replays' \in 0..MaxRuns
    BY <1>2, OutsideFacts, Constants
  <2>3. TypeOK'
    BY <1>1, <1>3, <2>1, <2>2 DEF IInv, TypeOK
  <2>4. Shapes'
    BY <1>1, <1>2, <2>1 DEF IInv, Shapes
  <2>5. Idle'
    BY <1>1, <1>8, <2>1 DEF IInv, Idle, waiting
  <2> QED
    BY <1>4, <1>5, <1>6, <2>1, <2>3, <2>4, <2>5 DEF IInv
<1> QED
  BY <1>7, <1>8, OutsideFacts

(* The response stream outlives its TTL.                                   *)
LEMMA DropStep == IInv /\ Drop => IInv'
<1> SUFFICES ASSUME IInv, Drop PROVE IInv'
  OBVIOUS
<1>1. /\ UNCHANGED spool /\ UNCHANGED waiting /\ wire # << >> /\ wire' = << >>
      /\ offset' = offset /\ replays' = replays /\ example' = example
      /\ repeats' = repeats /\ runs' = runs /\ drops' = drops + 1
      /\ expected' = expected /\ client' = client /\ asm' = asm
  BY DEF Drop, waiting
<1>2. done
  BY <1>1 DEF IInv, Idle
<1>3. drops' \in Nat /\ drops' # 0
  BY <1>1, OutsideFacts
<1>4. wire' \in Seq(Frames) /\ Len(wire') = 0 /\ Len(wire') <= Window
  BY <1>1, Constants
<1>5. Printed'
  BY <1>1, PrintedKept
<1>6. Carried' /\ Gapless'
  BY <1>3, <1>4 DEF Carried, Gapless
<1> QED
  BY <1>1, <1>2, <1>3, <1>4, <1>5, <1>6, OutsideFacts, OutsideStep

(* The client program is run again.                                        *)
LEMMA RerunStep == IInv /\ Rerun => IInv'
<1> SUFFICES ASSUME IInv, Rerun PROVE IInv'
  OBVIOUS
<1>1. /\ UNCHANGED spool /\ wire' = wire /\ offset' = offset /\ replays' = replays + 1
      /\ example' = example /\ repeats' = repeats /\ drops' = drops
      /\ runs < MaxRuns /\ runs' = runs + 1 /\ expected' = 0 /\ asm' = Nil
      /\ shown' = << >> /\ client' = "waiting" /\ frames' = frames
  BY DEF Rerun, spool
<1>2. replays' \in Nat /\ replays' <= runs' /\ runs' \in 1..MaxRuns
  BY <1>1, OutsideFacts, Constants
<1>3. Carried'
  BY <1>1 DEF IInv, Carried
<1>4. Gapless'
  BY <1>1 DEF IInv, Gapless
<1>5. Printed'
  <2>1. Whole(frames', 0) = 0 /\ Pending(frames', 0) = Nil /\ Chunks(0) = << >>
    BY DEF Whole, Pending, Chunks
  <2>2. done' => 0 < Len(frames')
    BY FileKept, <1>1 DEF Finished
  <2> QED
    BY <1>1, <2>1, <2>2 DEF Printed
<1>6. CASE done
  <2>1. 0 \in 0..Len(frames)
    BY OutsideFacts
  <2> QED
    BY <1>1, <1>2, <1>3, <1>4, <1>5, <1>6, <2>1, OutsideFacts, OutsideStep
<1>7. CASE ~done
  <2>1. /\ Building' /\ Finished' /\ done' = done /\ items' = items
        /\ response' = response /\ added' = added /\ status' = status
    BY <1>1, FileKept
  <2>2. replays' \in 0..MaxRuns /\ 0 \in 0..Len(frames)
    BY <1>1, <1>2, OutsideFacts, Constants
  <2>3. TypeOK'
    BY <1>1, <2>1, <2>2 DEF IInv, TypeOK
  <2>4. Shapes'
    BY <1>1, <1>2, <2>1 DEF IInv, Shapes
  <2>5. Idle'
    BY <1>1, <1>7, <2>1 DEF IInv, Idle
  <2> QED
    BY <1>3, <1>4, <1>5, <2>1, <2>3, <2>4, <2>5 DEF IInv
<1> QED
  BY <1>6, <1>7, OutsideFacts

-----------------------------------------------------------------------------
(* The client.                                                             *)

(* One more item printed.                                                  *)
LEMMA ChunksGrow ==
  ASSUME NEW r \in Nat
  PROVE  Append(Chunks(r), <<"chunk", r + 1>>) = Chunks(r + 1)
<1> DEFINE S == {"chunk"} \X Nat
           x == <<"chunk", r + 1>>
<1>1. /\ Chunks(r) \in Seq(S) /\ Len(Chunks(r)) = r
      /\ \A i \in 1..r : Chunks(r)[i] = <<"chunk", i>>
  BY DEF Chunks
<1>2. /\ Chunks(r + 1) \in Seq(S) /\ Len(Chunks(r + 1)) = r + 1
      /\ \A i \in 1..r + 1 : Chunks(r + 1)[i] = <<"chunk", i>>
  BY DEF Chunks
<1>3. x \in S
  OBVIOUS
<1> HIDE DEF S
<1>4. /\ Append(Chunks(r), x) \in Seq(S) /\ Len(Append(Chunks(r), x)) = r + 1
      /\ \A i \in 1..r : Append(Chunks(r), x)[i] = Chunks(r)[i]
      /\ Append(Chunks(r), x)[r + 1] = x
  BY <1>1, <1>3
<1> DEFINE A == Append(Chunks(r), x)
<1>5. \A i \in 1..r + 1 : A[i] = Chunks(r + 1)[i]
  <2> SUFFICES ASSUME NEW i \in 1..r + 1 PROVE A[i] = Chunks(r + 1)[i]
    OBVIOUS
  <2>1. CASE i \in 1..r
    BY <1>1, <1>2, <1>4, <2>1
  <2>2. CASE i = r + 1
    BY <1>2, <1>4, <2>2
  <2>3. i \in 1..r \/ i = r + 1
    OBVIOUS
  <2> QED
    BY <2>1, <2>2, <2>3
<1> HIDE DEF A, x
<1> QED
  BY <1>2, <1>4, <1>5, SeqEqual DEF A, x

(* ResponseAssembler::Accept of the frame that comes next in the file: it  *)
(* is never refused, and puts the records together as they were written.   *)
LEMMA AcceptsNext ==
  ASSUME IInv, UNCHANGED spool, done, client = "waiting", NEW f,
         expected + 1 \in 1..Len(frames), f = frames[expected + 1],
         expected' = expected + 1, Accept(f)
  PROVE  /\ Printed' /\ client' \in {"waiting", "finished"}
         /\ asm' \in Frames \cup {Nil}
<1> DEFINE e == expected
           N == Len(frames)
<1>1. /\ frames \in Seq(Frames) /\ N \in Nat /\ e \in Nat /\ e \in 0..N /\ e + 1 <= N
      /\ Nil \notin Frames
  BY OutsideFacts, Constants
<1>2. f \in Frames /\ f.part \in Nat /\ f.total \in Nat /\ f.rec \in Nat
  BY <1>1, FramesFields
<1>3. Chained(frames)
  BY DEF IInv, Finished
<1>4. asm = Pending(frames, e) /\ shown = Chunks(Whole(frames, e))
  BY DEF IInv, Printed
<1>5. f.part >= 1 /\ f.part <= f.total
  <2>1. f.part \in 1..f.total
    BY <1>3 DEF Chained
  <2> QED
    BY <1>2, <2>1
<1>6. f.kind = "chunk" => f.rec = Whole(frames, e) + 1
  <2>1. f.kind = "chunk" => f.rec = Whole(frames, (e + 1) - 1) + 1
    BY <1>3 DEF Chained
  <2>2. (e + 1) - 1 = e
    BY <1>1
  <2> QED
    BY <2>1, <2>2
<1>7. Whole(frames, e) \in Nat
  BY <1>1, <1>3, WholeNat
<1>8. \/ asm = Nil /\ f.part = 1
      \/ asm # Nil /\ Follows(asm, f) /\ asm.part >= 1 /\ asm \in Frames
      \/ Aborts(f)
  <2>1. CASE e = 0
    BY <1>1, <1>3, <1>4, <2>1 DEF Chained, Pending
  <2>2. CASE e # 0
    <3>1. e \in 1..N - 1 /\ e \in 1..N /\ e > 0
      BY <1>1, <2>2
    <3>2. frames[e] \in Frames /\ frames[e].part \in Nat /\ frames[e].total \in Nat
      BY <1>1, <3>1, FramesFields
    <3>3. Follows(frames[e], f) \/ Starts(frames[e], f) \/ Aborts(f)
      BY <1>3, <3>1 DEF Chained
    <3>4. frames[e].part \in 1..frames[e].total
      BY <1>3, <3>1 DEF Chained
    <3>5. CASE Follows(frames[e], f)
      <4>1. asm = frames[e]
        BY <1>4, <3>1, <3>5 DEF Pending, Follows
      <4> QED
        BY <1>1, <3>2, <3>4, <3>5, <4>1
    <3>6. CASE Starts(frames[e], f)
      <4>1. ~(frames[e].part < frames[e].total)
        BY <3>2, <3>6 DEF Starts
      <4> QED
        BY <1>4, <3>6, <4>1 DEF Pending, Starts
    <3> QED
      BY <3>3, <3>5, <3>6
  <2> QED
    BY <2>1, <2>2
<1> HIDE DEF e, N
<1>9. Plain(f) \/ Fits(f)
  <2>1. CASE asm = Nil /\ f.part = 1
    BY <1>2, <1>5, <2>1 DEF Plain, Fits
  <2>2. CASE asm # Nil /\ Follows(asm, f) /\ asm.part >= 1 /\ asm \in Frames
    <3>1. asm.part \in Nat /\ asm.total \in Nat
      BY <2>2, FramesFields
    <3>2. /\ f.part = asm.part + 1 /\ asm.part < asm.total
          /\ <<f.kind, f.rec, f.total, f.first>> = <<asm.kind, asm.rec, asm.total, asm.first>>
      BY <2>2 DEF Follows
    <3>3. f.total > 1
      <4>1. f.total = asm.total
        BY <3>2
      <4> QED
        BY <2>2, <3>1, <3>2, <4>1
    <3> QED
      BY <2>2, <3>2, <3>3 DEF Fits
  <2>3. CASE Aborts(f)
    BY <2>3 DEF Aborts, Plain
  <2> QED
    BY <1>8, <2>1, <2>2, <2>3
<1>10. \/ f.part = f.total /\ Show(f)
       \/ f.part < f.total /\ asm' = f /\ UNCHANGED <<shown, client>>
  <2>1. Plain(f) => f.part = f.total
    BY <1>2, <1>5 DEF Plain
  <2> QED
    BY <1>9, <2>1 DEF Accept
<1>11. frames' = frames /\ done' = done /\ items' = items /\ Last' = Last
  BY DEF spool, Last
<1>12. Whole(frames, e + 1) = IF f.kind # "chunk" THEN 0
                              ELSE IF f.part = f.total THEN f.rec ELSE f.rec - 1
  <2>1. e + 1 # 0 /\ f = frames[e + 1]
    BY <1>1 DEF e
  <2> QED
    BY <2>1 DEF Whole
<1>13. Pending(frames, e + 1) = IF f.part < f.total THEN f ELSE Nil
  <2>1. e + 1 > 0 /\ f = frames[e + 1]
    BY <1>1 DEF e
  <2> QED
    BY <2>1 DEF Pending
<1>14. CASE e + 1 = N
  <2>1. f = Last
    BY <1>14 DEF Last, e, N
  <2>2. N - 1 = e
    BY <1>1, <1>14
  <2>3. f.kind # "chunk" /\ f.part = f.total /\ Whole(frames, e) = items
    BY <2>1, <2>2 DEF IInv, Finished, N
  <2>4. Show(f)
    BY <1>2, <1>10, <2>3
  <2>5. /\ shown' = Append(Chunks(items), <<Last.kind, Last.rec>>) /\ asm' = Nil
        /\ client' = "finished"
    BY <1>4, <2>1, <2>3, <2>4 DEF Show, Ends
  <2> QED
    BY <1>11, <2>5 DEF Printed
<1>15. CASE e + 1 # N
  <2>1. e + 1 \in 1..N - 1 /\ e + 1 < N
    BY <1>1, <1>15
  <2>2. f.kind = "chunk" \/ (f.part < f.total /\ items = 0)
    BY <2>1 DEF IInv, Finished, e, N
  <2>3. expected' = e + 1 /\ client = "waiting"
    BY DEF e
  <2>4. CASE f.part = f.total
    <3>1. Show(f) /\ ~(f.part < f.total) /\ f.kind = "chunk"
      BY <1>2, <1>10, <2>2, <2>4
    <3>2. /\ shown' = Append(Chunks(Whole(frames, e)), <<"chunk", f.rec>>)
          /\ asm' = Nil /\ client' = "waiting"
      BY <1>4, <2>3, <3>1 DEF Show, Ends
    <3>3. shown' = Chunks(Whole(frames, e) + 1)
      BY <1>6, <1>7, <3>1, <3>2, ChunksGrow
    <3>4. Whole(frames, e + 1) = Whole(frames, e) + 1
      BY <1>6, <1>12, <2>4, <3>1
    <3>5. asm' = Pending(frames, e + 1)
      BY <1>13, <3>1, <3>2
    <3> QED
      BY <1>11, <2>1, <2>3, <3>2, <3>3, <3>4, <3>5 DEF Printed, N
  <2>5. CASE f.part < f.total
    <3>1. asm' = f /\ shown' = shown /\ client' = "waiting"
      BY <1>2, <1>10, <2>3, <2>5
    <3>2. Whole(frames, e + 1) = Whole(frames, e)
      <4>1. CASE f.kind = "chunk"
        <5>1. Whole(frames, e + 1) = f.rec - 1
          BY <1>2, <1>12, <2>5, <4>1
        <5> QED
          BY <1>6, <1>7, <4>1, <5>1
      <4>2. CASE f.kind # "chunk" /\ e = 0
        BY <1>12, <4>2 DEF Whole
      <4>3. CASE f.kind # "chunk" /\ e # 0
        <5>1. e \in 1..N - 1 /\ items = 0
          BY <1>1, <2>1, <2>2, <4>3
        <5>2. Whole(frames, e) <= items
          BY <5>1 DEF IInv, Finished, N
        <5> QED
          BY <1>7, <1>12, <4>3, <5>1, <5>2
      <4> QED
        BY <4>1, <4>2, <4>3
    <3>3. asm' = Pending(frames, e + 1)
      BY <1>13, <2>5, <3>1
    <3>4. shown' = Chunks(Whole(frames, e + 1))
      BY <1>4, <3>1, <3>2
    <3> QED
      BY <1>2, <1>11, <2>1, <2>3, <3>1, <3>3, <3>4 DEF Printed, N
  <2> QED
    BY <1>2, <1>5, <2>4, <2>5
<1> QED
  BY <1>14, <1>15

(* A stream is empty when its length is zero.                              *)
LEMMA EmptyIff ==
  ASSUME NEW ws \in Seq(Frames)
  PROVE  ws = << >> <=> Len(ws) = 0
OBVIOUS

(* A stream without its oldest entry.                                      *)
LEMMA TailFacts ==
  ASSUME NEW ws \in Seq(Frames), ws # << >>
  PROVE  /\ Tail(ws) \in Seq(Frames) /\ Len(Tail(ws)) = Len(ws) - 1 /\ Len(ws) >= 1
         /\ Head(ws) = ws[1] /\ \A i \in 1..Len(ws) - 1 : Tail(ws)[i] = ws[i + 1]
BY HeadTailProperties

(* The client acknowledges the oldest entry: it has now seen that frame,   *)
(* or the frame is left over from an earlier run.                          *)
LEMMA ConsumeStep ==
  ASSUME IInv, done, wire # << >>, wire' = Tail(wire),
         UNCHANGED <<spool, offset, replays, bounds>>,
         expected' \in 0..Len(frames), expected' # 0 => wire[1].seq + 1 <= expected',
         asm' \in Frames \cup {Nil}, client' \in {"waiting", "finished"} \/ client' = client,
         Printed'
  PROVE  IInv'
<1> DEFINE W == Len(wire)
<1>1. /\ frames' = frames /\ offset' = offset /\ drops' = drops /\ example' = example
      /\ replays' = replays /\ runs' = runs /\ repeats' = repeats
  BY DEF spool, bounds
<1>2. wire \in Seq(Frames) /\ W \in Nat /\ W <= Window /\ Window \in Nat
  BY OutsideFacts, Constants
<1>3. /\ wire' \in Seq(Frames) /\ Len(wire') = W - 1 /\ W >= 1
      /\ \A i \in 1..W - 1 : wire'[i] = wire[i + 1]
  BY <1>2, TailFacts
<1>4. Len(wire') <= Window
  BY <1>2, <1>3
<1>5. Carried'
  <2> SUFFICES ASSUME NEW i \in 1..W - 1
               PROVE  wire'[i].seq + 1 \in 1..Len(frames) /\ wire'[i] = frames[wire'[i].seq + 1]
    BY <1>1, <1>3 DEF Carried
  <2>1. i + 1 \in 1..W
    BY <1>2
  <2>2. /\ wire[i + 1].seq + 1 \in 1..Len(frames)
        /\ wire[i + 1] = frames[wire[i + 1].seq + 1]
    BY <2>1 DEF IInv, Carried
  <2>3. wire'[i] = wire[i + 1]
    BY <1>3
  <2> QED
    BY <2>2, <2>3, Zenon
<1>6. Gapless'
  <2> SUFFICES ASSUME drops = 0 PROVE Gapless'
    BY <1>1 DEF Gapless
  <2>1. /\ \A i \in 1..W - 1 : wire[i + 1].seq <= wire[i].seq + 1
        /\ offset <= wire[W].seq + 1
        /\ (~example => client # "failed")
    BY DEF IInv, Gapless
  <2>2. \A i \in 1..W : wire[i].seq \in Nat
    BY <1>2, FramesFields
  <2> HIDE DEF W
  <2>3. \A i \in 1..(W - 1) - 1 : wire'[i + 1].seq <= wire'[i].seq + 1
    <3> SUFFICES ASSUME NEW i \in 1..(W - 1) - 1
                 PROVE  wire'[i + 1].seq <= wire'[i].seq + 1
      OBVIOUS
    <3>1. i \in 1..W - 1 /\ i + 1 \in 1..W - 1
      BY <1>2
    <3>2. wire'[i] = wire[i + 1] /\ wire'[i + 1] = wire[(i + 1) + 1]
      BY <1>3, <3>1
    <3> QED
      BY <2>1, <3>1, <3>2
  <2>4. W > 1 => offset <= wire'[W - 1].seq + 1
    <3>1. W > 1 => W - 1 \in 1..W - 1 /\ (W - 1) + 1 = W
      BY <1>2
    <3> QED
      BY <1>3, <2>1, <3>1
  <2>5. expected' # 0 => IF W = 1 THEN offset <= expected' ELSE wire'[1].seq <= expected'
    <3> SUFFICES ASSUME expected' # 0
                 PROVE  IF W = 1 THEN offset <= expected' ELSE wire'[1].seq <= expected'
      OBVIOUS
    <3>1. wire[1].seq + 1 <= expected' /\ expected' \in Nat /\ offset \in Nat
      BY OutsideFacts
    <3>2. CASE W = 1
      BY <2>1, <2>2, <3>1, <3>2
    <3>3. CASE W # 1
      <4>1. 1 \in 1..W - 1 /\ 1 \in 1..W /\ 1 + 1 \in 1..W
        BY <1>2, <1>3, <3>3
      <4>2. wire'[1] = wire[1 + 1] /\ wire[1 + 1].seq <= wire[1].seq + 1
        BY <1>3, <2>1, <4>1
      <4>3. wire[1].seq \in Nat /\ wire[1 + 1].seq \in Nat
        BY <2>2, <4>1
      <4>4. wire[1 + 1].seq <= expected'
        BY <3>1, <4>2, <4>3
      <4>5. wire'[1].seq <= expected'
        BY <4>2, <4>4, Zenon
      <4> QED
        BY <3>3, <4>5
    <3> QED
      BY <3>2, <3>3
  <2>6. (wire' = << >> <=> W = 1) /\ (W # 1 => W > 1)
    <3>1. wire' = << >> <=> Len(wire') = 0
      BY <1>3, EmptyIff
    <3>2. Len(wire') = W - 1 /\ (W - 1 = 0 <=> W = 1)
      BY <1>2, <1>3
    <3>3. W # 1 => W > 1
      BY <1>2, <1>3
    <3> QED
      BY <3>1, <3>2, <3>3, Zenon
  <2>7. ~example => client' # "failed"
    BY <2>1
  <2> QED
    BY <1>1, <1>3, <2>3, <2>4, <2>5, <2>6, <2>7 DEF Gapless
<1> QED
  BY <1>1, <1>3, <1>4, <1>5, <1>6, OutsideFacts, OutsideStep

(* The client gives up: gateway-client does only after a drop.             *)
LEMMA FailStep ==
  ASSUME IInv, done, client = "waiting", client' = "failed", drops = 0 => example,
         UNCHANGED <<spool, offset, wire, replays, expected, asm, shown, bounds>>
  PROVE  IInv'
<1>1. /\ frames' = frames /\ offset' = offset /\ drops' = drops /\ example' = example
      /\ replays' = replays /\ runs' = runs /\ repeats' = repeats /\ wire' = wire
      /\ expected' = expected /\ asm' = asm /\ shown' = shown
      /\ done' = done /\ items' = items
  BY DEF spool, bounds
<1>2. Printed'
  BY <1>1 DEF IInv, Printed
<1>3. Carried'
  BY <1>1 DEF IInv, Carried
<1>4. Gapless'
  BY <1>1 DEF IInv, Gapless
<1> QED
  BY <1>1, <1>2, <1>3, <1>4, OutsideFacts, OutsideStep

(* What the client finds at the head of the stream.                        *)
LEMMA HeadFacts ==
  ASSUME IInv, wire # << >>
  PROVE  /\ done /\ Head(wire) = wire[1] /\ Head(wire) \in Frames /\ Head(wire).seq \in Nat
         /\ Head(wire).seq + 1 \in 1..Len(frames)
         /\ Head(wire) = frames[Head(wire).seq + 1]
<1>1. wire \in Seq(Frames) /\ Len(wire) >= 1 /\ Head(wire) = wire[1] /\ Len(wire) \in Nat
  BY OutsideFacts, TailFacts
<1>2. 1 \in 1..Len(wire)
  BY <1>1
<1>3. wire[1] \in Frames
  BY <1>1, <1>2
<1>4. wire[1].seq \in Nat
  BY <1>3, FramesFields
<1>5. wire[1].seq + 1 \in 1..Len(frames) /\ wire[1] = frames[wire[1].seq + 1]
  BY <1>2 DEF IInv, Carried
<1>6. done
  BY DEF IInv, Idle
<1> QED
  BY <1>1, <1>3, <1>4, <1>5, <1>6, Zenon

(* The next frame of the file is accepted and acknowledged.                *)
LEMMA NextFrameStep ==
  ASSUME IInv, client = "waiting", wire # << >>, IsNext(Head(wire)),
         expected' = expected + 1, Accept(Head(wire)),
         wire' = IF client' = "failed" THEN wire ELSE Tail(wire),
         UNCHANGED <<spool, offset, replays, bounds>>
  PROVE  IInv'
<1> DEFINE f == Head(wire)
<1>1. /\ done /\ f = wire[1] /\ f.seq \in Nat /\ f.seq + 1 \in 1..Len(frames)
      /\ f = frames[f.seq + 1]
  BY HeadFacts
<1>2. f.seq = expected /\ Accept(f)
  BY DEF IsNext
<1> HIDE DEF f
<1>3. expected + 1 \in 1..Len(frames) /\ f = frames[expected + 1]
  BY <1>1, <1>2
<1>4. Printed' /\ client' \in {"waiting", "finished"} /\ asm' \in Frames \cup {Nil}
  BY <1>1, <1>2, <1>3, AcceptsNext
<1>5. wire' = Tail(wire)
  BY <1>4
<1>6. expected' \in 0..Len(frames) /\ wire[1].seq + 1 <= expected'
  <2>1. wire[1].seq = expected /\ expected \in Nat /\ Len(frames) \in Nat
    BY <1>1, <1>2, OutsideFacts
  <2> QED
    BY <1>3, <2>1
<1> QED
  BY <1>1, <1>4, <1>5, <1>6, ConsumeStep

(* gateway-client, Wait.                                                   *)
LEMMA WaitStep == IInv /\ Wait => IInv'
<1> SUFFICES ASSUME IInv, Wait PROVE IInv'
  OBVIOUS
<1> DEFINE f == Head(wire)
<1>1. /\ ~example /\ client = "waiting" /\ wire # << >>
      /\ UNCHANGED <<spool, offset, replays, bounds>>
  BY DEF Wait
<1>2. /\ done /\ f = wire[1] /\ f.seq \in Nat
  BY <1>1, HeadFacts
<1>3. expected \in Nat /\ expected \in 0..Len(frames) /\ asm \in Frames \cup {Nil}
  BY OutsideFacts
<1>4. CASE Gap(f) /\ client' = "failed" /\ UNCHANGED <<wire, expected, asm, shown>>
  <2>1. drops # 0
    <3> SUFFICES ASSUME drops = 0 PROVE FALSE
      OBVIOUS
    <3>1. expected # 0 /\ f.seq > expected
      BY <1>4 DEF Gap
    <3>2. wire[1].seq <= expected
      BY <1>1, <3>1 DEF IInv, Gapless
    <3> QED
      BY <1>2, <1>3, <3>1, <3>2
  <2> QED
    BY <1>1, <1>2, <1>4, <2>1, FailStep
<1>5. CASE ~Gap(f) /\ ~IsNext(f) /\ wire' = Tail(wire) /\ UNCHANGED waiting
  <2>1. expected' = expected /\ asm' = asm /\ client' = client
    BY <1>5 DEF waiting
  <2>2. expected' # 0 => wire[1].seq + 1 <= expected'
    BY <1>2, <1>3, <1>5, <2>1 DEF Gap, IsNext
  <2>3. Printed'
    BY <1>1, <1>5, PrintedKept
  <2> QED
    BY <1>1, <1>2, <1>3, <1>5, <2>1, <2>2, <2>3, ConsumeStep
<1>6. CASE /\ IsNext(f) /\ expected' = expected + 1 /\ Accept(f)
           /\ wire' = IF client' = "failed" THEN wire ELSE Tail(wire)
  BY <1>1, <1>6, NextFrameStep
<1> QED
  BY <1>4, <1>5, <1>6 DEF Wait

(* The example, Receive.                                                   *)
LEMMA ReceiveStep == IInv /\ Receive => IInv'
<1> SUFFICES ASSUME IInv, Receive PROVE IInv'
  OBVIOUS
<1> DEFINE f == Head(wire)
<1>1. /\ example /\ client = "waiting" /\ wire # << >>
      /\ UNCHANGED <<spool, offset, replays, bounds>>
  BY DEF Receive
<1>2. done
  BY <1>1, HeadFacts
<1>3. CASE client' = "failed" /\ UNCHANGED <<wire, expected, asm, shown>>
  BY <1>1, <1>2, <1>3, FailStep
<1>4. CASE /\ ~OutOfPlace(f) /\ expected' = expected + 1 /\ Accept(f)
           /\ wire' = IF client' = "failed" THEN wire ELSE Tail(wire)
  <2>1. IsNext(f)
    BY <1>4 DEF OutOfPlace, IsNext
  <2> QED
    BY <1>1, <1>4, <2>1, NextFrameStep
<1> QED
  BY <1>3, <1>4 DEF Receive

-----------------------------------------------------------------------------
(* Every step keeps the invariant.                                         *)
LEMMA NextIInv == IInv /\ [Next]_vars => IInv'
<1> SUFFICES ASSUME IInv, [Next]_vars PROVE IInv'
  OBVIOUS
<1>1. CASE Worker
  BY <1>1, AddStep, FinishDumpStep, SingleStep DEF Worker
<1>2. CASE Deliver \/ DeliverUnheard \/ Replay \/ Drop \/ Rerun
  BY <1>2, DeliverStep, ReplayStep, DropStep, RerunStep
<1>3. CASE Wait \/ Receive
  BY <1>3, WaitStep, ReceiveStep
<1>4. CASE UNCHANGED vars
  <2>1. /\ UNCHANGED <<response, added, frames, items, status, done, offset, wire>>
        /\ UNCHANGED <<replays, expected, asm, shown, client>>
        /\ UNCHANGED <<example, repeats, runs, drops>> /\ UNCHANGED spool
    BY <1>4 DEF vars, spool, waiting, bounds
  <2>2. Building' /\ Finished'
    BY <2>1, FileKept
  <2>3. TypeOK' /\ Shapes'
    BY <2>1 DEF IInv, TypeOK, Shapes
  <2>4. Idle' /\ Carried' /\ Gapless'
    BY <2>1 DEF IInv, Idle, Carried, Gapless
  <2>5. Printed'
    BY <2>1, PrintedKept DEF waiting
  <2> QED
    BY <2>2, <2>3, <2>4, <2>5 DEF IInv
<1> QED
  BY <1>1, <1>2, <1>3, <1>4 DEF Next, Server

(* The inductive invariant of Response.                                    *)
THEOREM Inductive == Spec => []IInv
BY InitIInv, NextIInv, PTL DEF Spec

(* Response's types, and that frames are numbered by their place in the    *)
(* file (Spool::WriteRecord, sequence_).                                   *)
THEOREM ResponseTypeCorrect == Spec => []TypeOK
<1>1. IInv => TypeOK
  BY DEF IInv
<1> QED
  BY <1>1, Inductive, PTL

(* Spool::Finish and Single: the file ends in exactly one terminal frame,  *)
(* and "complete" only if every item is in it as a whole; with the reserve *)
(* for that frame the file never outgrows its limit.                       *)
THEOREM TerminalFrameIsTrue == Spec => []TerminalIsTrue
<1>1. ASSUME IInv PROVE TerminalIsTrue
  <2>0. Limit \in Nat /\ Reserve \in Nat /\ Len(frames) \in Nat /\ done \in BOOLEAN
    BY <1>1, Constants, OutsideFacts
  <2>1. CASE ~done
    <3>1. Len(frames) <= Limit - Reserve
      BY <1>1, <2>1 DEF IInv, Building
    <3> QED
      BY <2>0, <2>1, <3>1 DEF TerminalIsTrue
  <2>2. CASE done
    <3>1. /\ Chained(frames) /\ Len(frames) <= Limit
          /\ \A i \in 1..Len(frames) - 1 :
               frames[i].kind = "chunk" \/ frames[i].part < frames[i].total
          /\ Last.kind # "chunk"
          /\ (Last.kind = "complete" =>
               /\ items = Len(response.sizes) /\ Last.rec = items
               /\ Last.seq = Cardinality(Places(response.sizes, items)))
      BY <1>1, <2>2 DEF IInv, Finished
    <3>2. ASSUME NEW i \in 1..Len(frames) - 1, frames[i].part < frames[i].total
          PROVE  frames[i].total > 1
      <4>1. i \in 1..Len(frames)
        BY <2>0
      <4>2. frames[i] \in Frames /\ frames[i].part \in 1..frames[i].total
        BY <1>1, <3>1, <4>1 DEF IInv, Shapes, Chained
      <4>3. frames[i].part \in Nat /\ frames[i].total \in Nat
        BY <4>2, FramesFields
      <4> QED
        BY <3>2, <4>2, <4>3
    <3>3. Places(response.sizes, items)
            = UNION {{i} \X (1..response.sizes[i]) : i \in 1..items}
      BY DEF Places
    <3> QED
      BY <3>1, <3>2, <3>3 DEF TerminalIsTrue
  <2> QED
    BY <2>0, <2>1, <2>2
<1> QED
  BY <1>1, Inductive, PTL

(* gateway-client fails only after Redis dropped a part of the response:   *)
(* repeated, replayed and left-over frames never look like a gap to Wait.  *)
THEOREM OnlyDropsAreGaps == Spec => []NoFalseGap
<1>1. IInv => NoFalseGap
  BY DEF IInv, Gapless, NoFalseGap
<1> QED
  BY <1>1, Inductive, PTL

(* The whole response, as a client should print it.                        *)
LEMMA IntendedFacts ==
  ASSUME IInv, done
  PROVE  Intended = Append(Chunks(items), <<Last.kind, Last.rec>>)
<1>1. items \in Nat /\ response.mode \in {"dump", "single"}
      /\ (response.mode = "single" => items = 0)
  <2>1. response \in Responses /\ items \in Nat /\ (response.mode = "single" => items = 0)
    BY DEF IInv, TypeOK, Shapes
  <2> QED
    BY <2>1, Constants
<1>2. Chunks(items) = (IF response.mode = "dump" THEN [i \in 1..items |-> <<"chunk", i>>]
                                                ELSE << >>)
  <2>1. Chunks(0) = << >>
    BY DEF Chunks
  <2> QED
    BY <1>1, <2>1 DEF Chunks
<1> DEFINE x == <<Last.kind, Last.rec>>
           S == {"chunk"} \X Nat \cup {x}
<1>3. Chunks(items) \in Seq(S)
  BY <1>1 DEF Chunks
<1>4. x \in S
  OBVIOUS
<1> HIDE DEF x, S
<1>5. Chunks(items) \o <<x>> = Append(Chunks(items), x)
  BY <1>3, <1>4
<1> QED
  BY <1>2, <1>5 DEF Intended, x

(* The first items of it, and all of it, as SubSeq gives them.             *)
LEMMA PrintedPieces ==
  ASSUME NEW r \in Nat, NEW w \in 0..r, NEW x
  PROVE  /\ SubSeq(Append(Chunks(r), x), 1, w) = Chunks(w)
         /\ Len(Chunks(w)) = w /\ Len(Append(Chunks(r), x)) = r + 1
         /\ SubSeq(Append(Chunks(r), x), 1, r + 1) = Append(Chunks(r), x)
<1> DEFINE S == {"chunk"} \X Nat \cup {x}
           A == Append(Chunks(r), x)
<1>1. /\ Chunks(r) \in Seq(S) /\ Len(Chunks(r)) = r
      /\ \A i \in 1..r : Chunks(r)[i] = <<"chunk", i>>
  BY DEF Chunks
<1>2. /\ Chunks(w) \in Seq(S) /\ Len(Chunks(w)) = w
      /\ \A i \in 1..w : Chunks(w)[i] = <<"chunk", i>>
  BY DEF Chunks
<1>3. x \in S
  OBVIOUS
<1> HIDE DEF S
<1>4. /\ A \in Seq(S) /\ Len(A) = r + 1 /\ \A i \in 1..r : A[i] = Chunks(r)[i]
  BY <1>1, <1>3
<1> HIDE DEF A
<1>5. /\ SubSeq(A, 1, w) \in Seq(S) /\ Len(SubSeq(A, 1, w)) = w
      /\ \A i \in 1..w : SubSeq(A, 1, w)[i] = A[i]
  <2>1. 1 \in 1..Len(A) + 1 /\ w \in 0..Len(A)
    BY <1>4
  <2> QED
    BY <1>4, <2>1, SubSeqProperties
<1>6. \A i \in 1..w : SubSeq(A, 1, w)[i] = Chunks(w)[i]
  <2> SUFFICES ASSUME NEW i \in 1..w PROVE SubSeq(A, 1, w)[i] = Chunks(w)[i]
    OBVIOUS
  <2>1. i \in 1..r
    OBVIOUS
  <2> QED
    BY <1>1, <1>2, <1>4, <1>5, <2>1
<1>7. SubSeq(A, 1, w) = Chunks(w)
  BY <1>2, <1>5, <1>6, SeqEqual
<1>8. /\ SubSeq(A, 1, r + 1) \in Seq(S) /\ Len(SubSeq(A, 1, r + 1)) = r + 1
      /\ \A i \in 1..r + 1 : SubSeq(A, 1, r + 1)[i] = A[i]
  <2>1. 1 \in 1..Len(A) + 1 /\ r + 1 \in 0..Len(A)
    BY <1>4
  <2> QED
    BY <1>4, <2>1, SubSeqProperties
<1>9. SubSeq(A, 1, r + 1) = A
  BY <1>4, <1>8, SeqEqual
<1> QED
  BY <1>2, <1>4, <1>7, <1>9 DEF A

(* What a client prints is an initial piece of the response, and all of it *)
(* when the client stops waiting, whatever the main thread publishes again *)
(* or Redis drops: gateway-client's Wait and the example's Receive, with   *)
(* ResponseAssembler::Accept.                                              *)
THEOREM ClientsPrintThePrefix == Spec => []ShownIsExact
<1>1. ASSUME IInv PROVE ShownIsExact
  <2>0. done \in BOOLEAN /\ expected \in Nat /\ Len(frames) \in Nat /\ items \in Nat
    BY <1>1, OutsideFacts DEF IInv, TypeOK
  <2>1. CASE ~done
    BY <1>1, <2>1 DEF IInv, Idle, ShownIsExact
  <2>2. CASE done
    <3> DEFINE x == <<Last.kind, Last.rec>>
    <3>1. Intended = Append(Chunks(items), x)
      BY <1>1, <2>2, IntendedFacts
    <3> HIDE DEF x
    <3>2. CASE client = "finished"
      <4>1. shown = Append(Chunks(items), x)
        BY <1>1, <2>2, <3>2 DEF IInv, Printed, x
      <4>2. /\ Len(Append(Chunks(items), x)) = items + 1
            /\ SubSeq(Append(Chunks(items), x), 1, items + 1) = Append(Chunks(items), x)
        <5>1. items \in 0..items
          BY <2>0
        <5> QED
          BY <2>0, <5>1, PrintedPieces
      <4>3. shown = SubSeq(Intended, 1, Len(shown))
        BY <3>1, <4>1, <4>2, Zenon
      <4> QED
        BY <2>2, <3>1, <4>1, <4>3 DEF ShownIsExact
    <3>3. CASE client # "finished"
      <4> DEFINE w == Whole(frames, expected)
      <4>1. shown = Chunks(w) /\ expected < Len(frames)
        BY <1>1, <2>2, <3>3 DEF IInv, Printed
      <4>2. w \in Nat /\ w <= items
        <5>1. CASE expected = 0
          BY <2>0, <5>1 DEF Whole
        <5>2. CASE expected # 0
          <6>1. expected \in 1..Len(frames) - 1 /\ expected \in 0..Len(frames)
            BY <2>0, <4>1, <5>2
          <6>2. w <= items /\ Chained(frames) /\ frames \in Seq(Frames)
            BY <1>1, <2>2, <6>1 DEF IInv, Finished, Shapes
          <6> QED
            BY <6>1, <6>2, WholeNat
        <5> QED
          BY <5>1, <5>2
      <4> HIDE DEF w
      <4>3. w \in 0..items
        BY <2>0, <4>2
      <4>4. Len(Chunks(w)) = w /\ SubSeq(Append(Chunks(items), x), 1, w) = Chunks(w)
        BY <2>0, <4>3, PrintedPieces
      <4>5. shown = SubSeq(Intended, 1, Len(shown))
        BY <3>1, <4>1, <4>4, Zenon
      <4> QED
        BY <2>2, <3>3, <4>5 DEF ShownIsExact
    <3> QED
      BY <3>2, <3>3
  <2> QED
    BY <2>0, <2>1, <2>2
<1> QED
  BY <1>1, Inductive, PTL
=============================================================================
