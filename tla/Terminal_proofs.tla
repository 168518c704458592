-------------------------- MODULE Terminal_proofs ---------------------------
(***************************************************************************)
(* What a window and a phone get of a run's output, for every number of    *)
(* runs and every size of window, read, chunk and output.                  *)
(***************************************************************************)
EXTENDS Terminal, SequenceTheorems, TLAPS

(* Consecutive bytes, the first of them from.                              *)
Piece(bytes, from) == \A k \in 1..Len(bytes) : bytes[k] = from + k - 1

Poll == [run : SUBSET Runs, cursor : Bytes, tail : SUBSET Answer, shown : Nat]
View == [bytes : Seq(Bytes), mixed : BOOLEAN]
Sent == [sub : Nat, bytes : Seq(Bytes), mixed : BOOLEAN]

HostTypes ==
    /\ setup \in Setups /\ up \in BOOLEAN
    /\ registered \subseteq Runs /\ reading \subseteq Runs /\ refused \subseteq Runs
    /\ printed \in [Runs -> Bytes] /\ held \in [Runs -> 0..ReadMax]
    /\ Streaming \subseteq Runs /\ \A r \in Streaming : streams[r] \in Stream
WindowTypes ==
    /\ poll \in Poll /\ late \subseteq Answer /\ view \in View
    /\ \A q, r \in poll.run : q = r
PhoneTypes == forwarders \subseteq Forwarder /\ sent \in Sent
Types == HostTypes /\ WindowTypes /\ PhoneTypes

(* A stream holds one piece that ends where the reader's buffer begins.  A *)
(* refusal is for good: streams are only closed by the host's death.       *)
StreamInv ==
    /\ \A r \in Streaming :
          /\ streams[r].from + Len(streams[r].retained) = streams[r].next
          /\ streams[r].next + held[r] = printed[r]
          /\ Piece(streams[r].retained, streams[r].from)
    /\ up => IF refused = {} THEN \A r \in Runs \ Streaming : printed[r] = held[r]
             ELSE Cardinality(Streaming) >= setup.cap
    /\ ~up => Streaming = {} /\ registered = {} /\ reading = {} /\ \A r \in Runs : held[r] = 0

(* An answer is a piece; a seamless one follows on from the cursor, and    *)
(* one that says the stream has not begun finds an empty screen.           *)
AnswerInv(t) ==
    /\ Piece(t.bytes, t.from) /\ t.from + Len(t.bytes) \in Bytes
    /\ t.kind = "seamless" => t.from = poll.cursor /\ t.reason = "none"
    /\ t.bytes # <<>> /\ up => poll.run \subseteq Streaming
    /\ t.kind = "reset" /\ t.reason = "notStarted" /\ ~view.mixed =>
          t.from = 0 /\ t.bytes = <<>> /\ view.bytes = <<>>

ViewInv ==
    /\ \A t \in poll.tail : AnswerInv(t)
    /\ ~view.mixed =>
          /\ Len(view.bytes) <= poll.cursor
          /\ Piece(view.bytes, poll.cursor - Len(view.bytes))
          /\ view.bytes # <<>> /\ up => poll.run \subseteq Streaming

(* What a forwarder counts as behind it was sent or is before its line.    *)
SentInv(f) ==
    ~f.aborted /\ ~sent.mixed =>
        \A b \in 0..(f.offset - 1) :
            b < f.line \/ \E k \in DOMAIN sent.bytes : sent.bytes[k] = b

PhoneInv == \A f \in forwarders : SentInv(f)

IInv == Types /\ StreamInv /\ ViewInv /\ PhoneInv

-----------------------------------------------------------------------------
(* Pieces *)

LEMMA BytesAreNat == MaxBytes \in Nat /\ Bytes \subseteq Nat /\ 0 \in Bytes
  BY SizeAssumption DEF Bytes

LEMMA StreamTypes ==
    ASSUME NEW s \in Stream
    PROVE  /\ s.from \in Bytes /\ s.next \in Bytes /\ s.retained \in Seq(Bytes)
           /\ s.from \in Nat /\ s.next \in Nat /\ Len(s.retained) \in Nat
<1>1. s.from \in Bytes /\ s.next \in Bytes /\ s.retained \in Seq(Bytes)
    BY DEF Stream
<1>2. Len(s.retained) \in Nat
    BY <1>1
<1>3. s.from \in Nat /\ s.next \in Nat
    BY <1>1, BytesAreNat
<1> QED BY <1>1, <1>2, <1>3

LEMMA Sizes == Window \in Nat \ {0} /\ ReadMax \in Nat \ {0} /\ ChunkMax \in Nat \ {0}
              /\ FrameMax \in Nat \ {0}
  BY SizeAssumption

LEMMA PieceOfPiece ==
    ASSUME NEW s \in Seq(Bytes), NEW from \in Bytes, Piece(s, from),
           NEW a \in 1..(Len(s) + 1), NEW b \in 0..Len(s), a <= b + 1
    PROVE  /\ SubSeq(s, a, b) \in Seq(Bytes)
           /\ Len(SubSeq(s, a, b)) = b - a + 1
           /\ Piece(SubSeq(s, a, b), from + a - 1)
<1>1. Len(s) \in Nat /\ from \in Nat /\ a \in Nat /\ b \in Nat
    BY BytesAreNat
<1>2. \A i \in a..b : s[i] \in Bytes
    BY <1>1
<1>3. /\ SubSeq(s, a, b) \in Seq(Bytes)
      /\ Len(SubSeq(s, a, b)) = b - a + 1
      /\ \A i \in 1..(b - a + 1) : SubSeq(s, a, b)[i] = s[a + i - 1]
    <2>1. CASE a <= b
        BY <1>1, <2>1, SubSeqProperties
    <2>2. CASE a = b + 1
        BY <1>1, <2>2, SubSeqProperties
    <2> QED BY <1>1, <2>1, <2>2
<1>4. ASSUME NEW i \in 1..(b - a + 1) PROVE SubSeq(s, a, b)[i] = (from + a - 1) + i - 1
    <2>1. a + i - 1 \in 1..Len(s)
        BY <1>1
    <2>2. s[a + i - 1] = from + (a + i - 1) - 1
        BY <2>1 DEF Piece
    <2> QED BY <1>1, <1>3, <2>2
<1> QED BY <1>3, <1>4 DEF Piece

LEMMA PiecesJoin ==
    ASSUME NEW u \in Seq(Bytes), NEW v \in Seq(Bytes), NEW from \in Nat,
           Piece(u, from), Piece(v, from + Len(u))
    PROVE  /\ u \o v \in Seq(Bytes) /\ Len(u \o v) = Len(u) + Len(v)
           /\ Piece(u \o v, from)
<1>1. /\ u \o v \in Seq(Bytes) /\ Len(u \o v) = Len(u) + Len(v)
      /\ \A k \in 1..(Len(u) + Len(v)) : (u \o v)[k] = IF k <= Len(u) THEN u[k] ELSE v[k - Len(u)]
    BY ConcatProperties
<1>2. Len(u) \in Nat /\ Len(v) \in Nat
    OBVIOUS
<1>3. ASSUME NEW k \in 1..(Len(u) + Len(v)) PROVE (u \o v)[k] = from + k - 1
    <2>1. CASE k <= Len(u)
        BY <1>1, <1>2, <2>1 DEF Piece
    <2>2. CASE ~(k <= Len(u))
        <3>1. k - Len(u) \in 1..Len(v)
            BY <1>2, <2>2
        <3>2. v[k - Len(u)] = (from + Len(u)) + (k - Len(u)) - 1
            BY <3>1 DEF Piece
        <3> QED BY <1>1, <1>2, <2>2, <3>2
    <2> QED BY <2>1, <2>2
<1> QED BY <1>1, <1>3 DEF Piece

(* A stream without holes.                                                 *)
Whole(s) == s.from + Len(s.retained) = s.next /\ Piece(s.retained, s.from)

(* What read_from returns is a piece of the output that begins at the      *)
(* offset or, where that was dropped, at the oldest byte there is.         *)
LEMMA ReadFromIs ==
    ASSUME NEW s \in Stream, Whole(s), NEW offset \in Bytes, offset <= s.next,
           NEW max \in Nat \ {0}
    PROVE  LET c == ReadFrom(s, offset, max)
           IN  /\ c.bytes \in Seq(Bytes) /\ c.offset \in Bytes /\ c.gap \in BOOLEAN
               /\ Piece(c.bytes, c.offset) /\ c.offset + Len(c.bytes) <= s.next
               /\ c.gap <=> offset < s.from
               /\ c.offset = IF c.gap THEN s.from ELSE offset
<1> DEFINE start == IF offset < s.from THEN 0 ELSE offset - s.from
           n == Len(s.retained)
           last == IF start + max <= n THEN start + max ELSE n
           at == IF offset < s.from THEN s.from ELSE offset
<1>1. /\ s.from \in Bytes /\ s.next \in Bytes /\ s.retained \in Seq(Bytes) /\ n \in Nat
      /\ s.from \in Nat /\ s.next \in Nat /\ offset \in Nat /\ max \in Nat \ {0}
    BY BytesAreNat, StreamTypes, Sizes
<1>2. s.from + n = s.next
    BY DEF Whole
<1>3. start \in 0..n /\ last \in start..n /\ at = s.from + start
    BY <1>1, <1>2
<1>4. ReadFrom(s, offset, max) =
        [offset |-> at, bytes |-> SubSeq(s.retained, start + 1, last), gap |-> offset < s.from]
    BY DEF ReadFrom
<1>5. at \in Bytes
    BY <1>1
<1> HIDE DEF start, last, n
<1>6. start + 1 \in 1..(n + 1) /\ last \in 0..n /\ start + 1 <= last + 1
    BY <1>1, <1>3
<1>7. /\ SubSeq(s.retained, start + 1, last) \in Seq(Bytes)
      /\ Len(SubSeq(s.retained, start + 1, last)) = last - start
      /\ Piece(SubSeq(s.retained, start + 1, last), at)
    <2>1. Piece(s.retained, s.from)
        BY DEF Whole
    <2>2. last - (start + 1) + 1 = last - start /\ s.from + (start + 1) - 1 = at
        BY <1>1, <1>3
    <2> QED BY <1>1, <1>6, <2>1, <2>2, PieceOfPiece DEF n
<1>8. at + (last - start) <= s.next
    BY <1>1, <1>2, <1>3
<1>9. (offset < s.from) \in BOOLEAN
    BY <1>1
<1>10. at = IF offset < s.from THEN s.from ELSE offset
    OBVIOUS
<1> DEFINE c == ReadFrom(s, offset, max)
<1> DEFINE bytes == SubSeq(s.retained, start + 1, last)
           gap == offset < s.from
<1>11. c.offset = at /\ c.bytes = bytes /\ c.gap = gap
    <2>1. c = [offset |-> at, bytes |-> bytes, gap |-> gap]
        BY <1>4
    <2> HIDE DEF at, bytes, gap, c
    <2> QED BY <2>1
<1> HIDE DEF at, c
<1>12. c.bytes \in Seq(Bytes) /\ Piece(c.bytes, c.offset) /\ c.offset + Len(c.bytes) <= s.next
    BY <1>7, <1>8, <1>11
<1>13. c.offset \in Bytes /\ c.gap \in BOOLEAN /\ (c.gap <=> offset < s.from)
    BY <1>5, <1>9, <1>11
<1>14. c.offset = IF c.gap THEN s.from ELSE offset
    BY <1>10, <1>11
<1> QED BY <1>12, <1>13, <1>14 DEF c

(* append keeps a stream whole: the window only drops at the front.        *)
LEMMA AppendedIs ==
    ASSUME NEW s \in Stream, Whole(s), NEW n \in Nat, s.next + n \in Bytes
    PROVE  LET a == Appended(s, [k \in 1..n |-> s.next + k - 1])
           IN  a \in Stream /\ Whole(a) /\ a.next = s.next + n
<1> DEFINE bytes == [k \in 1..n |-> s.next + k - 1]
           all == s.retained \o bytes
           drop == IF Len(all) > Window THEN Len(all) - Window ELSE 0
           kept == SubSeq(all, drop + 1, Len(all))
<1>1. /\ s.from \in Bytes /\ s.next \in Bytes /\ s.retained \in Seq(Bytes) /\ Len(s.retained) \in Nat
      /\ s.from \in Nat /\ s.next \in Nat /\ Window \in Nat \ {0} /\ MaxBytes \in Nat
    BY BytesAreNat, StreamTypes, Sizes
<1>2. bytes \in Seq(Bytes) /\ Len(bytes) = n /\ Piece(bytes, s.next)
    <2>1. \A k \in 1..n : s.next + k - 1 \in Bytes
        BY <1>1 DEF Bytes
    <2> QED BY <2>1 DEF Piece
<1> HIDE DEF bytes
<1>3. s.from + Len(s.retained) = s.next /\ Piece(s.retained, s.from)
    BY DEF Whole
<1>4. all \in Seq(Bytes) /\ Len(all) = Len(s.retained) + n /\ Piece(all, s.from)
    BY <1>1, <1>2, <1>3, PiecesJoin
<1> HIDE DEF all
<1>5. drop \in 0..Len(all) /\ Len(all) \in Nat
    BY <1>1, <1>4
<1> HIDE DEF drop
<1>6. kept \in Seq(Bytes) /\ Len(kept) = Len(all) - drop /\ Piece(kept, s.from + drop)
    <2>1. drop + 1 \in 1..(Len(all) + 1) /\ Len(all) \in 0..Len(all) /\ drop + 1 <= Len(all) + 1
        BY <1>5
    <2>2. Len(all) - (drop + 1) + 1 = Len(all) - drop /\ s.from + (drop + 1) - 1 = s.from + drop
        BY <1>1, <1>5
    <2> QED BY <1>1, <1>4, <2>1, <2>2, PieceOfPiece
<1> HIDE DEF kept
<1>7. Appended(s, bytes) = [retained |-> kept, from |-> s.from + drop, next |-> s.next + n]
    BY <1>2 DEF Appended, kept, drop, all
<1>8. s.from + drop \in Bytes
    BY <1>1, <1>3, <1>4, <1>5 DEF Bytes
<1>9. (s.from + drop) + Len(kept) = s.next + n
    BY <1>1, <1>3, <1>4, <1>5, <1>6
<1>10. Appended(s, bytes) \in Stream /\ Whole(Appended(s, bytes)) /\ Appended(s, bytes).next = s.next + n
    BY <1>6, <1>7, <1>8, <1>9 DEF Stream, Whole
<1> QED BY <1>10 DEF bytes

-----------------------------------------------------------------------------
(* The host *)

HostStep(r) ==
    \/ Launch(r) \/ (\E n \in 1..ReadMax : Read(r, n)) \/ Deregister(r)
    \/ OpenStream(r) \/ PublishAppends(r) \/ ReaderEnds(r)
PhoneStep == Unsubscribe \/ \E f \in forwarders : Snapshot(f) \/ Forward(f) \/ Wakes(f)
WindowStep == PollAsks \/ PollDraws \/ \E t \in late : LateDraws(t)

LEMMA NextSplit ==
    ASSUME HostTypes, [Next]_vars
    PROVE  \/ \E r \in Runs : HostStep(r) \/ Attach(r) \/ Subscribe(r)
           \/ Restart \/ WindowStep \/ PhoneStep \/ UNCHANGED vars
<1>1. setup.runs \subseteq Runs
    BY SizeAssumption DEF HostTypes
<1> QED BY <1>1 DEF Next, HostStep, WindowStep, PhoneStep

LEMMA RestartKeepsHost == ASSUME HostTypes, Restart PROVE HostTypes' /\ StreamInv'
<1>1. Streaming' = {}
    BY DEF Restart, Streaming
<1>2. held' \in [Runs -> 0..ReadMax] /\ \A r \in Runs : held'[r] = 0
    BY Sizes DEF Restart
<1>3. up' = FALSE /\ registered' = {} /\ reading' = {} /\ UNCHANGED <<setup, refused, printed>>
    BY DEF Restart
<1>4. HostTypes'
    BY <1>1, <1>2, <1>3 DEF HostTypes
<1> QED BY <1>1, <1>2, <1>3, <1>4 DEF StreamInv

LEMMA ReadKeepsHost ==
    ASSUME HostTypes, StreamInv, NEW r \in Runs, NEW n \in 1..ReadMax, Read(r, n)
    PROVE  HostTypes' /\ StreamInv'
<1>1. /\ printed[r] \in Nat /\ printed[r] + n \in Bytes /\ n \in 0..ReadMax /\ n \in Nat
      /\ held[r] = 0 /\ r \in reading
    BY BytesAreNat, Sizes DEF HostTypes, Read, Bytes
<1>2. /\ printed' = [printed EXCEPT ![r] = @ + n] /\ held' = [held EXCEPT ![r] = n]
      /\ UNCHANGED <<setup, up, registered, reading, streams, refused>>
    BY DEF Read
<1>3. HostTypes'
    <2>1. printed' \in [Runs -> Bytes] /\ held' \in [Runs -> 0..ReadMax]
        BY <1>1, <1>2 DEF HostTypes
    <2> QED BY <1>2, <2>1 DEF HostTypes, Streaming
<1>4. printed'[r] = printed[r] + n /\ held'[r] = n
    BY <1>2 DEF HostTypes
<1>5. \A q \in Runs \ {r} : printed'[q] = printed[q] /\ held'[q] = held[q]
    BY <1>2 DEF HostTypes
<1>6. ASSUME NEW q \in Streaming PROVE streams[q].next + held'[q] = printed'[q]
    <2>1. streams[q].next + held[q] = printed[q] /\ streams[q].next \in Nat /\ q \in Runs
        BY StreamTypes DEF StreamInv, HostTypes
    <2>2. CASE q = r
        BY <1>1, <1>4, <2>1, <2>2
    <2> QED BY <1>5, <2>1, <2>2
<1>7. ASSUME NEW q \in Runs \ Streaming, printed[q] = held[q] PROVE printed'[q] = held'[q]
    <2>1. CASE q = r
        BY <1>1, <1>4, <1>7, <2>1
    <2> QED BY <1>5, <1>7, <2>1
<1>8. up
    <2>1. r \in reading
        BY <1>1
    <2> QED BY <2>1 DEF StreamInv
<1> QED BY <1>2, <1>3, <1>6, <1>7, <1>8 DEF StreamInv, Streaming

LEMMA OpenKeepsHost ==
    ASSUME HostTypes, StreamInv, NEW r \in Runs, OpenStream(r)
    PROVE  HostTypes' /\ StreamInv'
<1>1. /\ held[r] > 0 /\ r \notin Streaming /\ held[r] \in 0..ReadMax /\ printed[r] \in Bytes
      /\ UNCHANGED <<setup, up, registered, printed, reading>>
    BY DEF OpenStream, HostTypes
<1>2. up
    BY <1>1, Sizes DEF StreamInv
<1>3. CASE Cardinality(Streaming) >= setup.cap
    <2>1. refused' = refused \cup {r} /\ held' = [held EXCEPT ![r] = 0] /\ UNCHANGED streams
        BY <1>3 DEF OpenStream
    <2>2. held' \in [Runs -> 0..ReadMax] /\ \A q \in Runs \ {r} : held'[q] = held[q]
        BY <2>1, Sizes DEF HostTypes
    <2>3. HostTypes'
        BY <1>1, <2>1, <2>2 DEF HostTypes, Streaming
    <2>4. \A q \in Streaming : q \in Runs \ {r}
        BY <1>1 DEF HostTypes
    <2> QED BY <1>1, <1>2, <1>3, <2>1, <2>2, <2>3, <2>4 DEF StreamInv, Streaming
<1>4. CASE ~(Cardinality(Streaming) >= setup.cap)
    <2> DEFINE new == [retained |-> <<>>, from |-> 0, next |-> 0]
    <2>1. /\ streams' = [q \in Streaming \cup {r} |-> IF q = r THEN new ELSE streams[q]]
          /\ UNCHANGED <<refused, held>>
        BY <1>4 DEF OpenStream
    <2>2. /\ Streaming' = Streaming \cup {r} /\ streams'[r] = new
          /\ \A q \in Streaming : streams'[q] = streams[q]
        BY <1>1, <2>1 DEF Streaming
    <2>3. new \in Stream /\ new.from + Len(new.retained) = new.next /\ Piece(new.retained, new.from)
        BY BytesAreNat DEF Stream, Piece
    <2>4. refused = {} /\ printed[r] = held[r]
        BY <1>1, <1>2, <1>4 DEF StreamInv
    <2>5. new.next + held[r] = printed[r]
        BY <1>1, <2>4, Sizes
    <2> HIDE DEF new
    <2>6. HostTypes'
        BY <1>1, <2>1, <2>2, <2>3 DEF HostTypes
    <2>7. ASSUME NEW q \in Streaming'
          PROVE  /\ streams'[q].from + Len(streams'[q].retained) = streams'[q].next
                 /\ streams'[q].next + held'[q] = printed'[q]
                 /\ Piece(streams'[q].retained, streams'[q].from)
        <3>1. CASE q = r
            BY <1>1, <2>1, <2>2, <2>3, <2>5, <3>1
        <3>2. CASE q \in Streaming
            BY <1>1, <2>1, <2>2, <3>2 DEF StreamInv
        <3> QED BY <2>2, <3>1, <3>2
    <2> QED BY <1>1, <1>2, <2>1, <2>2, <2>4, <2>6, <2>7 DEF StreamInv
<1> QED BY <1>3, <1>4

LEMMA PublishKeepsHost ==
    ASSUME HostTypes, StreamInv, NEW r \in Runs, PublishAppends(r)
    PROVE  HostTypes' /\ StreamInv'
<1> DEFINE s == streams[r]
           bytes == [k \in 1..held[r] |-> printed[r] - held[r] + k - 1]
<1>1. /\ r \in Streaming /\ held[r] \in 0..ReadMax /\ printed[r] \in Bytes
      /\ streams' = [streams EXCEPT ![r] = Appended(s, bytes)]
      /\ held' = [held EXCEPT ![r] = 0]
      /\ UNCHANGED <<setup, up, registered, printed, reading, refused>>
    BY DEF PublishAppends, HostTypes
<1>2. s \in Stream /\ Whole(s) /\ s.next + held[r] = printed[r] /\ held[r] \in Nat
    BY <1>1, Sizes DEF HostTypes, StreamInv, Whole
<1>3. bytes = [k \in 1..held[r] |-> s.next + k - 1]
    <2>1. printed[r] - held[r] = s.next
        BY <1>2, StreamTypes
    <2> QED BY <2>1
<1>4. Appended(s, bytes) \in Stream /\ Whole(Appended(s, bytes)) /\ Appended(s, bytes).next = printed[r]
    <2>1. s.next + held[r] \in Bytes
        BY <1>1, <1>2
    <2> HIDE DEF s
    <2> QED BY <1>2, <1>3, <2>1, AppendedIs
<1> HIDE DEF s, bytes
<1>5. /\ Streaming' = Streaming /\ streams'[r] = Appended(s, bytes)
      /\ \A q \in Streaming \ {r} : streams'[q] = streams[q]
    BY <1>1 DEF Streaming
<1>6. held' \in [Runs -> 0..ReadMax] /\ held'[r] = 0 /\ \A q \in Runs \ {r} : held'[q] = held[q]
    BY <1>1, Sizes DEF HostTypes
<1>7. HostTypes'
    BY <1>1, <1>4, <1>5, <1>6 DEF HostTypes
<1>8. ASSUME NEW q \in Streaming
      PROVE  /\ streams'[q].from + Len(streams'[q].retained) = streams'[q].next
             /\ streams'[q].next + held'[q] = printed[q]
             /\ Piece(streams'[q].retained, streams'[q].from)
    <2>1. CASE q = r
        <3>1. printed[r] \in Nat
            BY <1>1, BytesAreNat
        <3>2. printed[r] + 0 = printed[r]
            BY <3>1
        <3> QED BY <1>4, <1>5, <1>6, <2>1, <3>2 DEF Whole
    <2>2. CASE q # r
        <3>1. q \in Runs
            BY DEF HostTypes
        <3> QED BY <1>5, <1>6, <2>2, <3>1 DEF StreamInv
    <2> QED BY <2>1, <2>2
<1>9. \A q \in Runs \ Streaming : held'[q] = held[q]
    BY <1>1, <1>6
<1>10. ~up => \A q \in Runs : held'[q] = 0
    BY <1>1, <1>6 DEF StreamInv
<1> QED BY <1>1, <1>5, <1>7, <1>8, <1>9, <1>10 DEF StreamInv

LEMMA HostKept ==
    ASSUME HostTypes, StreamInv, [Next]_vars
    PROVE  HostTypes' /\ StreamInv'
<1>1. ASSUME UNCHANGED hostVars PROVE HostTypes' /\ StreamInv'
    BY <1>1 DEF hostVars, HostTypes, StreamInv, Streaming
<1>2. ASSUME NEW r \in Runs, HostStep(r) PROVE HostTypes' /\ StreamInv'
    <2>1. CASE Launch(r) \/ Deregister(r) \/ ReaderEnds(r)
        BY <2>1 DEF Launch, Deregister, ReaderEnds, HostTypes, StreamInv, Streaming
    <2> QED BY <1>2, <2>1, ReadKeepsHost, OpenKeepsHost, PublishKeepsHost DEF HostStep
<1>3. WindowStep \/ PhoneStep \/ UNCHANGED vars => UNCHANGED hostVars
    BY DEF WindowStep, PhoneStep, PollAsks, PollDraws, LateDraws, Unsubscribe, Snapshot, Forward,
           Wakes, vars
<1>4. \A r : Attach(r) \/ Subscribe(r) => UNCHANGED hostVars
    BY DEF Attach, Subscribe
<1> QED BY <1>1, <1>2, <1>3, <1>4, NextSplit, RestartKeepsHost

(* Only the host's death closes streams.                                   *)
LEMMA StreamsStay ==
    ASSUME HostTypes, [Next]_vars, up'
    PROVE  up /\ Streaming \subseteq Streaming'
<1>1. ASSUME NEW r \in Runs, HostStep(r) PROVE up /\ Streaming \subseteq Streaming'
    BY <1>1 DEF HostStep, Launch, Read, Deregister, OpenStream, PublishAppends, ReaderEnds, Streaming
<1>2. UNCHANGED hostVars => up /\ Streaming \subseteq Streaming'
    BY DEF hostVars, Streaming
<1>3. WindowStep \/ PhoneStep \/ UNCHANGED vars => UNCHANGED hostVars
    BY DEF WindowStep, PhoneStep, PollAsks, PollDraws, LateDraws, Unsubscribe, Snapshot, Forward,
           Wakes, vars
<1>4. \A r : Attach(r) \/ Subscribe(r) => UNCHANGED hostVars
    BY DEF Attach, Subscribe
<1>5. ~Restart
    BY DEF Restart
<1> QED BY <1>1, <1>2, <1>3, <1>4, <1>5, NextSplit

-----------------------------------------------------------------------------
(* The window *)

LEMMA WindowStands ==
    ASSUME WindowTypes, ViewInv, UNCHANGED windowVars, up' => up /\ Streaming \subseteq Streaming'
    PROVE  WindowTypes' /\ ViewInv'
<1>1. UNCHANGED <<poll, late, view>>
    BY DEF windowVars
<1> QED BY <1>1 DEF WindowTypes, ViewInv, AnswerInv

(* plan_replay's answer for the run the loop shows.                        *)
LEMMA PlanReplayIs ==
    ASSUME Types, StreamInv, ViewInv, NEW r \in poll.run
    PROVE  /\ PlanReplay(r, poll.cursor) \in Answer
           /\ AnswerInv(PlanReplay(r, poll.cursor))
<1> DEFINE t == PlanReplay(r, poll.cursor)
<1>1. r \in Runs /\ poll.cursor \in Bytes /\ poll.cursor \in Nat /\ <<>> \in Seq(Bytes)
    <2>1. r \in Runs /\ poll.cursor \in Bytes
        BY DEF Types, WindowTypes, Poll
    <2>2. poll.cursor \in Nat
        BY <2>1, BytesAreNat
    <2> QED BY <2>1, <2>2
<1>2. r \in Streaming => poll.run \subseteq Streaming
    BY DEF Types, WindowTypes
<1>3. CASE r \notin Streaming
    <2> DEFINE why == IF r \in registered THEN "notStarted" ELSE "evicted"
    <2>1. t = [run |-> r, kind |-> "reset", from |-> 0, bytes |-> <<>>, reason |-> why]
        BY <1>3 DEF PlanReplay
    <2>2. why \in {"notStarted", "evicted"} /\ (why = "notStarted" => r \in registered)
        OBVIOUS
    <2> HIDE DEF t, why
    <2>3. t \in Answer
        BY <1>1, <2>1, <2>2, BytesAreNat DEF Answer
    <2>4. Piece(t.bytes, t.from) /\ t.from + Len(t.bytes) \in Bytes
        BY <2>1, BytesAreNat DEF Piece
    <2>5. t.reason = "notStarted" /\ ~view.mixed => view.bytes = <<>>
        <3>1. r \in registered => up
            BY DEF StreamInv
        <3> QED BY <1>3, <2>1, <2>2, <3>1 DEF ViewInv
    <2>6. AnswerInv(t)
        BY <2>1, <2>4, <2>5 DEF AnswerInv
    <2> QED BY <2>3, <2>6 DEF t
<1>4. CASE r \in Streaming /\ poll.cursor > streams[r].next
    <2>1. streams[r].next \in Bytes /\ streams[r].next \in Nat
        BY <1>4, StreamTypes DEF Types, HostTypes
    <2>2. t = [run |-> r, kind |-> "reset", from |-> streams[r].next, bytes |-> <<>>,
               reason |-> "cursorBeyondStream"]
        BY <1>4 DEF PlanReplay
    <2> HIDE DEF t
    <2>3. t \in Answer
        BY <1>1, <2>1, <2>2 DEF Answer
    <2>4. Piece(t.bytes, t.from) /\ t.from + Len(t.bytes) \in Bytes
        <3>1. t.from = streams[r].next /\ t.bytes = <<>> /\ Len(t.bytes) = 0
            BY <2>2
        <3> QED BY <2>1, <3>1 DEF Piece
    <2>5. AnswerInv(t)
        BY <2>2, <2>4 DEF AnswerInv
    <2> QED BY <2>3, <2>5 DEF t
<1>5. CASE r \in Streaming /\ ~(poll.cursor > streams[r].next)
    <2> DEFINE s == streams[r]
               c == ReadFrom(s, poll.cursor, ChunkMax)
    <2>1. s \in Stream /\ Whole(s) /\ s.next \in Nat /\ s.next \in Bytes
        BY <1>5, StreamTypes DEF Types, HostTypes, StreamInv, Whole
    <2>2. poll.cursor <= s.next
        BY <1>1, <1>5, <2>1
    <2>3. /\ c.bytes \in Seq(Bytes) /\ c.offset \in Bytes /\ c.gap \in BOOLEAN
          /\ Piece(c.bytes, c.offset) /\ c.offset + Len(c.bytes) <= s.next
          /\ ~c.gap => c.offset = poll.cursor
        <3> HIDE DEF s
        <3> QED BY <1>1, <2>1, <2>2, ReadFromIs, Sizes
    <2>4. t = [run |-> r, kind |-> IF c.gap THEN "reset" ELSE "seamless", from |-> c.offset,
               bytes |-> c.bytes, reason |-> IF c.gap THEN "compacted" ELSE "none"]
        BY <1>5 DEF PlanReplay
    <2> HIDE DEF t, c, s
    <2>5. c.offset + Len(c.bytes) \in Bytes
        BY <2>1, <2>3, BytesAreNat DEF Bytes
    <2>6. t \in Answer
        BY <1>1, <2>3, <2>4 DEF Answer
    <2>7. AnswerInv(t)
        BY <1>2, <1>5, <2>3, <2>4, <2>5 DEF AnswerInv
    <2> QED BY <2>6, <2>7 DEF t
<1> QED BY <1>3, <1>4, <1>5

LEMMA DrawsKeep ==
    ASSUME Types, ViewInv, PollDraws PROVE WindowTypes' /\ ViewInv'
<1>1. PICK t \in poll.tail :
         /\ view' = [view EXCEPT !.bytes = Drawn(@, t)]
         /\ poll' = [poll EXCEPT !.tail = {}, !.cursor = ResumeAfter(t)]
         /\ UNCHANGED <<hostVars, late>>
    BY DEF PollDraws
<1>2. /\ t \in Answer /\ AnswerInv(t) /\ poll \in Poll /\ view \in View
      /\ poll.cursor \in Nat /\ view.bytes \in Seq(Bytes)
    BY BytesAreNat DEF Types, WindowTypes, Poll, View, ViewInv
<1>3. t.from \in Nat /\ t.bytes \in Seq(Bytes) /\ Len(t.bytes) \in Nat
    <2>1. t.from \in Bytes /\ t.bytes \in Seq(Bytes)
        BY <1>2 DEF Answer
    <2>2. Len(t.bytes) \in Nat
        BY <2>1
    <2> QED BY <2>1, <2>2, BytesAreNat
<1>4. poll'.cursor = t.from + Len(t.bytes) /\ poll'.tail = {} /\ poll'.run = poll.run
    BY <1>1, <1>2 DEF Poll, ResumeAfter
<1>5. poll' \in Poll
    BY <1>1, <1>2 DEF Poll, ResumeAfter, AnswerInv
<1>6. view'.mixed = view.mixed /\ view'.bytes = Drawn(view.bytes, t)
    BY <1>1, <1>2 DEF View
<1>7. UNCHANGED <<up, streams>> /\ Streaming' = Streaming
    BY <1>1 DEF hostVars, Streaming
<1>8. /\ Drawn(view.bytes, t) \in Seq(Bytes)
      /\ ~view.mixed =>
            /\ Len(Drawn(view.bytes, t)) <= t.from + Len(t.bytes)
            /\ Piece(Drawn(view.bytes, t), t.from + Len(t.bytes) - Len(Drawn(view.bytes, t)))
            /\ Drawn(view.bytes, t) # <<>> /\ up => poll.run \subseteq Streaming
    <2>1. CASE t.kind = "seamless"
        <3> DEFINE u == view.bytes
                   v == t.bytes
        <3>1. Drawn(u, t) = u \o v /\ t.from = poll.cursor
            <4>1. t.from = poll.cursor /\ t.reason # "notStarted"
                BY <1>2, <2>1 DEF AnswerInv
            <4> QED BY <2>1, <4>1 DEF Drawn
        <3>2. u \o v \in Seq(Bytes) /\ Len(u \o v) = Len(u) + Len(v) /\ Len(u) \in Nat
            BY <1>2, <1>3, ConcatProperties
        <3>3. ASSUME ~view.mixed
              PROVE  /\ Len(u \o v) <= t.from + Len(v)
                     /\ Piece(u \o v, t.from + Len(v) - Len(u \o v))
            <4>1. Len(u) <= poll.cursor /\ Piece(u, poll.cursor - Len(u)) /\ Piece(v, poll.cursor)
                BY <1>2, <3>1, <3>3 DEF ViewInv, AnswerInv
            <4>2. poll.cursor - Len(u) \in Nat /\ (poll.cursor - Len(u)) + Len(u) = poll.cursor
                BY <1>2, <3>2, <4>1
            <4>3. Piece(u \o v, poll.cursor - Len(u))
                BY <1>2, <1>3, <4>1, <4>2, PiecesJoin
            <4>4. \A c, m, n \in Nat : m <= c => c + n - (m + n) = c - m /\ m + n <= c + n
                OBVIOUS
            <4>5. Len(u) \in Nat /\ Len(v) \in Nat /\ poll.cursor \in Nat
                BY <1>2, <1>3, <3>2
            <4>6. /\ poll.cursor + Len(v) - (Len(u) + Len(v)) = poll.cursor - Len(u)
                  /\ Len(u) + Len(v) <= poll.cursor + Len(v)
                BY <4>1, <4>4, <4>5
            <4> QED BY <3>1, <3>2, <4>3, <4>6
        <3>4. ASSUME ~view.mixed, u \o v # <<>>, up PROVE poll.run \subseteq Streaming
            <4>1. u # <<>> \/ v # <<>>
                BY <1>2, <1>3, <3>4
            <4> QED BY <1>2, <3>4, <4>1 DEF ViewInv, AnswerInv
        <3> HIDE DEF u, v
        <3> QED BY <3>1, <3>2, <3>3, <3>4 DEF u, v
    <2>2. CASE t.kind = "reset" /\ t.reason = "notStarted"
        <3>1. Drawn(view.bytes, t) = view.bytes
            BY <2>2 DEF Drawn
        <3>2. ~view.mixed => t.from = 0 /\ t.bytes = <<>> /\ view.bytes = <<>>
            BY <1>2, <2>2 DEF AnswerInv
        <3>3. ASSUME ~view.mixed
              PROVE  /\ Len(view.bytes) <= t.from + Len(t.bytes) /\ view.bytes = <<>>
                     /\ Piece(view.bytes, t.from + Len(t.bytes) - Len(view.bytes))
            <4>1. Len(<<>>) = 0 /\ 1..0 = {}
                OBVIOUS
            <4>2. Len(view.bytes) = 0 /\ t.from + Len(t.bytes) = 0 /\ view.bytes = <<>>
                BY <3>2, <3>3, <4>1
            <4> QED BY <4>1, <4>2 DEF Piece
        <3>4. CASE view.mixed
            BY <1>2, <3>1, <3>4
        <3>5. CASE ~view.mixed
            BY <1>2, <3>1, <3>3, <3>5
        <3> QED BY <3>4, <3>5
    <2>3. CASE t.kind = "reset" /\ t.reason # "notStarted"
        <3>1. Drawn(view.bytes, t) = t.bytes
            BY <2>3 DEF Drawn
        <3>2. Piece(t.bytes, t.from) /\ (t.bytes # <<>> /\ up => poll.run \subseteq Streaming)
            BY <1>2 DEF AnswerInv
        <3>3. t.from + Len(t.bytes) - Len(t.bytes) = t.from /\ Len(t.bytes) <= t.from + Len(t.bytes)
            BY <1>3
        <3> QED BY <1>3, <3>1, <3>2, <3>3
    <2> QED BY <1>2, <2>1, <2>2, <2>3 DEF Answer
<1>9. view' \in View
    BY <1>1, <1>2, <1>8 DEF View
<1> HIDE DEF Drawn
<1>10. WindowTypes'
    BY <1>1, <1>4, <1>5, <1>9 DEF Types, WindowTypes
<1>11. ASSUME ~view'.mixed
       PROVE  /\ Len(view'.bytes) <= poll'.cursor
              /\ Piece(view'.bytes, poll'.cursor - Len(view'.bytes))
              /\ view'.bytes # <<>> /\ up' => poll'.run \subseteq Streaming'
    <2> DEFINE w == Drawn(view.bytes, t)
    <2>1. ~view.mixed
        BY <1>6, <1>11
    <2>2. /\ Len(w) <= t.from + Len(t.bytes)
          /\ Piece(w, t.from + Len(t.bytes) - Len(w))
          /\ w # <<>> /\ up => poll.run \subseteq Streaming
        BY <1>8, <2>1
    <2>3. view'.bytes = w
        BY <1>6
    <2> HIDE DEF w
    <2>4. Len(view'.bytes) <= poll'.cursor
        BY <1>4, <2>2, <2>3
    <2>5. Piece(view'.bytes, poll'.cursor - Len(view'.bytes))
        <3>1. poll'.cursor = t.from + Len(t.bytes)
            BY <1>4
        <3>2. t.from \in Nat /\ Len(t.bytes) \in Nat /\ Len(w) \in Nat
            BY <1>3, <1>8 DEF w
        <3> QED BY <2>2, <2>3, <3>1, <3>2
    <2>6. view'.bytes # <<>> /\ up' => poll'.run \subseteq Streaming'
        BY <1>4, <1>7, <2>2, <2>3
    <2> QED BY <2>4, <2>5, <2>6
<1>12. ViewInv'
    BY <1>4, <1>11 DEF ViewInv, Piece
<1> QED BY <1>10, <1>12

LEMMA WindowKept == ASSUME IInv, [Next]_vars PROVE WindowTypes' /\ ViewInv'
<1> USE DEF IInv
<1>1. up' => up /\ Streaming \subseteq Streaming'
    BY StreamsStay DEF Types
<1>2. ASSUME UNCHANGED windowVars PROVE WindowTypes' /\ ViewInv'
    BY <1>1, <1>2, WindowStands DEF Types
<1>3. ASSUME NEW r \in Runs, Attach(r) PROVE WindowTypes' /\ ViewInv'
    <2>1. poll \in Poll /\ late \subseteq Answer
        BY DEF Types, WindowTypes
    <2>2. /\ poll' = [run |-> {r}, cursor |-> 0, tail |-> {}, shown |-> poll.shown + 1]
          /\ view' = [bytes |-> <<>>, mixed |-> FALSE] /\ late' = late \cup poll.tail
        BY <1>3 DEF Attach
    <2>3. poll' \in Poll /\ late' \subseteq Answer /\ view' \in View
        BY <2>1, <2>2, BytesAreNat DEF Poll, View
    <2>4. ViewInv'
        BY <2>2 DEF ViewInv, Piece
    <2> QED BY <2>2, <2>3, <2>4 DEF WindowTypes
<1>4. CASE PollAsks
    <2>1. PICK r \in poll.run : poll' = [poll EXCEPT !.tail = {PlanReplay(r, poll.cursor)}]
        BY <1>4 DEF PollAsks
    <2>2. PICK t \in Answer : t = PlanReplay(r, poll.cursor) /\ AnswerInv(t)
        BY PlanReplayIs
    <2>3. poll \in Poll /\ UNCHANGED <<late, view, up, streams>>
        BY <1>4 DEF PollAsks, hostVars, Types, WindowTypes
    <2>4. poll' \in Poll /\ poll'.tail = {t} /\ poll'.run = poll.run /\ poll'.cursor = poll.cursor
        BY <2>1, <2>2, <2>3 DEF Poll
    <2>5. Streaming' = Streaming
        BY <2>3 DEF Streaming
    <2>6. AnswerInv(t)'
        BY <2>2, <2>3, <2>4, <2>5 DEF AnswerInv
    <2> QED BY <2>3, <2>4, <2>5, <2>6 DEF Types, WindowTypes, ViewInv
<1>5. ASSUME NEW t \in late, LateDraws(t) PROVE WindowTypes' /\ ViewInv'
    <2>1. t \in Answer /\ view \in View
        BY DEF Types, WindowTypes
    <2>2. view' = [bytes |-> Drawn(view.bytes, t), mixed |-> TRUE] /\ UNCHANGED <<poll, up, streams>>
          /\ late' \subseteq late
        BY <1>5 DEF LateDraws, hostVars
    <2>3. Drawn(view.bytes, t) \in Seq(Bytes)
        BY <2>1, ConcatProperties DEF Drawn, Answer, View
    <2>4. view' \in View /\ view'.mixed
        BY <2>2, <2>3 DEF View
    <2>5. \A a \in poll.tail : AnswerInv(a)'
        BY <2>2, <2>4 DEF ViewInv, AnswerInv, Streaming
    <2> QED BY <2>2, <2>4, <2>5 DEF Types, WindowTypes, ViewInv
<1>6. PhoneStep \/ Restart \/ UNCHANGED vars => UNCHANGED windowVars
    BY DEF PhoneStep, Restart, Unsubscribe, Snapshot, Forward, Wakes, vars
<1>7. \A r : HostStep(r) \/ Subscribe(r) => UNCHANGED windowVars
    BY DEF HostStep, Launch, Read, Deregister, OpenStream, PublishAppends, ReaderEnds, Subscribe
<1> QED BY <1>2, <1>3, <1>4, <1>5, <1>6, <1>7, NextSplit, DrawsKeep DEF Types, WindowStep

-----------------------------------------------------------------------------
(* The phone *)

LEMMA ForwarderTypes ==
    ASSUME NEW f \in Forwarder
    PROVE  /\ f.run \in Runs /\ f.offset \in Bytes /\ f.line \in Bytes /\ f.aborted \in BOOLEAN
           /\ f.offset \in Nat /\ f.line \in Nat
<1>1. f.run \in Runs /\ f.offset \in Bytes /\ f.line \in Bytes /\ f.aborted \in BOOLEAN
    BY DEF Forwarder
<1> QED BY <1>1, BytesAreNat

(* A frame adds its bytes to what was sent.                                *)
LEMMA SendsIs ==
    ASSUME sent \in Sent, NEW f, NEW bytes \in Seq(Bytes), Sends(f, bytes)
    PROVE  /\ sent' \in Sent
           /\ ~sent'.mixed => ~sent.mixed
           /\ \A k \in DOMAIN sent.bytes : \E j \in DOMAIN sent'.bytes : sent'.bytes[j] = sent.bytes[k]
           /\ \A k \in DOMAIN bytes : \E j \in DOMAIN sent'.bytes : sent'.bytes[j] = bytes[k]
<1> DEFINE u == sent.bytes
           m == sent.mixed \/ f.sub # sent.sub
<1>1. u \in Seq(Bytes) /\ Len(u) \in Nat /\ Len(bytes) \in Nat
    BY DEF Sent
<1>2. DOMAIN u = 1..Len(u) /\ DOMAIN bytes = 1..Len(bytes)
    BY <1>1
<1>3. sent' = [sent EXCEPT !.bytes = u \o bytes, !.mixed = m]
    BY DEF Sends
<1>4. m \in BOOLEAN /\ (~m => ~sent.mixed)
    BY DEF Sent
<1> HIDE DEF m
<1>5. /\ u \o bytes \in Seq(Bytes) /\ Len(u \o bytes) = Len(u) + Len(bytes)
      /\ \A k \in 1..(Len(u) + Len(bytes)) :
            (u \o bytes)[k] = IF k <= Len(u) THEN u[k] ELSE bytes[k - Len(u)]
    BY <1>1, ConcatProperties
<1>6. DOMAIN (u \o bytes) = 1..(Len(u) + Len(bytes))
    BY <1>5
<1>7. sent'.bytes = u \o bytes /\ sent'.mixed = m /\ sent' \in Sent
    BY <1>3, <1>4, <1>5 DEF Sent
<1> HIDE DEF u
<1>8. \A k \in 1..Len(u) : k \in 1..(Len(u) + Len(bytes)) /\ (u \o bytes)[k] = u[k]
    BY <1>1, <1>5
<1>9. \A k \in 1..Len(bytes) :
         Len(u) + k \in 1..(Len(u) + Len(bytes)) /\ (u \o bytes)[Len(u) + k] = bytes[k]
    <2> TAKE k \in 1..Len(bytes)
    <2>1. Len(u) + k \in 1..(Len(u) + Len(bytes)) /\ ~(Len(u) + k <= Len(u)) /\ (Len(u) + k) - Len(u) = k
        BY <1>1
    <2> QED BY <1>5, <2>1
<1>10. \A k \in DOMAIN u : \E j \in DOMAIN sent'.bytes : sent'.bytes[j] = u[k]
    BY <1>2, <1>6, <1>7, <1>8
<1>11. \A k \in DOMAIN bytes : \E j \in DOMAIN sent'.bytes : sent'.bytes[j] = bytes[k]
    BY <1>2, <1>6, <1>7, <1>9
<1> QED BY <1>4, <1>7, <1>10, <1>11 DEF u

LEMMA SentGrows ==
    ASSUME sent \in Sent, NEW f, NEW bytes \in Seq(Bytes), Sends(f, bytes),
           NEW g \in Forwarder, SentInv(g)
    PROVE  SentInv(g)'
<1> SUFFICES ASSUME ~g.aborted, ~sent'.mixed, NEW b \in 0..(g.offset - 1), ~(b < g.line)
             PROVE  \E j \in DOMAIN sent'.bytes : sent'.bytes[j] = b
    BY DEF SentInv
<1>1. \E k \in DOMAIN sent.bytes : sent.bytes[k] = b
    BY SendsIs DEF SentInv
<1> QED BY <1>1, SendsIs

(* A forwarder that has sent a piece and stands at its end, or before it.  *)
LEMMA SentPiece ==
    ASSUME sent \in Sent, NEW f, NEW bytes \in Seq(Bytes), Sends(f, bytes),
           NEW at \in Bytes, Piece(bytes, at), NEW g \in Forwarder, g.offset <= at + Len(bytes),
           NEW b \in 0..(g.offset - 1), b >= at
    PROVE  \E j \in DOMAIN sent'.bytes : sent'.bytes[j] = b
<1>1. at \in Nat /\ Len(bytes) \in Nat /\ g.offset \in Nat /\ b \in Nat
    BY ForwarderTypes, BytesAreNat
<1>2. b - at + 1 \in 1..Len(bytes) /\ at + (b - at + 1) - 1 = b
    BY <1>1
<1>3. bytes[b - at + 1] = b /\ b - at + 1 \in DOMAIN bytes
    BY <1>2 DEF Piece
<1> QED BY <1>3, SendsIs

(* What a forwarder reads.                                                 *)
LEMMA ChunkIs ==
    ASSUME HostTypes, StreamInv, NEW r \in Streaming, NEW offset \in Bytes, offset <= streams[r].next,
           NEW max \in Nat \ {0}
    PROVE  LET c == ReadFrom(streams[r], offset, max)
           IN  /\ c.bytes \in Seq(Bytes) /\ c.offset \in Bytes /\ c.gap \in BOOLEAN
               /\ Piece(c.bytes, c.offset) /\ c.offset + Len(c.bytes) \in Bytes
               /\ offset <= c.offset /\ (~c.gap => c.offset = offset)
<1> DEFINE s == streams[r]
           c == ReadFrom(s, offset, max)
<1>1. s \in Stream /\ Whole(s)
    BY DEF HostTypes, StreamInv, Whole
<1>2. s.from \in Nat /\ s.next \in Bytes /\ s.next \in Nat /\ offset \in Nat
    BY <1>1, StreamTypes, BytesAreNat
<1>3. offset <= s.next
    OBVIOUS
<1> HIDE DEF s
<1>4. /\ c.bytes \in Seq(Bytes) /\ c.offset \in Bytes /\ c.gap \in BOOLEAN
      /\ Piece(c.bytes, c.offset) /\ c.offset + Len(c.bytes) <= s.next
      /\ c.gap <=> offset < s.from
      /\ c.offset = IF c.gap THEN s.from ELSE offset
    BY <1>1, <1>3, ReadFromIs
<1> HIDE DEF c
<1>5. c.offset \in Nat /\ Len(c.bytes) \in Nat
    <2>1. Len(c.bytes) \in Nat
        BY <1>4
    <2> QED BY <1>4, <2>1, BytesAreNat
<1>6. c.offset + Len(c.bytes) \in Bytes
    BY <1>2, <1>4, <1>5, BytesAreNat DEF Bytes
<1>7. offset <= c.offset /\ (~c.gap => c.offset = offset)
    BY <1>2, <1>4
<1> QED BY <1>4, <1>6, <1>7 DEF c, s

LEMMA SnapshotReads ==
    ASSUME Types, StreamInv, PhoneInv, NEW f \in forwarders, f.run \in registered, Snapshot(f)
    PROVE  PhoneTypes' /\ PhoneInv'
<1> DEFINE c == IF f.run \in Streaming THEN ReadFrom(streams[f.run], 0, ChunkMax)
                ELSE [offset |-> 0, bytes |-> <<>>, gap |-> FALSE]
           g == [f EXCEPT !.stage = "loop", !.offset = Len(c.bytes), !.line = c.offset]
<1>1. f \in Forwarder /\ sent \in Sent /\ forwarders \subseteq Forwarder
    BY DEF Types, PhoneTypes
<1>2. /\ c.bytes \in Seq(Bytes) /\ c.offset \in Bytes /\ Piece(c.bytes, c.offset)
      /\ c.offset + Len(c.bytes) \in Bytes
    <2>1. CASE f.run \in Streaming
        <3>1. streams[f.run] \in Stream
            BY <2>1 DEF Types, HostTypes
        <3>2. 0 <= streams[f.run].next
            BY <3>1, StreamTypes
        <3> QED BY <2>1, <3>2, BytesAreNat, ChunkIs, Sizes DEF Types
    <2>2. CASE f.run \notin Streaming
        BY <2>2, BytesAreNat DEF Piece
    <2> QED BY <2>1, <2>2
<1>3. Sends(f, c.bytes) /\ forwarders' = (forwarders \ {f}) \cup {g}
    BY DEF Snapshot
<1> HIDE DEF c
<1>4. c.offset \in Nat /\ Len(c.bytes) \in Nat /\ Len(c.bytes) \in Bytes
    BY <1>2, BytesAreNat DEF Bytes
<1>5. g \in Forwarder /\ g.offset = Len(c.bytes) /\ g.line = c.offset
    BY <1>1, <1>2, <1>4 DEF Forwarder
<1>6. sent' \in Sent
    BY <1>1, <1>2, <1>3, SendsIs
<1>7. PICK n : n = g
    OBVIOUS
<1> HIDE DEF g
<1>8. n \in Forwarder /\ n.offset <= c.offset + Len(c.bytes) /\ n.line = c.offset
    BY <1>4, <1>5, <1>7
<1>9. SentInv(n)'
    <2>1. ASSUME NEW b \in 0..(n.offset - 1), ~(b < n.line)
          PROVE  \E j \in DOMAIN sent'.bytes : sent'.bytes[j] = b
        <3>1. b \in Nat /\ b >= c.offset
            BY <1>4, <1>8, <2>1, ForwarderTypes
        <3> QED BY <1>1, <1>2, <1>3, <1>8, <3>1, SentPiece
    <2> QED BY <2>1 DEF SentInv
<1>10. \A h \in forwarders : SentInv(h)'
    BY <1>1, <1>2, <1>3, SentGrows DEF PhoneInv
<1>11. forwarders' = (forwarders \ {f}) \cup {n}
    BY <1>3, <1>7
<1> QED BY <1>1, <1>6, <1>8, <1>9, <1>10, <1>11 DEF PhoneTypes, PhoneInv

LEMMA SnapshotKeeps ==
    ASSUME Types, StreamInv, PhoneInv, NEW f \in forwarders, Snapshot(f)
    PROVE  PhoneTypes' /\ PhoneInv'
<1>1. CASE f.run \in registered
    BY <1>1, SnapshotReads
<1>2. CASE f.run \notin registered
    <2>1. forwarders' \subseteq forwarders /\ sent' = sent
        BY <1>2 DEF Snapshot
    <2>2. PhoneTypes'
        BY <2>1 DEF Types, PhoneTypes
    <2>3. \A g \in forwarders' : SentInv(g)'
        BY <2>1 DEF PhoneInv, SentInv
    <2> QED BY <2>2, <2>3 DEF PhoneInv
<1> QED BY <1>1, <1>2

LEMMA ForwardKeeps ==
    ASSUME Types, StreamInv, PhoneInv, NEW f \in forwarders, Forward(f)
    PROVE  PhoneTypes' /\ PhoneInv'
<1> DEFINE known == f.run \in Streaming
           c == IF known /\ f.offset <= streams[f.run].next
                  THEN ReadFrom(streams[f.run], f.offset, FrameMax)
                  ELSE [offset |-> 0, bytes |-> <<>>, gap |-> FALSE]
           g == [f EXCEPT !.offset = NextOffset(@, Len(c.bytes)),
                          !.line = IF c.gap THEN c.offset ELSE @]
           h == [f EXCEPT !.stage = "asleep"]
<1>1. f \in Forwarder /\ sent \in Sent /\ forwarders \subseteq Forwarder /\ f.offset \in Nat
      /\ f.offset \in Bytes
    BY ForwarderTypes DEF Types, PhoneTypes
<1>2. /\ c.bytes \in Seq(Bytes) /\ c.offset \in Bytes /\ c.gap \in BOOLEAN
      /\ c.bytes # <<>> =>
            /\ Piece(c.bytes, c.offset) /\ c.offset + Len(c.bytes) \in Bytes
            /\ f.offset <= c.offset /\ (~c.gap => c.offset = f.offset)
    <2>1. CASE known /\ f.offset <= streams[f.run].next
        <3>1. c = ReadFrom(streams[f.run], f.offset, FrameMax)
            BY <2>1
        <3> HIDE DEF c
        <3> QED BY <1>1, <2>1, <3>1, ChunkIs, Sizes DEF Types
    <2>2. CASE ~(known /\ f.offset <= streams[f.run].next)
        <3>1. c = [offset |-> 0, bytes |-> <<>>, gap |-> FALSE]
            BY <2>2
        <3> HIDE DEF c
        <3>2. c.bytes = <<>> /\ c.offset = 0 /\ c.gap = FALSE /\ <<>> \in Seq(Bytes)
            BY <3>1
        <3> QED BY <3>2, BytesAreNat
    <2> QED BY <2>1, <2>2
<1>3. /\ Sends(f, c.bytes)
      /\ forwarders' = (forwarders \ {f}) \cup
           (IF ~known \/ (c.bytes = <<>> /\ f.aborted) THEN {}
            ELSE IF c.bytes = <<>> THEN {h} ELSE {g})
    BY DEF Forward
<1> HIDE DEF c, known
<1>4. sent' \in Sent
    BY <1>1, <1>2, <1>3, SendsIs
<1>5. \A x \in forwarders : SentInv(x)'
    BY <1>1, <1>2, <1>3, SentGrows DEF PhoneInv
<1>6. h \in Forwarder /\ SentInv(h)'
    <2>1. h \in Forwarder /\ h.offset = f.offset /\ h.line = f.line /\ h.aborted = f.aborted
        BY <1>1 DEF Forwarder
    <2>2. h \in Forwarder /\ SentInv(h)
        BY <2>1 DEF SentInv, PhoneInv
    <2> QED BY <1>1, <1>2, <1>3, <2>2, SentGrows
<1>7. ASSUME c.bytes # <<>>, NEW n, n = g PROVE n \in Forwarder /\ SentInv(n)'
    <2>1. PICK at, bytes : n = g /\ at = c.offset /\ bytes = c.bytes
        BY <1>7
    <2>2. /\ bytes \in Seq(Bytes) /\ Len(bytes) \in Nat /\ at \in Bytes /\ at \in Nat
          /\ Piece(bytes, at) /\ at + Len(bytes) \in Bytes /\ f.offset <= at
          /\ Sends(f, bytes)
        BY <1>2, <1>3, <1>7, <2>1, BytesAreNat
    <2>3. f.offset + Len(bytes) \in Bytes
        BY <1>1, <2>2, BytesAreNat DEF Bytes
    <2>4. /\ n \in Forwarder /\ n.offset = f.offset + Len(bytes) /\ n.aborted = f.aborted
          /\ n.line = IF c.gap THEN at ELSE f.line
        BY <1>1, <1>2, <2>1, <2>3 DEF Forwarder, NextOffset
    <2>5. ASSUME ~n.aborted, ~sent'.mixed, NEW b \in 0..(n.offset - 1), ~(b < n.line)
          PROVE  \E j \in DOMAIN sent'.bytes : sent'.bytes[j] = b
        <3>1. b \in Nat /\ n.offset <= at + Len(bytes)
            BY <1>1, <2>2, <2>4
        <3>2. CASE b >= at
            BY <1>1, <2>2, <2>4, <3>1, <3>2, SentPiece
        <3>3. CASE ~(b >= at)
            <4>1. ~c.gap
                BY <2>2, <2>4, <2>5, <3>1, <3>3
            <4>2. at = f.offset /\ n.line = f.line
                BY <1>2, <1>7, <2>1, <2>4, <4>1
            <4>3. b \in 0..(f.offset - 1) /\ ~(b < f.line) /\ ~f.aborted
                BY <1>1, <2>4, <2>5, <3>1, <3>3, <4>2
            <4> QED BY <1>5, <2>5, <4>3 DEF SentInv
        <3> QED BY <3>2, <3>3
    <2>6. SentInv(n)'
        BY <2>5 DEF SentInv
    <2> QED BY <2>4, <2>6
<1>8. ASSUME NEW x \in forwarders' PROVE x \in Forwarder /\ SentInv(x)'
    <2>1. x \in forwarders \/ x = h \/ (c.bytes # <<>> /\ x = g)
        BY <1>3
    <2> HIDE DEF g, h
    <2> QED BY <1>1, <1>5, <1>6, <1>7, <2>1
<1> QED BY <1>4, <1>8 DEF PhoneTypes, PhoneInv

(* An aborted forwarder promises nothing.                                  *)
LEMMA AbortedKeep ==
    ASSUME forwarders \subseteq Forwarder,
           NEW f \in {[g EXCEPT !.aborted = TRUE] : g \in {h \in forwarders : h.stage = "loop"}}
    PROVE  f \in Forwarder /\ SentInv(f)'
<1>1. PICK g \in forwarders : f = [g EXCEPT !.aborted = TRUE]
    OBVIOUS
<1>2. g \in Forwarder
    OBVIOUS
<1>3. f \in Forwarder /\ f.aborted = TRUE
    BY <1>1, <1>2 DEF Forwarder
<1> QED BY <1>3 DEF SentInv

LEMMA PhoneKept == ASSUME IInv, [Next]_vars PROVE PhoneTypes' /\ PhoneInv'
<1> USE DEF IInv
<1>1. forwarders \subseteq Forwarder /\ sent \in Sent /\ sent.sub \in Nat
    BY DEF Types, PhoneTypes, Sent
<1>2. ASSUME UNCHANGED phoneVars PROVE PhoneTypes' /\ PhoneInv'
    BY <1>1, <1>2 DEF phoneVars, Types, PhoneTypes, PhoneInv, SentInv
<1>3. ASSUME NEW r \in Runs, Subscribe(r) PROVE PhoneTypes' /\ PhoneInv'
    <2>1. PICK new : new = [sub |-> sent.sub + 1, run |-> r, stage |-> "start", offset |-> 0,
                            line |-> 0, aborted |-> FALSE]
        OBVIOUS
    <2>2. new \in Forwarder /\ new.offset = 0
        BY <1>1, <2>1, BytesAreNat DEF Forwarder
    <2>3. SentInv(new)'
        BY <2>2 DEF SentInv
    <2>4. sent' \in Sent
        BY <1>1, <1>3 DEF Subscribe, Sent
    <2>5. ASSUME NEW f \in forwarders'
          PROVE  \/ f = new
                 \/ f \in {[g EXCEPT !.aborted = TRUE] : g \in {h \in forwarders : h.stage = "loop"}}
        BY <1>3, <2>1 DEF Subscribe
    <2> QED BY <1>1, <2>2, <2>3, <2>4, <2>5, AbortedKeep DEF PhoneTypes, PhoneInv
<1>4. CASE Unsubscribe
    BY <1>1, <1>4, AbortedKeep DEF Unsubscribe, PhoneTypes, PhoneInv
<1>5. ASSUME NEW f \in forwarders, Wakes(f) PROVE PhoneTypes' /\ PhoneInv'
    <2> DEFINE n == [f EXCEPT !.stage = "loop"]
    <2>1. n \in Forwarder /\ n.offset = f.offset /\ n.line = f.line /\ n.aborted = f.aborted
        BY <1>1 DEF Forwarder
    <2>2. forwarders' = (forwarders \ {f}) \cup {n} /\ UNCHANGED sent
        BY <1>5 DEF Wakes
    <2> HIDE DEF n
    <2>3. SentInv(n)
        BY <2>1 DEF SentInv, PhoneInv
    <2> QED BY <1>1, <2>1, <2>2, <2>3 DEF PhoneTypes, PhoneInv, SentInv
<1>6. CASE Restart
    BY <1>1, <1>6 DEF Restart, PhoneTypes, PhoneInv
<1>7. WindowStep \/ UNCHANGED vars => UNCHANGED phoneVars
    BY DEF WindowStep, PollAsks, PollDraws, LateDraws, vars
<1>8. \A r : HostStep(r) \/ Attach(r) => UNCHANGED phoneVars
    BY DEF HostStep, Launch, Read, Deregister, OpenStream, PublishAppends, ReaderEnds, Attach
<1> QED BY <1>2, <1>3, <1>4, <1>5, <1>6, <1>7, <1>8, NextSplit, SnapshotKeeps, ForwardKeeps
        DEF Types, PhoneStep

-----------------------------------------------------------------------------
LEMMA InitHolds == Init => IInv
<1> SUFFICES ASSUME Init PROVE IInv
    OBVIOUS
<1>1. Streaming = {} /\ \A r \in Runs : printed[r] = 0 /\ held[r] = 0
    BY DEF Init, Streaming
<1>2. printed \in [Runs -> Bytes] /\ held \in [Runs -> 0..ReadMax]
    BY BytesAreNat, Sizes DEF Init
<1>3. HostTypes
    BY <1>1, <1>2 DEF Init, HostTypes
<1>4. poll \in Poll /\ view \in View /\ sent \in Sent
    <2>1. poll \in Poll
        BY BytesAreNat DEF Init, Poll
    <2>2. view \in View /\ sent \in Sent
        BY DEF Init, View, Sent
    <2> QED BY <2>1, <2>2
<1>5. Types
    BY <1>3, <1>4 DEF Init, Types, WindowTypes, PhoneTypes
<1>6. StreamInv
    BY <1>1 DEF Init, StreamInv
<1>7. ViewInv
    BY DEF Init, ViewInv, Piece
<1>8. PhoneInv
    BY DEF Init, PhoneInv
<1> QED BY <1>5, <1>6, <1>7, <1>8 DEF IInv

LEMMA NextKeeps == IInv /\ [Next]_vars => IInv'
  BY HostKept, WindowKept, PhoneKept DEF IInv, Types

(* Every reachable state is well typed, every stream is whole, the answers *)
(* and the view are pieces of it, and what the phone passed was sent.      *)
THEOREM AlwaysIInv == Spec => []IInv
  BY InitHolds, NextKeeps, PTL DEF Spec

(* Every count of bytes that a stream, an answer, the loop or a forwarder  *)
(* keeps stays within what the run printed.                                *)
THEOREM AlwaysTypeOK == Spec => []TypeOK
<1>1. IInv => TypeOK
    BY DEF IInv, Types, HostTypes, WindowTypes, PhoneTypes, Poll, View, TypeOK
<1> QED BY <1>1, AlwaysIInv, PTL

(* The window shows one unbroken piece of the output that ends where its   *)
(* loop goes on, for every window, chunk and read size.                    *)
THEOREM AlwaysViewIsOnePiece == Spec => []ViewIsOnePiece
<1>1. ASSUME IInv, ~view.mixed
      PROVE  view.bytes = [k \in 1..Len(view.bytes) |-> poll.cursor - Len(view.bytes) + k - 1]
    <2>1. view.bytes \in Seq(Bytes)
        BY <1>1 DEF IInv, Types, WindowTypes, View
    <2>2. \A k \in 1..Len(view.bytes) : view.bytes[k] = poll.cursor - Len(view.bytes) + k - 1
        BY <1>1 DEF IInv, ViewInv, Piece
    <2>3. view.bytes = [k \in 1..Len(view.bytes) |-> view.bytes[k]]
        BY <2>1
    <2> QED BY <2>2, <2>3
<1>2. IInv => ViewIsOnePiece
    BY <1>1 DEF ViewIsOnePiece
<1> QED BY <1>2, AlwaysIInv, PTL

(* A forwarder never jumps over a byte that the stream still had.          *)
THEOREM AlwaysPhoneMissesOnlyDropped == Spec => []PhoneMissesOnlyDropped
<1>1. IInv => PhoneMissesOnlyDropped
    BY DEF IInv, PhoneInv, SentInv, PhoneMissesOnlyDropped
<1> QED BY <1>1, AlwaysIInv, PTL
=============================================================================
