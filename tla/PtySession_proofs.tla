-------------------------- MODULE PtySession_proofs --------------------------
(***************************************************************************)
(* Proofs about a PTY session and the terminal that shows it, for any      *)
(* capacity of the ring and any number of chunks, attaches and             *)
(* connections.                                                            *)
(***************************************************************************)
EXTENDS PtySession, SequenceTheorems, TLAPS

-----------------------------------------------------------------------------
(* The inductive invariant.                                                *)

Busy == {"push", "count", "feed", "send"}

\* The chunks that are in the ring, and those that have been sent, or would have been.
Pushed == IF rd = "push" THEN cur - 1 ELSE cur
Told   == IF rd \in Busy THEN cur - 1 ELSE cur

CountInv ==
  /\ cur <= written /\ (rd \in Busy => cur >= 1)
  /\ seq = IF rd \in {"push", "count"} THEN cur - 1 ELSE cur

\* The ring holds the last chunks that were pushed.
RingInv ==
  /\ Len(ring) <= Pushed /\ (Pushed > 0 => Len(ring) > 0)
  /\ \A j \in 1..Len(ring) : ring[j] = Pushed - Len(ring) + j

\* The outputs in the channel are in order; when the terminal has its snapshot and is
\* still subscribed, every chunk sent since is among them.
IsOutput(i, n) == i \in 1..Len(chan) /\ chan[i].k = "output" /\ chan[i].n = n
ChanInv ==
  /\ sub <= conn /\ (sub # conn => chan = << >>)
  /\ \A i \in 1..Len(chan) :
       chan[i].k = "output" => chan[i].seq = chan[i].n /\ chan[i].n \in 1..Told
  /\ \A i, j \in 1..Len(chan) :
       i < j /\ chan[i].k = "output" /\ chan[j].k = "output" => chan[i].n < chan[j].n
  /\ sub = conn /\ srv # "snapshot" => \A n \in last + 1..Told : \E i \in 1..Len(chan) : IsOutput(i, n)

\* The terminal ends with the chunk it counts from, or, when the snapshot was taken
\* between the push and the count, with the one after.
ScreenInv ==
  /\ screen # << >> => /\ screen[Len(screen)] \in {last, last + 1}
                       /\ screen[Len(screen)] <= Pushed
  /\ NoGap

Streams == TypeOK /\ CountInv /\ RingInv /\ ChanInv /\ ScreenInv

-----------------------------------------------------------------------------
(* Sequences.                                                              *)

\* push_ring: what is left after a trim is the end of the sequence, and not more than the
\* capacity.
LEMMA TrimmedFacts ==
  ASSUME NEW s \in Seq(Chunk), Len(s) <= RingCap + 1, Len(s) > 0
  PROVE  /\ Trimmed(s) \in Seq(Chunk)
         /\ Len(Trimmed(s)) = IF Len(s) > RingCap THEN RingCap ELSE Len(s)
         /\ \A j \in 1..Len(Trimmed(s)) : Trimmed(s)[j] = s[Len(s) - Len(Trimmed(s)) + j]
<1> DEFINE m == IF Len(s) > RingCap THEN Len(s) - RingCap + 1 ELSE 1
<1>1. Len(s) \in Nat /\ RingCap \in Nat /\ RingCap >= 1 /\ m \in Nat /\ m >= 1
  BY BoundsAssumption, LenProperties
<1>2. \A j \in m..Len(s) : s[j] \in Chunk
  BY <1>1, ElementOfSeq
<1>3. /\ SubSeq(s, m, Len(s)) \in Seq(Chunk)
      /\ Len(SubSeq(s, m, Len(s))) = IF m <= Len(s) THEN Len(s) - m + 1 ELSE 0
      /\ \A j \in 1..Len(s) - m + 1 : SubSeq(s, m, Len(s))[j] = s[m + j - 1]
  BY <1>1, <1>2, SubSeqProperties
<1>4. Trimmed(s) = SubSeq(s, m, Len(s))
  BY DEF Trimmed
<1> HIDE DEF m
<1>5. m = IF Len(s) > RingCap THEN Len(s) - RingCap + 1 ELSE 1
  BY DEF m
<1>6. m <= Len(s) /\ Len(Trimmed(s)) = Len(s) - m + 1
  <2>1. m <= Len(s)
    BY <1>1, <1>5
  <2> QED BY <1>3, <1>4, <2>1
<1>7. \A j \in 1..Len(Trimmed(s)) : Trimmed(s)[j] = s[Len(s) - Len(Trimmed(s)) + j]
  <2> SUFFICES ASSUME NEW j \in 1..Len(Trimmed(s))
               PROVE  Trimmed(s)[j] = s[Len(s) - Len(Trimmed(s)) + j]
    OBVIOUS
  <2>1. Trimmed(s)[j] = s[m + j - 1]
    BY <1>3, <1>4, <1>6
  <2>2. m + j - 1 = Len(s) - Len(Trimmed(s)) + j
    BY <1>1, <1>6
  <2> QED BY <2>1, <2>2
<1>8. Len(Trimmed(s)) = IF Len(s) > RingCap THEN RingCap ELSE Len(s)
  BY <1>1, <1>5, <1>6
<1> QED BY <1>3, <1>4, <1>7, <1>8

\* What a send does to the channel.
LEMMA AppendFacts ==
  ASSUME NEW S, NEW s \in Seq(S), NEW e \in S
  PROVE  /\ Append(s, e) \in Seq(S) /\ Len(Append(s, e)) = Len(s) + 1
         /\ \A i \in 1..Len(s) : Append(s, e)[i] = s[i]
         /\ Append(s, e)[Len(s) + 1] = e /\ Len(s) \in Nat
BY AppendProperties, LenProperties

-----------------------------------------------------------------------------
(* What a step leaves alone.                                               *)

LEMMA Numbers ==
  ASSUME TypeOK, CountInv
  PROVE  /\ cur \in Nat /\ written \in Nat /\ seq \in Nat /\ last \in Nat /\ conn \in Nat /\ sub \in Nat
         /\ Pushed \in Nat /\ Told \in Nat /\ Told <= Pushed /\ Pushed <= Told + 1
         /\ Told <= seq /\ seq <= Pushed /\ Pushed <= MaxChunks
         /\ Len(ring) \in Nat /\ Len(chan) \in Nat /\ Len(screen) \in Nat
         /\ (rd \notin {"push", "count"} => seq = cur) /\ seq <= cur
BY BoundsAssumption, LenProperties DEF TypeOK, CountInv, Pushed, Told, Busy

LEMMA RingKept ==
  ASSUME RingInv, ring' = ring, Pushed' = Pushed
  PROVE  RingInv'
BY DEF RingInv

LEMMA ChanKept ==
  ASSUME ChanInv, UNCHANGED <<chan, sub, conn, last>>, Told' = Told,
         srv = "snapshot" => srv' = "snapshot" \/ sub # conn
  PROVE  ChanInv'
BY DEF ChanInv, IsOutput

LEMMA ScreenKept ==
  ASSUME TypeOK, CountInv, ScreenInv, UNCHANGED viewVars, Pushed' \in Nat, Pushed' >= Pushed
  PROVE  ScreenInv'
<1>1. /\ UNCHANGED <<screen, last>> /\ Pushed \in Nat
      /\ (screen # << >> => screen[Len(screen)] \in Nat)
  <2>1. screen # << >> => Len(screen) \in 1..Len(screen)
    BY LenProperties, EmptySeq DEF TypeOK
  <2>2. screen # << >> => screen[Len(screen)] \in Chunk
    BY <2>1, ElementOfSeq DEF TypeOK
  <2> QED BY <2>2, Numbers, BoundsAssumption DEF viewVars, Chunk
<1>2. NoGap'
  BY <1>1 DEF ScreenInv, NoGap
<1> QED BY <1>1, <1>2 DEF ScreenInv

\* A step of the waiter, the child or the server that touches none of the streams.
LEMMA Quiet ==
  ASSUME Streams, TypeOK', UNCHANGED <<readerVars, ringVars, sub, conn, chan, viewVars>>,
         written' \in Nat, written' >= written, srv = "snapshot" => srv' = "snapshot"
  PROVE  Streams'
<1>1. UNCHANGED <<rd, cur, ring, seq, last>> /\ Pushed' = Pushed /\ Told' = Told
  BY DEF readerVars, ringVars, viewVars, Pushed, Told
<1>2. CountInv'
  BY <1>1, Numbers DEF Streams, CountInv
<1>3. Pushed \in Nat
  BY Numbers DEF Streams
<1> QED BY <1>1, <1>2, <1>3, RingKept, ChanKept, ScreenKept DEF Streams

-----------------------------------------------------------------------------
(* Sending to the subscriber.                                              *)

LEMMA TellNotice ==
  ASSUME TypeOK, ChanInv, NEW t \in {"agent", "exited"}, Tell(Notice(t)),
         UNCHANGED <<sub, conn, srv, last>>, Told' = Told
  PROVE  chan' \in Seq(Event) /\ ChanInv'
<1>1. Notice(t) \in Event /\ Notice(t).k # "output"
  BY BoundsAssumption DEF Notice, Event
<1>2. CASE sub # conn
  <2>1. chan' = chan
    BY <1>2 DEF Tell
  <2> QED BY <1>2, <2>1, ChanKept DEF TypeOK
<1>3. CASE sub = conn
  <2> DEFINE e == Notice(t)
  <2>1. chan' = Append(chan, e)
    BY <1>3 DEF Tell
  <2> HIDE DEF e
  <2>2. /\ chan' \in Seq(Event) /\ Len(chan') = Len(chan) + 1 /\ Len(chan) \in Nat
        /\ \A i \in 1..Len(chan) : chan'[i] = chan[i]
        /\ chan'[Len(chan) + 1].k # "output"
    BY <1>1, <2>1, AppendFacts DEF TypeOK, e
  <2>3. ASSUME NEW i \in 1..Len(chan'), chan'[i].k = "output"
        PROVE  i \in 1..Len(chan) /\ chan'[i] = chan[i]
    BY <2>2, <2>3
  <2>4. \A i \in 1..Len(chan') :
          chan'[i].k = "output" => chan'[i].seq = chan'[i].n /\ chan'[i].n \in 1..Told
    BY <2>3 DEF ChanInv
  <2>5. \A i, j \in 1..Len(chan') :
          i < j /\ chan'[i].k = "output" /\ chan'[j].k = "output" => chan'[i].n < chan'[j].n
    BY <2>3 DEF ChanInv
  <2>6. ASSUME srv # "snapshot", NEW n \in last + 1..Told
        PROVE  \E i \in 1..Len(chan') : IsOutput(i, n)'
    <3>1. PICK i \in 1..Len(chan) : IsOutput(i, n)
      BY <1>3, <2>6 DEF ChanInv
    <3> QED BY <2>2, <3>1 DEF IsOutput
  <2> QED BY <1>3, <2>2, <2>4, <2>5, <2>6 DEF ChanInv
<1> QED BY <1>2, <1>3

\* The output of the chunk in hand follows all that were sent.
LEMMA TellOutput ==
  ASSUME TypeOK, CountInv, ChanInv, rd = "send", Tell(Output(cur, seq)),
         UNCHANGED <<sub, conn, srv, last>>, Told' = cur
  PROVE  chan' \in Seq(Event) /\ ChanInv'
<1>1. seq = cur /\ cur \in Nat /\ cur >= 1 /\ Told = cur - 1 /\ cur <= MaxChunks /\ last \in Nat
  BY BoundsAssumption DEF TypeOK, CountInv, Busy, Told
<1>2. Output(cur, seq) \in Event /\ Output(cur, seq).k = "output" /\ Output(cur, seq).n = cur
      /\ Output(cur, seq).seq = cur
  BY <1>1, BoundsAssumption DEF Output, Event
<1>3. CASE sub # conn
  <2>1. chan' = chan /\ chan = << >>
    BY <1>3 DEF Tell, ChanInv
  <2>2. Len(chan) = 0
    BY <2>1, EmptySeq
  <2> QED BY <1>3, <2>1, <2>2 DEF TypeOK, ChanInv
<1>4. CASE sub = conn
  <2> DEFINE e == Output(cur, seq)
  <2>1. chan' = Append(chan, e)
    BY <1>4 DEF Tell
  <2> HIDE DEF e
  <2>2. /\ chan' \in Seq(Event) /\ Len(chan') = Len(chan) + 1 /\ Len(chan) \in Nat
        /\ \A i \in 1..Len(chan) : chan'[i] = chan[i]
        /\ chan'[Len(chan) + 1] = e
    BY <1>2, <2>1, AppendFacts DEF TypeOK, e
  <2>3. e.k = "output" /\ e.n = cur /\ e.seq = cur
    BY <1>2 DEF e
  <2>4. ASSUME NEW i \in 1..Len(chan'), chan'[i].k = "output"
        PROVE  \/ /\ i \in 1..Len(chan) /\ chan'[i] = chan[i] /\ chan[i].seq = chan[i].n
                  /\ chan[i].n \in 1..cur - 1
               \/ i = Len(chan) + 1 /\ chan'[i].n = cur /\ chan'[i].seq = cur
    <3>1. CASE i \in 1..Len(chan)
      BY <1>1, <2>2, <2>4, <3>1 DEF ChanInv
    <3>2. CASE i = Len(chan) + 1
      BY <2>2, <2>3, <3>2
    <3> QED BY <2>2, <3>1, <3>2
  <2>5. \A i \in 1..Len(chan') :
          chan'[i].k = "output" => chan'[i].seq = chan'[i].n /\ chan'[i].n \in 1..cur
    BY <1>1, <2>4
  <2>6. ASSUME NEW i \in 1..Len(chan'), NEW j \in 1..Len(chan'), i < j,
               chan'[i].k = "output", chan'[j].k = "output"
        PROVE  chan'[i].n < chan'[j].n
    <3>1. i \in 1..Len(chan) /\ chan'[i] = chan[i] /\ chan[i].n \in 1..cur - 1
      BY <2>2, <2>4, <2>6
    <3>2. CASE j = Len(chan) + 1
      BY <1>1, <2>2, <2>3, <3>1, <3>2
    <3>3. CASE j \in 1..Len(chan)
      BY <2>2, <2>6, <3>1, <3>3 DEF ChanInv
    <3> QED BY <2>2, <3>2, <3>3
  <2>7. ASSUME srv # "snapshot", NEW n \in last + 1..cur
        PROVE  \E i \in 1..Len(chan') : IsOutput(i, n)'
    <3>1. CASE n = cur
      <4>1. Len(chan) + 1 \in 1..Len(chan')
        BY <2>2
      <4> QED BY <2>2, <2>3, <3>1, <4>1 DEF IsOutput
    <3>2. CASE n # cur
      <4>1. n \in last + 1..Told
        BY <1>1, <3>2
      <4>2. PICK i \in 1..Len(chan) : IsOutput(i, n)
        BY <1>4, <2>7, <4>1 DEF ChanInv
      <4> QED BY <2>2, <4>2 DEF IsOutput
    <3> QED BY <3>1, <3>2
  <2> QED BY <1>4, <2>2, <2>5, <2>6, <2>7 DEF ChanInv
<1> QED BY <1>3, <1>4

-----------------------------------------------------------------------------
(* The steps of the reader.                                                *)

LEMMA ReadChunkStep ==
  ASSUME Streams, ReadChunk
  PROVE  Streams'
<1>1. /\ rd = "read" /\ rd' = "push" /\ cur' = cur + 1 /\ cur < written
      /\ UNCHANGED <<written, ring, seq, sub, conn, srv, chan, screen, last>>
  BY DEF ReadChunk, AfterSection, procVars, ringVars, servVars, viewVars
<1>2. cur \in Nat /\ written \in Nat /\ written <= MaxChunks /\ seq = cur /\ Pushed \in Nat
  BY <1>1, Numbers, BoundsAssumption DEF Streams, TypeOK
<1>3. Pushed' = Pushed /\ Told' = Told
  BY <1>1, <1>2 DEF Pushed, Told, Busy
<1>4. TypeOK'
  BY <1>1, <1>2, BoundsAssumption DEF ReadChunk, Streams, TypeOK, procVars, ringVars, servVars, viewVars
<1>5. CountInv'
  BY <1>1, <1>2 DEF CountInv, Busy
<1> QED BY <1>1, <1>2, <1>3, <1>4, <1>5, RingKept, ChanKept, ScreenKept DEF Streams, viewVars

LEMMA PushRingStep ==
  ASSUME Streams, PushRing
  PROVE  Streams'
<1>1. /\ rd = "push" /\ rd' = "count" /\ ring' = Trimmed(Append(ring, cur))
      /\ UNCHANGED <<written, cur, seq, sub, conn, srv, chan, screen, last>>
  BY DEF PushRing, AfterSection, procVars, servVars, viewVars
<1>2. cur \in Nat /\ cur >= 1 /\ cur <= MaxChunks /\ Pushed = cur - 1 /\ Pushed' = cur /\ Told' = Told
  BY <1>1, Numbers, BoundsAssumption DEF Streams, TypeOK, CountInv, Pushed, Told, Busy
<1>3. ring \in Seq(Chunk) /\ Len(ring) <= RingCap /\ cur \in Chunk
      /\ Len(ring) \in Nat /\ RingCap \in Nat /\ RingCap >= 1
  BY <1>2, BoundsAssumption, LenProperties DEF Streams, TypeOK, Chunk
<1> DEFINE s == Append(ring, cur)
<1>4. /\ s \in Seq(Chunk) /\ Len(s) = Len(ring) + 1 /\ s[Len(ring) + 1] = cur
      /\ \A j \in 1..Len(ring) : s[j] = ring[j]
  BY <1>3, AppendFacts
<1> HIDE DEF s
<1>5. \A j \in 1..Len(s) : s[j] = cur - Len(s) + j
  <2>1. \A j \in 1..Len(ring) : s[j] = cur - 1 - Len(ring) + j
    BY <1>2, <1>4 DEF Streams, RingInv
  <2>2. \A j \in 1..Len(ring) : cur - 1 - Len(ring) + j = cur - Len(s) + j
    BY <1>2, <1>3, <1>4
  <2>3. cur = cur - Len(s) + (Len(ring) + 1)
    BY <1>2, <1>3, <1>4
  <2>4. \A j \in 1..Len(s) : j \in 1..Len(ring) \/ j = Len(ring) + 1
    BY <1>3, <1>4
  <2> QED BY <1>4, <2>1, <2>2, <2>3, <2>4
<1>6. /\ ring' \in Seq(Chunk)
      /\ Len(ring') = IF Len(s) > RingCap THEN RingCap ELSE Len(s)
      /\ \A j \in 1..Len(ring') : ring'[j] = s[Len(s) - Len(ring') + j]
  <2>1. Len(s) <= RingCap + 1 /\ Len(s) > 0
    BY <1>3, <1>4
  <2> QED BY <1>1, <1>4, <2>1, TrimmedFacts DEF s
<1>7. Len(ring') \in Nat /\ Len(ring') <= RingCap /\ Len(ring') > 0 /\ Len(ring') <= Len(s)
  BY <1>3, <1>4, <1>6
<1>8. RingInv'
  <2>1. \A j \in 1..Len(ring') : ring'[j] = cur - Len(ring') + j
    <3> SUFFICES ASSUME NEW j \in 1..Len(ring') PROVE ring'[j] = cur - Len(ring') + j
      OBVIOUS
    <3>1. Len(s) - Len(ring') + j \in 1..Len(s)
      BY <1>3, <1>4, <1>7
    <3>2. ring'[j] = cur - Len(s) + (Len(s) - Len(ring') + j)
      BY <1>5, <1>6, <3>1
    <3> QED BY <1>2, <1>3, <1>4, <1>7, <3>2
  <2>2. Len(ring') <= cur
    <3>1. Len(ring) <= cur - 1
      BY <1>2 DEF Streams, RingInv
    <3> QED BY <1>2, <1>3, <1>4, <1>7, <3>1
  <2> QED BY <1>2, <1>7, <2>1, <2>2 DEF RingInv
<1>9. TypeOK'
  BY <1>1, <1>6, <1>7 DEF PushRing, Streams, TypeOK, procVars, servVars, viewVars
<1>10. CountInv'
  BY <1>1 DEF Streams, CountInv, Busy
<1>11. ScreenInv'
  BY <1>1, <1>2, ScreenKept DEF Streams, viewVars
<1> QED BY <1>1, <1>2, <1>8, <1>9, <1>10, <1>11, ChanKept DEF Streams

LEMMA ReaderStep ==
  ASSUME Streams, Reader
  PROVE  Streams'
<1>1. CASE ReadChunk
  BY <1>1, ReadChunkStep
<1>2. CASE ReadEof
  <2>1. /\ rd = "read" /\ rd' = "eof"
        /\ UNCHANGED <<written, cur, ring, seq, sub, conn, srv, chan, screen, last>>
    BY <1>2 DEF ReadEof, procVars, ringVars, servVars, viewVars
  <2>2. Pushed' = Pushed /\ Told' = Told /\ Pushed \in Nat
    BY <2>1, Numbers DEF Pushed, Told, Busy, Streams
  <2>3. TypeOK'
    BY <1>2, <2>1 DEF ReadEof, Streams, TypeOK, procVars, ringVars, servVars, viewVars
  <2>4. CountInv'
    BY <2>1 DEF Streams, CountInv, Busy
  <2> QED BY <2>1, <2>2, <2>3, <2>4, RingKept, ChanKept, ScreenKept DEF Streams, viewVars
<1>3. CASE PushRing
  BY <1>3, PushRingStep
<1>4. CASE CountSeq
  <2>1. /\ rd = "count" /\ rd' = "feed" /\ seq' = seq + 1
        /\ UNCHANGED <<written, cur, ring, sub, conn, srv, chan, screen, last>>
    BY <1>4 DEF CountSeq, AfterSection, procVars, servVars, viewVars
  <2>2. Pushed' = Pushed /\ Told' = Told /\ Pushed \in Nat
    BY <2>1, Numbers DEF Pushed, Told, Busy, Streams
  <2>3. CountInv' /\ seq' = cur /\ cur \in Nat /\ cur <= MaxChunks
    BY <2>1, Numbers, BoundsAssumption DEF Streams, TypeOK, CountInv, Busy
  <2>4. TypeOK'
    BY <1>4, <2>1, <2>3, BoundsAssumption DEF CountSeq, Streams, TypeOK, procVars, servVars, viewVars
  <2> QED BY <2>1, <2>2, <2>3, <2>4, RingKept, ChanKept, ScreenKept DEF Streams, viewVars
<1>5. CASE FeedDetector
  <2>1. /\ rd = "feed" /\ rd' = "send"
        /\ UNCHANGED <<written, cur, ring, seq, sub, conn, srv, screen, last>>
        /\ UNCHANGED chan \/ Tell(Notice("agent"))
    BY <1>5 DEF FeedDetector, AfterSection, procVars, ringVars, servVars, viewVars
  <2>2. Pushed' = Pushed /\ Told' = Told /\ Pushed \in Nat
    BY <2>1, Numbers DEF Pushed, Told, Busy, Streams
  <2>3. CountInv'
    BY <2>1 DEF Streams, CountInv, Busy
  <2>4. chan' \in Seq(Event) /\ ChanInv'
    <3>1. CASE UNCHANGED chan
      BY <2>1, <2>2, <3>1, ChanKept DEF Streams, TypeOK
    <3>2. CASE Tell(Notice("agent"))
      BY <2>1, <2>2, <3>2, TellNotice DEF Streams
    <3> QED BY <2>1, <3>1, <3>2
  <2>5. TypeOK'
    BY <1>5, <2>1, <2>4 DEF FeedDetector, Streams, TypeOK, procVars, ringVars, servVars, viewVars
  <2> QED BY <2>1, <2>2, <2>3, <2>4, <2>5, RingKept, ScreenKept DEF Streams, viewVars
<1>6. CASE SendOutput
  <2>1. /\ rd = "send" /\ rd' = "read" /\ Tell(Output(cur, seq))
        /\ UNCHANGED <<written, cur, ring, seq, sub, conn, srv, screen, last>>
    BY <1>6 DEF SendOutput, AfterSection, procVars, ringVars, servVars, viewVars
  <2>2. Pushed' = Pushed /\ Told' = cur /\ Pushed \in Nat
    BY <2>1, Numbers DEF Pushed, Told, Busy, Streams
  <2>3. CountInv'
    BY <2>1 DEF Streams, CountInv, Busy
  <2>4. chan' \in Seq(Event) /\ ChanInv'
    BY <2>1, <2>2, TellOutput DEF Streams
  <2>5. TypeOK'
    BY <1>6, <2>1, <2>4 DEF SendOutput, Streams, TypeOK, procVars, ringVars, servVars, viewVars
  <2> QED BY <2>1, <2>2, <2>3, <2>4, <2>5, RingKept, ScreenKept DEF Streams, viewVars
<1> QED BY <1>1, <1>2, <1>3, <1>4, <1>5, <1>6 DEF Reader

-----------------------------------------------------------------------------
(* The steps of the child, the waiter and the client.                      *)

LEMMA QuietSteps ==
  ASSUME Streams,
         Write \/ Exit \/ PollExit \/ PollError \/ WaiterClose \/ WaiterRemove
           \/ Insert \/ Attach \/ Kill \/ KillClose \/ KillRemove \/ UNCHANGED vars
  PROVE  Streams'
<1>1. /\ UNCHANGED <<rd, cur, ring, seq, sub, conn, chan, screen, last>>
      /\ written' = written \/ (written < MaxChunks /\ written' = written + 1)
      /\ srv = "snapshot" => srv' = "snapshot"
  BY DEF Write, Exit, PollExit, PollError, WaiterClose, WaiterRemove, Insert, Attach, Kill,
         KillClose, KillRemove, vars, procVars, readerVars, ringVars, servVars, viewVars
<1>2. written \in Nat /\ written' \in 0..MaxChunks /\ written' >= written /\ written' \in Nat
  BY <1>1, BoundsAssumption DEF Streams, TypeOK
<1>3. TypeOK'
  <2>1. /\ alive' \in BOOLEAN /\ master' \in BOOLEAN /\ inMap' \in BOOLEAN
    BY DEF Write, Exit, PollExit, PollError, WaiterClose, WaiterRemove, Insert, Attach, Kill,
           KillClose, KillRemove, vars, procVars, Streams, TypeOK
  <2>2. attaches' \in 0..MaxAttaches
    BY BoundsAssumption
       DEF Write, Exit, PollExit, PollError, WaiterClose, WaiterRemove, Insert, Attach, Kill,
           KillClose, KillRemove, vars, servVars, Streams, TypeOK
  <2>3. /\ wt' \in {"poll", "close", "mark", "tell", "remove", "done"}
        /\ status' \in {"none", "working", "finished"}
        /\ srv' \in {"create", "idle", "subscribe", "snapshot", "close", "remove"}
    BY DEF Write, Exit, PollExit, PollError, WaiterClose, WaiterRemove, Insert, Attach, Kill,
           KillClose, KillRemove, vars, servVars, Streams, TypeOK, AfterAttach
  <2> QED BY <1>1, <1>2, <2>1, <2>2, <2>3 DEF Streams, TypeOK
<1> QED BY <1>1, <1>2, <1>3, Quiet DEF readerVars, ringVars, viewVars

\* The waiter tells the subscriber of the end: no output, and nothing else moves.
LEMMA WaiterTells ==
  ASSUME Streams, MarkExited \/ TellExited
  PROVE  Streams'
<1>1. /\ UNCHANGED <<rd, cur, ring, seq, written, sub, conn, srv, screen, last>>
      /\ UNCHANGED chan \/ Tell(Notice("agent")) \/ Tell(Notice("exited"))
  BY DEF MarkExited, TellExited, procVars, readerVars, ringVars, servVars, viewVars
<1>2. Pushed' = Pushed /\ Told' = Told /\ Pushed \in Nat
  BY <1>1, Numbers DEF Pushed, Told, Streams
<1>3. chan' \in Seq(Event) /\ ChanInv'
  <2>1. CASE UNCHANGED chan
    BY <1>1, <1>2, <2>1, ChanKept DEF Streams, TypeOK
  <2>2. CASE Tell(Notice("agent"))
    BY <1>1, <1>2, <2>2, TellNotice DEF Streams
  <2>3. CASE Tell(Notice("exited"))
    BY <1>1, <1>2, <2>3, TellNotice DEF Streams
  <2> QED BY <1>1, <2>1, <2>2, <2>3
<1>4. TypeOK'
  BY <1>1, <1>3 DEF MarkExited, TellExited, Streams, TypeOK, procVars, servVars
<1>5. CountInv'
  BY <1>1 DEF Streams, CountInv
<1> QED BY <1>1, <1>2, <1>3, <1>4, <1>5, RingKept, ScreenKept DEF Streams, viewVars

-----------------------------------------------------------------------------
(* The steps of the server that touch the streams.                         *)

LEMMA SubscribeStep ==
  ASSUME Streams, Subscribe
  PROVE  Streams'
<1>1. /\ srv' = "snapshot" /\ sub' = conn
      /\ UNCHANGED <<rd, cur, ring, seq, written, conn, chan, screen, last>>
  BY DEF Subscribe, AfterAttach, procVars, readerVars, ringVars, viewVars
<1>2. Pushed' = Pushed /\ Told' = Told /\ Pushed \in Nat /\ conn \in Nat
  BY <1>1, Numbers DEF Pushed, Told, Streams
<1>3. TypeOK'
  <2>1. sub' \in 0..MaxConns
    BY <1>1, BoundsAssumption DEF Streams, TypeOK
  <2> QED BY <1>1, <2>1 DEF Subscribe, Streams, TypeOK, procVars
<1>4. ChanInv'
  BY <1>1, <1>2 DEF Streams, ChanInv
<1>5. CountInv'
  BY <1>1 DEF Streams, CountInv
<1> QED BY <1>1, <1>2, <1>3, <1>4, <1>5, RingKept, ScreenKept DEF Streams, viewVars

\* The terminal takes over the ring: its last chunk is the one that was pushed last, and
\* seq counts that one or is about to.
LEMMA SnapshotStep ==
  ASSUME Streams, Snapshot
  PROVE  Streams'
<1>1. /\ srv' = "idle" /\ screen' = ring /\ last' = seq
      /\ UNCHANGED <<rd, cur, ring, seq, written, sub, conn, chan>>
  BY DEF Snapshot, AfterAttach, procVars, readerVars, ringVars
<1>2. /\ Pushed' = Pushed /\ Told' = Told /\ Pushed \in Nat /\ seq \in Nat /\ Told \in Nat
      /\ Told <= seq /\ Pushed \in {seq, seq + 1} /\ Len(ring) \in Nat
  <2>1. Pushed' = Pushed /\ Told' = Told
    BY <1>1 DEF Pushed, Told
  <2>2. Pushed \in {seq, seq + 1}
    BY Numbers DEF Streams, CountInv, Pushed, Told
  <2> QED BY <2>1, <2>2, Numbers DEF Streams
<1>3. TypeOK'
  BY <1>1 DEF Snapshot, Streams, TypeOK, procVars
<1>4. CountInv'
  BY <1>1 DEF Streams, CountInv
<1>5. ChanInv'
  <2>1. last' + 1..Told' = {}
    BY <1>1, <1>2
  <2> QED BY <1>1, <1>2, <2>1 DEF Streams, ChanInv
<1>6. ScreenInv'
  <2>1. NoGap'
    <3> SUFFICES ASSUME NEW i \in 1..Len(ring) - 1
                 PROVE  ring[i + 1] \in {ring[i], ring[i] + 1}
      BY <1>1 DEF NoGap
    <3>1. i \in 1..Len(ring) /\ i + 1 \in 1..Len(ring)
      BY <1>2
    <3>2. ring[i] = Pushed - Len(ring) + i /\ ring[i + 1] = Pushed - Len(ring) + (i + 1)
      BY <3>1 DEF Streams, RingInv
    <3> QED BY <1>2, <3>2
  <2>2. ASSUME screen' # << >>
        PROVE  screen'[Len(screen')] \in {last', last' + 1} /\ screen'[Len(screen')] <= Pushed'
    <3>1. Len(ring) \in 1..Len(ring)
      BY <1>1, <1>2, <2>2, EmptySeq DEF Streams, TypeOK
    <3>2. ring[Len(ring)] = Pushed - Len(ring) + Len(ring)
      BY <3>1 DEF Streams, RingInv
    <3> QED BY <1>1, <1>2, <3>2
  <2> QED BY <2>1, <2>2 DEF ScreenInv
<1> QED BY <1>1, <1>2, <1>3, <1>4, <1>5, <1>6, RingKept DEF Streams

LEMMA ReconnectStep ==
  ASSUME Streams, Reconnect
  PROVE  Streams'
<1>1. /\ conn' = conn + 1 /\ conn < MaxConns /\ chan' = << >>
      /\ UNCHANGED <<rd, cur, ring, seq, written, sub, srv, screen, last>>
  BY DEF Reconnect, procVars, readerVars, ringVars, viewVars
<1>2. Pushed' = Pushed /\ Told' = Told /\ Pushed \in Nat /\ conn \in Nat /\ sub \in Nat /\ sub <= conn
  BY <1>1, Numbers DEF Pushed, Told, Streams, ChanInv
<1>3. chan' \in Seq(Event) /\ Len(chan') = 0
  BY <1>1, EmptySeq
<1>4. TypeOK'
  <2>1. conn' \in 1..MaxConns
    BY <1>1, <1>2, BoundsAssumption DEF Streams, TypeOK
  <2> QED BY <1>1, <1>3, <2>1 DEF Reconnect, Streams, TypeOK, procVars
<1>5. CountInv'
  BY <1>1 DEF Streams, CountInv
<1>6. ChanInv'
  <2>1. sub' <= conn' /\ sub' # conn'
    BY <1>1, <1>2
  <2> QED BY <1>1, <1>3, <2>1 DEF ChanInv
<1> QED BY <1>1, <1>2, <1>4, <1>5, <1>6, RingKept, ScreenKept DEF Streams, viewVars

-----------------------------------------------------------------------------
(* The terminal takes the next event.                                      *)

\* An output that is not dropped is the one right after the last one seen.
LEMMA NextOutput ==
  ASSUME Streams, srv = "idle", chan # << >>, Head(chan).k = "output", Head(chan).seq > last
  PROVE  /\ sub = conn /\ Head(chan).n = last + 1 /\ Head(chan).seq = last + 1
         /\ last + 1 <= Told /\ last + 1 \in Chunk
<1>1. /\ last \in Nat /\ Told \in Nat /\ Told <= MaxChunks /\ Len(chan) \in Nat /\ Len(chan) # 0
  BY Numbers, BoundsAssumption, EmptySeq DEF Streams, TypeOK
<1>2. 1 \in 1..Len(chan) /\ Head(chan) = chan[1]
  BY <1>1, HeadTailProperties DEF Streams, TypeOK
<1>3. chan[1].seq = chan[1].n /\ chan[1].n \in 1..Told
  BY <1>2 DEF Streams, ChanInv
<1>4. sub = conn
  BY DEF Streams, ChanInv
<1>5. last + 1 \in last + 1..Told
  BY <1>1, <1>2, <1>3
<1>6. PICK i \in 1..Len(chan) : chan[i].k = "output" /\ chan[i].n = last + 1
  BY <1>4, <1>5 DEF Streams, ChanInv, IsOutput
<1>7. i = 1
  <2>1. ASSUME 1 < i PROVE FALSE
    <3>1. chan[1].n < chan[i].n
      BY <1>2, <1>6, <2>1 DEF Streams, ChanInv
    <3> QED BY <1>1, <1>2, <1>3, <1>6, <3>1
  <2> QED BY <1>1, <2>1
<1> QED BY <1>1, <1>2, <1>3, <1>4, <1>5, <1>6, <1>7, BoundsAssumption DEF Chunk

LEMMA WriteEventStep ==
  ASSUME Streams, WriteEvent
  PROVE  Streams'
<1> DEFINE e == Head(chan)
           taken == e.k = "output" /\ e.seq > last
<1>1. /\ srv = "idle" /\ srv' = "idle" /\ chan # << >> /\ chan' = Tail(chan)
      /\ UNCHANGED <<rd, cur, ring, seq, written, sub, conn>>
      /\ (taken => screen' = Append(screen, e.n) /\ last' = e.seq)
      /\ (~taken => UNCHANGED <<screen, last>>)
  BY DEF WriteEvent, procVars, readerVars, ringVars, servVars, viewVars
<1>2. /\ Pushed' = Pushed /\ Told' = Told /\ Pushed \in Nat /\ Told \in Nat /\ Told <= Pushed
      /\ last \in Nat /\ Len(screen) \in Nat /\ Len(chan) \in Nat /\ Len(chan) # 0
  BY <1>1, Numbers, EmptySeq DEF Pushed, Told, Streams, TypeOK
<1>3. /\ chan' \in Seq(Event) /\ Len(chan') = Len(chan) - 1 /\ e = chan[1]
      /\ \A i \in 1..Len(chan') : chan'[i] = chan[i + 1] /\ i + 1 \in 1..Len(chan)
  <2>1. /\ chan' \in Seq(Event) /\ Len(chan') = Len(chan) - 1 /\ e = chan[1]
        /\ \A i \in 1..Len(chan') : chan'[i] = chan[i + 1]
    BY <1>1, HeadTailProperties DEF Streams, TypeOK
  <2> QED BY <1>2, <2>1
<1>4. sub = conn
  BY <1>1 DEF Streams, ChanInv
<1>5. taken => /\ e.n = last + 1 /\ e.seq = last + 1 /\ last + 1 <= Told /\ last + 1 \in Chunk
  BY <1>1, NextOutput
<1> HIDE DEF e
<1>6. /\ screen' \in Seq(Chunk) /\ last' \in 0..MaxChunks
      /\ (taken => /\ Len(screen') = Len(screen) + 1 /\ screen'[Len(screen) + 1] = last + 1
                   /\ \A i \in 1..Len(screen) : screen'[i] = screen[i])
  <2>1. CASE taken
    <3>1. screen \in Seq(Chunk) /\ e.n \in Chunk
      BY <1>5, <2>1 DEF Streams, TypeOK
    <3>2. last' \in 0..MaxChunks
      BY <1>1, <1>5, <2>1, BoundsAssumption DEF Chunk
    <3>3. screen' = Append(screen, e.n) /\ e.n = last + 1
      BY <1>1, <1>5, <2>1
    <3> QED BY <2>1, <3>1, <3>2, <3>3, AppendFacts
  <2>2. CASE ~taken
    BY <1>1, <2>2 DEF Streams, TypeOK
  <2> QED BY <2>1, <2>2
<1>7. TypeOK'
  <2>1. inMap' \in BOOLEAN
    BY DEF WriteEvent, Streams, TypeOK
  <2> QED BY <1>1, <1>3, <1>6, <2>1 DEF WriteEvent, Streams, TypeOK, procVars, servVars
<1>8. CountInv'
  BY <1>1 DEF Streams, CountInv
<1>9. ChanInv'
  <2>1. sub' <= conn' /\ (sub' # conn' => chan' = << >>)
    BY <1>1, <1>4 DEF Streams, ChanInv
  <2>2. \A i \in 1..Len(chan') :
          chan'[i].k = "output" => chan'[i].seq = chan'[i].n /\ chan'[i].n \in 1..Told'
    BY <1>2, <1>3 DEF Streams, ChanInv
  <2>3. ASSUME NEW i \in 1..Len(chan'), NEW j \in 1..Len(chan'), i < j,
               chan'[i].k = "output", chan'[j].k = "output"
        PROVE  chan'[i].n < chan'[j].n
    <3>1. i + 1 < j + 1 /\ i + 1 \in 1..Len(chan) /\ j + 1 \in 1..Len(chan)
      BY <1>2, <1>3, <2>3
    <3> QED BY <1>3, <2>3, <3>1 DEF Streams, ChanInv
  <2>4. ASSUME NEW n \in last' + 1..Told'
        PROVE  \E i \in 1..Len(chan') : IsOutput(i, n)'
    <3>1. n \in last + 1..Told /\ ~(e.k = "output" /\ e.n = n)
      <4>1. CASE taken
        BY <1>1, <1>2, <1>5, <2>4, <4>1
      <4>2. CASE ~taken
        <5>1. last' = last
          BY <1>1, <4>2
        <5>2. e.k = "output" => e.seq <= last /\ e.n <= last /\ e.n \in Nat
          <6>1. e.k = "output" => e.seq = e.n /\ e.n \in 1..Told
            BY <1>2, <1>3 DEF Streams, ChanInv
          <6> QED BY <1>2, <4>2, <6>1
        <5> QED BY <1>2, <2>4, <5>1, <5>2
      <4> QED BY <4>1, <4>2
    <3>2. PICK i \in 1..Len(chan) : chan[i].k = "output" /\ chan[i].n = n
      BY <1>1, <1>4, <3>1 DEF Streams, ChanInv, IsOutput
    <3>3. i # 1
      BY <1>3, <3>1, <3>2
    <3>4. i - 1 \in 1..Len(chan') /\ (i - 1) + 1 = i
      BY <1>2, <1>3, <3>3
    <3>5. chan'[i - 1] = chan[i]
      BY <1>3, <3>4
    <3> QED BY <3>2, <3>4, <3>5 DEF IsOutput
  <2> QED BY <2>1, <2>2, <2>3, <2>4 DEF ChanInv
<1>10. ScreenInv'
  <2>1. CASE taken
    <3>1. screen' # << >> => /\ screen'[Len(screen')] \in {last', last' + 1}
                             /\ screen'[Len(screen')] <= Pushed'
      BY <1>1, <1>2, <1>5, <1>6, <2>1
    <3>2. ASSUME NEW i \in 1..Len(screen') - 1
          PROVE  screen'[i + 1] \in {screen'[i], screen'[i] + 1}
      <4>1. i \in 1..Len(screen) /\ screen'[i] = screen[i]
        BY <1>2, <1>6, <2>1
      <4>2. CASE i = Len(screen)
        <5>1. screen[i] \in {last, last + 1}
          <6>1. screen # << >>
            BY <4>1, EmptySeq
          <6> QED BY <4>2, <6>1 DEF Streams, ScreenInv
        <5> QED BY <1>2, <1>6, <2>1, <4>1, <4>2, <5>1
      <4>3. CASE i # Len(screen)
        <5>1. i \in 1..Len(screen) - 1 /\ i + 1 \in 1..Len(screen)
          BY <1>2, <4>1, <4>3
        <5> QED BY <1>6, <2>1, <4>1, <5>1 DEF Streams, ScreenInv, NoGap
      <4> QED BY <4>2, <4>3
    <3> QED BY <3>1, <3>2 DEF ScreenInv, NoGap
  <2>2. CASE ~taken
    BY <1>1, <1>2, <2>2, ScreenKept DEF Streams, viewVars
  <2> QED BY <2>1, <2>2
<1> QED BY <1>1, <1>2, <1>7, <1>8, <1>9, <1>10, RingKept DEF Streams

-----------------------------------------------------------------------------
(* The invariant.                                                          *)

LEMMA StreamsInit ==
  ASSUME Init
  PROVE  Streams
<1>1. /\ cur = 0 /\ seq = 0 /\ written = 0 /\ rd = "read" /\ sub = 0 /\ conn = 1 /\ last = 0
      /\ ring = << >> /\ chan = << >> /\ screen = << >>
  BY DEF Init
<1>2. /\ Len(ring) = 0 /\ Len(chan) = 0 /\ Len(screen) = 0
      /\ ring \in Seq(Chunk) /\ chan \in Seq(Event) /\ screen \in Seq(Chunk)
  BY <1>1, EmptySeq
<1>3. TypeOK
  <2>1. /\ alive \in BOOLEAN /\ master \in BOOLEAN /\ inMap \in BOOLEAN
        /\ wt \in {"poll", "close", "mark", "tell", "remove", "done"}
        /\ status \in {"none", "working", "finished"}
        /\ srv \in {"create", "idle", "subscribe", "snapshot", "close", "remove"}
        /\ rd \in {"read", "push", "count", "feed", "send", "eof"}
    BY DEF Init
  <2>2. /\ attaches = 0 /\ 0 \in 0..MaxAttaches /\ 0 \in 0..MaxChunks /\ 0 \in 0..MaxConns
        /\ 1 \in 1..MaxConns /\ 0 <= RingCap
    BY BoundsAssumption DEF Init
  <2> QED BY <1>1, <1>2, <2>1, <2>2 DEF TypeOK
<1>4. Pushed = 0 /\ Told = 0
  BY <1>1 DEF Pushed, Told, Busy
<1>5. CountInv /\ RingInv
  BY <1>1, <1>2, <1>4 DEF CountInv, RingInv, Busy
<1>6. ChanInv
  BY <1>1, <1>2, <1>4 DEF ChanInv
<1>7. ScreenInv
  BY <1>1, <1>2 DEF ScreenInv, NoGap
<1> QED BY <1>3, <1>5, <1>6, <1>7 DEF Streams

LEMMA StreamsStep ==
  ASSUME Streams, [Next]_vars
  PROVE  Streams'
<1>1. CASE Reader
  BY <1>1, ReaderStep
<1>2. CASE MarkExited \/ TellExited
  BY <1>2, WaiterTells
<1>3. CASE Subscribe
  BY <1>3, SubscribeStep
<1>4. CASE Snapshot
  BY <1>4, SnapshotStep
<1>5. CASE WriteEvent
  BY <1>5, WriteEventStep
<1>6. CASE Reconnect
  BY <1>6, ReconnectStep
<1>7. CASE \/ Write \/ Exit \/ PollExit \/ PollError \/ WaiterClose \/ WaiterRemove
           \/ Insert \/ Attach \/ Kill \/ KillClose \/ KillRemove \/ UNCHANGED vars
  BY <1>7, QuietSteps
<1> QED BY <1>1, <1>2, <1>3, <1>4, <1>5, <1>6, <1>7 DEF Next, Waiter, Server, Client, Rest

LEMMA StreamsAlways == Spec => []Streams
BY StreamsInit, StreamsStep, PTL DEF Spec

\* Every variable of the session, the server and the terminal keeps its type; the ring
\* never holds more than RING_CAP (session.rs:38-45).
THEOREM TypeCorrect == Spec => []TypeOK
<1>1. Streams => TypeOK
  BY DEF Streams
<1> QED BY <1>1, StreamsAlways, PTL

\* The terminal never misses a chunk between two it shows, however its attaches fall
\* between the four sections of the reader (host_server.rs:194-195, session.rs:272-300).
THEOREM NothingIsMissed == Spec => []NoGap
<1>1. Streams => NoGap
  BY DEF Streams, ScreenInv
<1> QED BY <1>1, StreamsAlways, PTL

\* A step never empties a terminal that shows something, and never takes it back before
\* its last chunk.
LEMMA ScreenStep ==
  ASSUME Streams, [Next]_vars, screen' # screen, screen # << >>
  PROVE  screen' # << >> /\ screen'[Len(screen')] >= screen[Len(screen)]
<1>1. Snapshot \/ WriteEvent
  BY DEF Next, Reader, Waiter, Server, Client, Rest, vars, viewVars, Write, Exit, ReadChunk, ReadEof,
         PushRing, CountSeq, FeedDetector, SendOutput, PollExit, PollError, WaiterClose, MarkExited,
         TellExited, WaiterRemove, Insert, Subscribe, KillClose, KillRemove, Attach, Kill, Reconnect
<1>2. /\ Len(screen) \in Nat /\ Len(ring) \in Nat /\ Pushed \in Nat /\ last \in Nat
      /\ screen[Len(screen)] \in {last, last + 1} /\ screen[Len(screen)] <= Pushed
      /\ screen[Len(screen)] >= 1
  <2>1. Len(screen) \in 1..Len(screen)
    BY LenProperties, EmptySeq DEF Streams, TypeOK
  <2>2. screen[Len(screen)] \in Chunk
    BY <2>1, ElementOfSeq DEF Streams, TypeOK
  <2>3. screen[Len(screen)] >= 1
    BY <2>2, BoundsAssumption DEF Chunk
  <2> QED BY <2>3, Numbers DEF Streams, ScreenInv
<1>3. CASE Snapshot
  <2>1. screen' = ring /\ Pushed > 0
    BY <1>2, <1>3 DEF Snapshot
  <2>2. Len(ring) > 0 /\ ring[Len(ring)] = Pushed - Len(ring) + Len(ring)
    <3>1. Len(ring) > 0
      BY <2>1 DEF Streams, RingInv
    <3> QED BY <1>2, <3>1 DEF Streams, RingInv
  <2> QED BY <1>2, <2>1, <2>2, EmptySeq
<1>4. CASE WriteEvent
  <2>1. /\ srv = "idle" /\ chan # << >> /\ Head(chan).k = "output" /\ Head(chan).seq > last
        /\ screen' = Append(screen, Head(chan).n)
    BY <1>4 DEF WriteEvent, viewVars
  <2>2. Head(chan).n = last + 1 /\ last + 1 \in Chunk
    BY <2>1, NextOutput
  <2>3. screen \in Seq(Chunk)
    BY DEF Streams, TypeOK
  <2>4. Len(screen') = Len(screen) + 1 /\ screen'[Len(screen) + 1] = last + 1
    BY <2>1, <2>2, <2>3, AppendFacts
  <2> QED BY <1>2, <2>4, EmptySeq
<1> QED BY <1>1, <1>3, <1>4

\* A repeated attach never takes back a chunk that was shown (session.rs:272, 281-283).
THEOREM NothingIsTakenBack == Spec => NoRewind
<1>1. Streams /\ [Next]_vars
        => [screen # << >> => screen' # << >> /\ screen'[Len(screen')] >= screen[Len(screen)]]_screen
  BY ScreenStep
<1> QED BY <1>1, StreamsAlways, PTL DEF Spec, NoRewind

=============================================================================
