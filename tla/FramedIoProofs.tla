------------------------------ MODULE FramedIoProofs ------------------------------
(***************************************************************************)
(* FramedIo keeps its types, returns every byte once and in order, and     *)
(* implements ByteStream, for all bounds. No property is assumed of the    *)
(* peer, of the socket or of the sizes of records and buffers.             *)
(***************************************************************************)
EXTENDS FramedIo, SequenceTheorems, TLAPS

(* A record of n consecutive bytes.                                         *)
Bytes(first, n) == [i \in 1..n |-> first + i - 1]

(* A record is a sequence of bytes, known by its length and elements.       *)
LEMMA BytesType ==
  ASSUME NEW first \in 1..(MaxBytes + 1), NEW n \in Nat, first + n <= MaxBytes + 1
  PROVE  /\ Bytes(first, n) \in Seq(Byte)
         /\ Len(Bytes(first, n)) = n
         /\ \A i \in 1..n : Bytes(first, n)[i] = first + i - 1
<1>1. \A i \in 1..n : first + i - 1 \in Byte
  BY BoundsAssumption DEF Byte
<1>2. Bytes(first, n) \in [1..n -> Byte]
  BY <1>1 DEF Bytes
<1>3. Bytes(first, n) \in Seq(Byte)
  BY <1>2, SeqDef
<1> QED
  BY <1>2, <1>3, LenProperties DEF Bytes

-----------------------------------------------------------------------------
(* Type correctness, in three groups of variables.                          *)

ReadingTyped ==
    /\ sent \in 0..MaxBytes
    /\ inbound \in Seq(Record) /\ Len(inbound) <= MaxRecords
    /\ end \in {"open", "eof", "error"}
    /\ chunk \in Record \cup {None}
    /\ room \in 0..MaxRead
    /\ delivered \in Seq(Byte)
    /\ read \in {"none", "bytes", "nothing asked", "pending", "eof", "error"}

WakingTyped == parked \in BOOLEAN /\ waker \in BOOLEAN

WritingTyped ==
    /\ accepted \in 0..MaxWritten /\ outbox \in Nat /\ wire \in Nat
    /\ sink \in {"open", "failed", "closed"}
    /\ written \in {"none", "ok", "flushed", "pending", "error"}

(* The type invariant is taken in the groups that steps change together.    *)
LEMMA Groups == TypeOK <=> ReadingTyped /\ WakingTyped /\ WritingTyped
BY DEF TypeOK, ReadingTyped, WakingTyped, WritingTyped

(* What a read from the chunk returns and leaves.                           *)
LEMMA ReadChunkEffect ==
  ASSUME ReadingTyped, ReadChunk
  PROVE  \E n \in Nat \ {0} :
            /\ chunk \in Record
            /\ chunk.first + n <= chunk.last + 1
            /\ chunk' = [first |-> chunk.first + n, last |-> chunk.last]
            /\ chunk' \in Record
            /\ delivered' = delivered \o Bytes(chunk.first, n)
<1> DEFINE left == chunk.last - chunk.first + 1
           n == IF left < room THEN left ELSE room
<1>1. chunk \in Record /\ chunk.first <= chunk.last /\ room \in Nat /\ room > 0
  <2>1. room > 0 /\ chunk # None /\ chunk.first <= chunk.last
    BY DEF ReadChunk, HasChunk
  <2>2. chunk \in Record \cup {None} /\ room \in 0..MaxRead
    BY DEF ReadingTyped
  <2> QED
    BY <2>1, <2>2, BoundsAssumption
<1>2. /\ chunk = [first |-> chunk.first, last |-> chunk.last]
      /\ chunk.first \in 1..(MaxBytes + 1) /\ chunk.last \in 0..MaxBytes
  BY <1>1 DEF Record
<1>3. n \in Nat \ {0} /\ chunk.first + n <= chunk.last + 1
  BY <1>1, <1>2, BoundsAssumption
<1>4. /\ delivered' = delivered \o Bytes(chunk.first, n)
      /\ chunk' = [chunk EXCEPT !.first = @ + n]
  BY DEF ReadChunk, Advanced, Bytes
<1> HIDE DEF n
<1>5. chunk' = [first |-> chunk.first + n, last |-> chunk.last]
  BY <1>2, <1>4
<1>6. chunk' \in Record
  BY <1>2, <1>3, <1>5, BoundsAssumption DEF Record
<1> QED
  BY <1>1, <1>3, <1>4, <1>5, <1>6

(* Every step keeps the types of the reading half.                          *)
LEMMA ReadingStep ==
  ASSUME ReadingTyped, [Next]_vars
  PROVE  ReadingTyped'
<1> USE BoundsAssumption
<1>1. ASSUME NEW size \in 0..MaxBytes, RecordArrives(size) PROVE ReadingTyped'
  <2>1. [first |-> sent + 1, last |-> sent + size] \in Record
    <3>1. sent \in 0..MaxBytes /\ sent + size <= MaxBytes
      BY <1>1 DEF RecordArrives, ReadingTyped
    <3> QED
      BY <3>1 DEF Record
  <2>2. inbound' \in Seq(Record) /\ Len(inbound') <= MaxRecords
    <3>1. /\ inbound \in Seq(Record) /\ Len(inbound) < MaxRecords
          /\ inbound' = Append(inbound, [first |-> sent + 1, last |-> sent + size])
      BY <1>1 DEF RecordArrives, ReadingTyped
    <3> QED
      BY <2>1, <3>1, AppendProperties, LenProperties
  <2> QED
    <3>1. /\ sent' = sent + size /\ sent + size <= MaxBytes
          /\ UNCHANGED <<end, chunk, room, delivered, read>>
      BY <1>1, Zenon DEF RecordArrives
    <3>2. sent \in 0..MaxBytes
      BY Zenon DEF ReadingTyped
    <3>3. sent' \in 0..MaxBytes
      BY <3>1, <3>2
    <3> QED
      BY <2>2, <3>1, <3>3, Zenon DEF ReadingTyped
<1>2. ASSUME NEW space \in 0..MaxRead, PollRead(space) PROVE ReadingTyped'
  BY <1>2 DEF PollRead, ReadingTyped, stream
<1>3. CASE ReadChunk
  <2>1. PICK n \in Nat \ {0} :
            /\ chunk \in Record
            /\ chunk.first + n <= chunk.last + 1
            /\ chunk' \in Record
            /\ delivered' = delivered \o Bytes(chunk.first, n)
    BY <1>3, ReadChunkEffect
  <2>2. Bytes(chunk.first, n) \in Seq(Byte)
    BY <2>1, BytesType DEF Record
  <2>3. delivered' \in Seq(Byte)
    BY <2>1, <2>2, ConcatProperties DEF ReadingTyped
  <2> QED
    <3>1. read' = "bytes" /\ room' = 0 /\ UNCHANGED <<sent, inbound, end>>
      BY <1>3 DEF ReadChunk, Answer, stream
    <3>2. /\ read' \in {"none", "bytes", "nothing asked", "pending", "eof", "error"}
          /\ room' \in 0..MaxRead
      BY <3>1
    <3> QED
      BY <2>1, <2>3, <3>1, <3>2, Zenon DEF ReadingTyped
<1>4. CASE NextRecord
  <2>1. /\ inbound \in Seq(Record) /\ inbound # <<>> /\ Len(inbound) <= MaxRecords
        /\ chunk' = Head(inbound) /\ inbound' = Tail(inbound)
    BY <1>4 DEF NextRecord, ReadingTyped
  <2>2. chunk' \in Record /\ inbound' \in Seq(Record) /\ Len(inbound') <= MaxRecords
    BY <2>1, HeadTailProperties, LenProperties
  <2> QED
    BY <1>4, <2>2 DEF NextRecord, Again, ReadingTyped
<1>5. CASE NoRecord
  <2>1. /\ read' \in {"pending", "eof", "error"} /\ room' = 0
        /\ end' \in {end, "eof"}
        /\ UNCHANGED <<sent, inbound, chunk, delivered>>
    BY <1>5 DEF NoRecord, Answer
  <2>2. end' \in {"open", "eof", "error"}
    BY <2>1 DEF ReadingTyped
  <2>3. read' \in {"none", "bytes", "nothing asked", "pending", "eof", "error"}
    BY <2>1
  <2>4. room' \in 0..MaxRead
    BY <2>1
  <2> QED
    BY <2>1, <2>2, <2>3, <2>4, Zenon DEF ReadingTyped
<1>6. CASE StreamEnds
  BY <1>6 DEF StreamEnds, ReadingTyped
<1>7. CASE UNCHANGED incoming
  BY <1>7 DEF incoming, stream, reader, ReadingTyped
<1> QED
  BY <1>1, <1>2, <1>3, <1>4, <1>5, <1>6, <1>7
  DEF Next, Poll, vars, PollWrite, SocketTakes, PollFlush, PollShutdown, Finish,
      SocketFails

(* Wake, and the other actions that touch the flags.                        *)
LEMMA WakingStep ==
  ASSUME WakingTyped, [Next]_vars
  PROVE  WakingTyped'
<1>1. \/ Wake
      \/ parked' \in {parked, TRUE} /\ waker' \in {waker, TRUE}
  <2>1. CASE \E size \in 0..MaxBytes : RecordArrives(size)
    BY <2>1, Zenon DEF RecordArrives
  <2>2. CASE \E space \in 0..MaxRead : PollRead(space)
    BY <2>2 DEF PollRead
  <2>3. CASE StreamEnds
    BY <2>3, Zenon DEF StreamEnds
  <2>4. CASE ReadChunk
    BY <2>4 DEF ReadChunk
  <2>5. CASE NextRecord
    BY <2>5 DEF NextRecord, Again
  <2>6. CASE NoRecord
    BY <2>6 DEF NoRecord
  <2>7. CASE UNCHANGED incoming
    BY <2>7 DEF incoming, reader
  <2> QED
    BY <2>1, <2>2, <2>3, <2>4, <2>5, <2>6, <2>7
    DEF Next, Poll, vars, PollWrite, SocketTakes, PollFlush, PollShutdown,
        Finish, SocketFails
<1> QED
  BY <1>1, Zenon DEF WakingTyped, Wake

(* Every step keeps the types of the writing half.                          *)
LEMMA WritingStep ==
  ASSUME WritingTyped, [Next]_vars
  PROVE  WritingTyped'
<1> USE BoundsAssumption
<1>1. ASSUME NEW size \in 0..MaxWritten, PollWrite(size) PROVE WritingTyped'
  <2>1. /\ \/ accepted' = accepted + size /\ outbox' = outbox + size
           \/ UNCHANGED <<accepted, outbox>>
        /\ accepted + size <= MaxWritten
        /\ written' \in {"ok", "pending", "error"}
        /\ UNCHANGED <<wire, sink>>
    BY <1>1 DEF PollWrite
  <2>2. accepted' \in 0..MaxWritten /\ outbox' \in Nat
    BY <2>1 DEF WritingTyped
  <2>3. written' \in {"none", "ok", "flushed", "pending", "error"}
    BY <2>1
  <2> QED
    BY <2>1, <2>2, <2>3, Zenon DEF WritingTyped
<1>2. ASSUME NEW size \in 0..MaxWritten, SocketTakes(size) PROVE WritingTyped'
  <2>1. /\ size <= outbox /\ outbox' = outbox - size /\ wire' = wire + size
        /\ UNCHANGED <<accepted, sink, written>>
    BY <1>2 DEF SocketTakes
  <2>2. outbox' \in Nat /\ wire' \in Nat
    BY <2>1 DEF WritingTyped
  <2> QED
    BY <2>1, <2>2, Zenon DEF WritingTyped
<1>3. CASE PollFlush \/ PollShutdown
  <2>1. /\ written' \in {"flushed", "pending", "error"}
        /\ sink' \in {sink, "closed"}
        /\ UNCHANGED <<accepted, outbox, wire>>
    BY <1>3 DEF PollFlush, PollShutdown, Finish
  <2>2. /\ written' \in {"none", "ok", "flushed", "pending", "error"}
        /\ sink' \in {"open", "failed", "closed"}
    BY <2>1 DEF WritingTyped
  <2> QED
    BY <2>1, <2>2, Zenon DEF WritingTyped
<1>4. CASE SocketFails
  <2>1. sink' = "failed" /\ UNCHANGED <<accepted, outbox, wire, written>>
    BY <1>4 DEF SocketFails
  <2>2. sink' \in {"open", "failed", "closed"}
    BY <2>1
  <2> QED
    BY <2>1, <2>2, Zenon DEF WritingTyped
<1>5. CASE UNCHANGED outgoing
  BY <1>5, Zenon DEF outgoing, WritingTyped
<1> QED
  BY <1>1, <1>2, <1>3, <1>4, <1>5
  DEF Next, Poll, vars, RecordArrives, StreamEnds, PollRead, ReadChunk,
      NextRecord, NoRecord

(* They hold at first.                                                      *)
LEMMA InitTyped == Init => TypeOK
<1> SUFFICES ASSUME Init PROVE TypeOK
  OBVIOUS
<1> USE BoundsAssumption DEF Init
<1>1. ReadingTyped
  <2>1. inbound \in Seq(Record) /\ Len(inbound) <= MaxRecords
    BY EmptySeq
  <2>2. delivered \in Seq(Byte)
    BY EmptySeq
  <2>3. sent \in 0..MaxBytes /\ room \in 0..MaxRead
    OBVIOUS
  <2> QED
    BY <2>1, <2>2, <2>3, Zenon DEF ReadingTyped
<1>2. WakingTyped
  BY Zenon DEF WakingTyped
<1>3. WritingTyped
  BY DEF WritingTyped
<1> QED
  BY <1>1, <1>2, <1>3, Groups

(* FramedIo's variables (framed_io.rs) keep their types: in particular what *)
(* is left of a chunk is never less than nothing.                           *)
THEOREM FramedTypeCorrect == Spec => []TypeOK
<1>1. TypeOK /\ [Next]_vars => TypeOK'
  BY ReadingStep, WakingStep, WritingStep, Zenon
  DEF TypeOK, ReadingTyped, WakingTyped, WritingTyped
<1> QED
  BY <1>1, InitTyped, PTL DEF Spec

-----------------------------------------------------------------------------
(* The inductive invariant of the reading side. What was delivered, what is *)
(* left of the chunk and the records behind it are adjacent intervals that  *)
(* reach to the last byte sent: Last(k) is where the k-th of them ends.     *)

Taken == IF chunk = None THEN 0 ELSE chunk.last

Last(k) == IF k = 0 THEN Taken ELSE inbound[k].last

Adjacent ==
    /\ IF chunk = None THEN delivered = <<>> ELSE chunk.first = Len(delivered) + 1
    /\ \A k \in 1..Len(inbound) : inbound[k].first = Last(k - 1) + 1
    /\ \A k \in 0..Len(inbound) : Last(k) <= sent
    /\ Last(Len(inbound)) = sent

(* And of the writing side: nothing is lost between poll_write and the wire.*)
Accounted == accepted = outbox + wire

Inv == TypeOK /\ Adjacent /\ InOrder /\ Accounted

(* Every record, and every Last(k), is a pair of numbers, or one.           *)
LEMMA Numbers ==
  ASSUME ReadingTyped
  PROVE  /\ sent \in Nat /\ Len(delivered) \in Nat /\ Len(inbound) \in Nat
         /\ chunk # None => chunk.first \in Nat /\ chunk.last \in Nat
                            /\ chunk.first <= chunk.last + 1
         /\ Taken \in Nat
         /\ \A k \in 1..Len(inbound) :
               /\ inbound[k] \in Record
               /\ inbound[k].first \in Nat /\ inbound[k].last \in Nat
               /\ inbound[k].first <= inbound[k].last + 1
<1>1. /\ sent \in Nat
      /\ delivered \in Seq(Byte) /\ inbound \in Seq(Record)
      /\ chunk \in Record \cup {None}
  <2>1. /\ sent \in 0..MaxBytes
        /\ delivered \in Seq(Byte) /\ inbound \in Seq(Record)
        /\ chunk \in Record \cup {None}
    BY Zenon DEF ReadingTyped
  <2> QED
    BY <2>1
<1>2. Len(delivered) \in Nat /\ Len(inbound) \in Nat
  BY <1>1, LenProperties
<1>3. \A r \in Record : r.first \in Nat /\ r.last \in Nat /\ r.first <= r.last + 1
  BY BoundsAssumption DEF Record
<1>4. \A k \in 1..Len(inbound) : inbound[k] \in Record
  BY <1>1, ElementOfSeq
<1> QED
  BY <1>1, <1>2, <1>3, <1>4 DEF Taken

(* A reader without bytes left in its chunk has delivered all it took.      *)
LEMMA NothingLeft ==
  ASSUME ReadingTyped, Adjacent, ~HasChunk
  PROVE  Len(delivered) = Taken
<1>1. CASE chunk = None
  BY <1>1, EmptySeq DEF Adjacent, Taken
<1>2. CASE chunk # None
  <2>1. chunk.first = Len(delivered) + 1 /\ ~(chunk.first <= chunk.last)
    BY <1>2 DEF Adjacent, HasChunk
  <2> QED
    BY <1>2, <2>1, Numbers DEF Taken
<1> QED
  BY <1>1, <1>2

(* A record that arrives continues the last one.                            *)
LEMMA AdjacentArrives ==
  ASSUME ReadingTyped, Adjacent, NEW size \in 0..MaxBytes, RecordArrives(size)
  PROVE  Adjacent' /\ InOrder' = InOrder
<1> DEFINE r == [first |-> sent + 1, last |-> sent + size]
<1>0. PICK n \in Nat : n = Len(inbound)
  BY Numbers
<1>1. /\ sent' = sent + size /\ inbound' = Append(inbound, r)
      /\ UNCHANGED <<chunk, delivered>>
  BY Zenon DEF RecordArrives
<1>2. inbound \in Seq(Record) /\ r \in Record
  <2>1. inbound \in Seq(Record) /\ sent \in 0..MaxBytes
    BY Zenon DEF ReadingTyped
  <2>2. sent + size <= MaxBytes
    BY Zenon DEF RecordArrives
  <2> QED
    BY <2>1, <2>2, BoundsAssumption DEF Record
<1>3. /\ Len(inbound') = n + 1
      /\ \A k \in 1..n : inbound'[k] = inbound[k]
      /\ inbound'[n + 1] = r
  BY <1>0, <1>1, <1>2, AppendProperties
<1>4. Taken' = Taken
  BY <1>1 DEF Taken
<1>5. n \in Nat /\ sent \in Nat /\ size \in Nat
  BY Numbers
<1>6. /\ \A k \in 0..n : Last(k)' = Last(k)
      /\ Last(n + 1)' = sent + size
  <2>1. \A k \in 0..n : k = 0 \/ k \in 1..n
    OBVIOUS
  <2>2. \A k \in 0..n : Last(k)' = Last(k)
    BY <1>3, <1>4, <2>1 DEF Last
  <2>3. n + 1 # 0 /\ r.last = sent + size
    BY <1>5
  <2>4. Last(n + 1)' = sent + size
    BY <1>3, <2>3 DEF Last
  <2> QED
    BY <2>2, <2>4
<1>7. \A k \in 1..Len(inbound') : inbound'[k].first = Last(k - 1)' + 1
  <2> SUFFICES ASSUME NEW k \in 1..(n + 1) PROVE inbound'[k].first = Last(k - 1)' + 1
    BY <1>3
  <2>1. CASE k <= n
    BY <2>1, <1>0, <1>3, <1>5, <1>6 DEF Adjacent
  <2>2. CASE k = n + 1
    BY <2>2, <1>0, <1>3, <1>5, <1>6 DEF Adjacent
  <2> QED
    BY <1>5, <2>1, <2>2
<1>8. \A k \in 0..Len(inbound') : Last(k)' <= sent'
  <2> SUFFICES ASSUME NEW k \in 0..(n + 1) PROVE Last(k)' <= sent + size
    BY <1>1, <1>3
  <2>1. CASE k <= n
    <3>1. Last(k) \in Nat
      BY <2>1, <1>0, Numbers DEF Last
    <3> QED
      BY <2>1, <3>1, <1>0, <1>5, <1>6 DEF Adjacent
  <2>2. CASE k = n + 1
    BY <2>2, <1>5, <1>6
  <2> QED
    BY <1>5, <2>1, <2>2
<1>9. Last(Len(inbound))' = sent'
  BY <1>1, <1>3, <1>6 DEF Last
<1>10. IF chunk' = None THEN delivered' = <<>>
                        ELSE chunk'.first = Len(delivered') + 1
  BY <1>1 DEF Adjacent
<1> QED
  BY <1>1, <1>7, <1>8, <1>9, <1>10 DEF Adjacent, InOrder

(* A read takes the next bytes of the chunk, and no others.                 *)
LEMMA AdjacentRead ==
  ASSUME ReadingTyped, Adjacent, InOrder, ReadChunk
  PROVE  /\ Adjacent' /\ InOrder'
         /\ \E n \in 1..(sent - Len(delivered)) :
               delivered' = delivered \o [i \in 1..n |-> Len(delivered) + i]
<1>1. PICK n \in Nat \ {0} :
         /\ chunk \in Record
         /\ chunk.first + n <= chunk.last + 1
         /\ chunk' = [first |-> chunk.first + n, last |-> chunk.last]
         /\ chunk' \in Record
         /\ delivered' = delivered \o Bytes(chunk.first, n)
  BY ReadChunkEffect
<1>2. PICK d \in Nat : d = Len(delivered)
  BY Numbers
<1>3. /\ chunk # None /\ chunk' # None
      /\ chunk.first = d + 1 /\ chunk.last <= sent
      /\ UNCHANGED <<sent, inbound>>
  <2>1. chunk # None /\ chunk' # None
    BY <1>1, NoneAssumption
  <2>2. chunk.first = d + 1
    BY <1>2, <2>1 DEF Adjacent
  <2>3. 0 \in 0..Len(inbound)
    BY Numbers
  <2>4. chunk.last <= sent
    BY <2>1, <2>3 DEF Adjacent, Last, Taken
  <2>5. UNCHANGED <<sent, inbound>>
    BY DEF ReadChunk, stream
  <2> QED
    BY <2>1, <2>2, <2>4, <2>5
<1>4. /\ Bytes(chunk.first, n) \in Seq(Byte)
      /\ Len(Bytes(chunk.first, n)) = n
      /\ \A i \in 1..n : Bytes(chunk.first, n)[i] = d + i
  <2>1. chunk.first \in 1..(MaxBytes + 1) /\ chunk.first + n <= MaxBytes + 1
    BY <1>1, BoundsAssumption DEF Record
  <2>2. /\ Bytes(chunk.first, n) \in Seq(Byte)
        /\ Len(Bytes(chunk.first, n)) = n
        /\ \A i \in 1..n : Bytes(chunk.first, n)[i] = chunk.first + i - 1
    BY <2>1, BytesType
  <2>3. \A i \in 1..n : chunk.first + i - 1 = d + i
    BY <1>3
  <2> QED
    BY <2>2, <2>3
<1>5. delivered \in Seq(Byte)
  BY Zenon DEF ReadingTyped
<1>6. /\ Len(delivered') = d + n
      /\ \A i \in 1..(d + n) : delivered'[i] =
            IF i <= d THEN delivered[i] ELSE Bytes(chunk.first, n)[i - d]
  <2> DEFINE b == Bytes(chunk.first, n)
  <2> HIDE DEF b
  <2>1. b \in Seq(Byte) /\ Len(b) = n /\ delivered' = delivered \o b
    BY <1>1, <1>4 DEF b
  <2>2. /\ Len(delivered') = d + n
        /\ \A i \in 1..(d + n) : delivered'[i] =
              IF i <= d THEN delivered[i] ELSE b[i - d]
    BY <1>2, <1>5, <2>1, ConcatProperties
  <2> QED
    BY <2>2 DEF b
<1>7. delivered' \in Seq(Byte)
  BY <1>1, <1>4, <1>5, ConcatProperties
<1>8. Adjacent'
  <2>1. chunk'.first = d + n + 1 /\ chunk'.last = chunk.last
    BY <1>1, <1>3
  <2>2. Taken' = Taken
    BY <1>3, <2>1 DEF Taken
  <2>3. \A k : Last(k)' = Last(k)
    BY <1>3, <2>2 DEF Last
  <2>4. chunk'.first = Len(delivered') + 1
    BY <1>6, <2>1
  <2>5. Last(Len(inbound))' = Last(Len(inbound))
    BY <1>3, <2>2 DEF Last
  <2> QED
    BY <1>3, <2>3, <2>4, <2>5 DEF Adjacent
<1>9. InOrder'
  <2>1. DOMAIN delivered' = 1..(d + n) /\ DOMAIN delivered = 1..d
    BY <1>2, <1>5, <1>6, <1>7, LenProperties
  <2>2. ASSUME NEW i \in 1..(d + n) PROVE delivered'[i] = i
    <3>1. CASE i <= d
      BY <1>6, <2>1, <3>1 DEF InOrder
    <3>2. CASE i > d
      <4>1. i - d \in 1..n /\ ~(i <= d) /\ d + (i - d) = i
        BY <3>2
      <4>2. Bytes(chunk.first, n)[i - d] = d + (i - d)
        BY <1>4, <4>1
      <4> QED
        BY <1>6, <4>1, <4>2
    <3> QED
      BY <3>1, <3>2
  <2> QED
    BY <2>1, <2>2 DEF InOrder
<1>10. \E m \in 1..(sent - Len(delivered)) :
          delivered' = delivered \o [i \in 1..m |-> Len(delivered) + i]
  <2>1. n \in 1..(sent - d)
    BY <1>1, <1>3, Numbers
  <2>2. Bytes(chunk.first, n) = [i \in 1..n |-> d + i]
    BY <1>1, <1>3 DEF Bytes
  <2> QED
    BY <1>1, <1>2, <2>1, <2>2
<1> QED
  BY <1>8, <1>9, <1>10

(* The next record becomes the chunk when the last one is used up.          *)
LEMMA AdjacentNext ==
  ASSUME ReadingTyped, Adjacent, NextRecord
  PROVE  Adjacent' /\ InOrder' = InOrder
<1>1. /\ inbound # <<>> /\ ~HasChunk
      /\ chunk' = Head(inbound) /\ inbound' = Tail(inbound)
      /\ UNCHANGED <<sent, delivered>>
  BY DEF NextRecord
<1>2. inbound \in Seq(Record)
  BY Zenon DEF ReadingTyped
<1>3. PICK n \in Nat : Len(inbound) = n + 1
  BY <1>1, <1>2, EmptySeq
<1>4. /\ Len(inbound') = n
      /\ \A k \in 1..n : inbound'[k] = inbound[k + 1]
      /\ chunk' = inbound[1] /\ chunk' # None
  BY <1>1, <1>2, <1>3, HeadTailProperties, NoneAssumption
<1>5. \A k \in 0..n : Last(k)' = Last(k + 1)
  <2>1. \A k \in 0..n : k + 1 # 0
    OBVIOUS
  <2>2. Last(0)' = Last(1)
    BY <1>4 DEF Last, Taken
  <2>3. \A k \in 1..n : Last(k)' = Last(k + 1)
    BY <1>4, <2>1 DEF Last
  <2> QED
    BY <2>2, <2>3
<1>6. chunk'.first = Len(delivered') + 1
  <2>1. chunk'.first = Taken + 1
    BY <1>3, <1>4 DEF Adjacent, Last
  <2> QED
    BY <1>1, <2>1, NothingLeft
<1>7. \A k \in 1..Len(inbound') : inbound'[k].first = Last(k - 1)' + 1
  <2> SUFFICES ASSUME NEW k \in 1..n PROVE inbound'[k].first = Last(k - 1)' + 1
    BY <1>4
  <2>1. k + 1 \in 1..Len(inbound) /\ k - 1 \in 0..n
    BY <1>3
  <2>2. inbound[k + 1].first = Last(k) + 1
    BY <2>1 DEF Adjacent
  <2>3. Last(k - 1)' = Last(k)
    BY <1>5, <2>1
  <2> QED
    BY <1>4, <2>2, <2>3
<1>8. \A k \in 0..Len(inbound') : Last(k)' <= sent'
  BY <1>1, <1>3, <1>4, <1>5 DEF Adjacent
<1>9. Last(Len(inbound))' = sent'
  <2>1. Last(n)' = sent
    BY <1>3, <1>5 DEF Adjacent
  <2> QED
    BY <1>1, <1>4, <2>1 DEF Last
<1> QED
  BY <1>1, <1>4, <1>6, <1>7, <1>8, <1>9 DEF Adjacent, InOrder

(* Every step keeps the records adjacent and the bytes in order.            *)
LEMMA AdjacentStep ==
  ASSUME ReadingTyped, Adjacent, InOrder, [Next]_vars
  PROVE  Adjacent' /\ InOrder'
<1>1. CASE \E size \in 0..MaxBytes : RecordArrives(size)
  BY <1>1, AdjacentArrives
<1>2. CASE ReadChunk
  BY <1>2, AdjacentRead
<1>3. CASE NextRecord
  BY <1>3, AdjacentNext
<1>4. CASE UNCHANGED <<sent, inbound, chunk, delivered>>
  BY <1>4 DEF Adjacent, Last, Taken, InOrder
<1>5. CASE NoRecord \/ StreamEnds \/ \E space \in 0..MaxRead : PollRead(space)
  BY <1>4, <1>5, Zenon DEF NoRecord, StreamEnds, PollRead, stream
<1>6. CASE UNCHANGED incoming
  BY <1>4, <1>6, Zenon DEF incoming, stream, reader
<1> QED
  BY <1>1, <1>2, <1>3, <1>5, <1>6
  DEF Next, Poll, vars, PollWrite, SocketTakes, PollFlush, PollShutdown, Finish,
      SocketFails

(* No step loses or invents a byte between the buffer and the wire.         *)
LEMMA AccountedStep ==
  ASSUME WritingTyped, Accounted, [Next]_vars
  PROVE  Accounted'
<1>1. accepted \in Nat /\ outbox \in Nat /\ wire \in Nat
  BY BoundsAssumption DEF WritingTyped
<1>2. CASE \E size \in 0..MaxWritten : PollWrite(size)
  BY <1>1, <1>2 DEF PollWrite, Accounted
<1>3. CASE \E size \in 0..MaxWritten : SocketTakes(size)
  BY <1>1, <1>3 DEF SocketTakes, Accounted
<1>4. CASE UNCHANGED <<accepted, outbox, wire>>
  BY <1>4 DEF Accounted
<1> QED
  BY <1>2, <1>3, <1>4
  DEF Next, Poll, vars, outgoing, RecordArrives, StreamEnds, PollRead, ReadChunk,
      NextRecord, NoRecord, PollFlush, PollShutdown, Finish, SocketFails

(* The invariant holds throughout.                                          *)
LEMMA Inductive == Spec => []Inv
<1>1. Init => Inv
  <2> SUFFICES ASSUME Init PROVE Adjacent /\ InOrder /\ Accounted
    BY InitTyped DEF Inv
  <2>1. Accounted
    BY DEF Init, Accounted
  <2>2. delivered = <<>> /\ inbound = <<>> /\ chunk = None /\ sent = 0
    BY DEF Init
  <2>3. Adjacent
    BY <2>2 DEF Adjacent, Last, Taken
  <2>4. InOrder
    BY <2>2 DEF InOrder
  <2> QED
    BY <2>1, <2>3, <2>4
<1>2. Inv /\ [Next]_vars => Inv'
  <2> SUFFICES ASSUME Inv, [Next]_vars PROVE Inv'
    OBVIOUS
  <2>1. ReadingTyped /\ WakingTyped /\ WritingTyped
    BY Groups DEF Inv
  <2>2. ReadingTyped' /\ WakingTyped' /\ WritingTyped'
    BY <2>1, ReadingStep, WakingStep, WritingStep
  <2>3. TypeOK'
    BY <2>2, Zenon DEF TypeOK, ReadingTyped, WakingTyped, WritingTyped
  <2> QED
    BY <2>1, <2>3, AdjacentStep, AccountedStep DEF Inv
<1> QED
  BY <1>1, <1>2, PTL DEF Spec

(* The reads return the peer's bytes in order, each once, whatever the sizes*)
(* of the records and of the buffers: poll_read and consume (framed_io.rs). *)
THEOREM BytesInOrder == Spec => []InOrder
<1>1. Inv => InOrder
  BY DEF Inv
<1> QED
  BY <1>1, Inductive, PTL

-----------------------------------------------------------------------------
(* Every step is a step of the byte stream, or leaves what it shows alone.  *)

shown == <<sent, end, delivered, read, accepted, wire, written>>

(* A step that leaves the incoming half alone shows nothing of it.          *)
LEMMA ShownReads ==
  ASSUME Inv, incoming' = incoming
  PROVE  UNCHANGED <<sent, end, delivered, read>>
BY DEF incoming, stream, reader

(* Likewise for the outgoing half.                                          *)
LEMMA ShownWrites ==
  ASSUME Inv, outgoing' = outgoing
  PROVE  UNCHANGED <<accepted, wire, written>>
BY DEF outgoing

(* The steps of the reading half.                                           *)
LEMMA ReaderSimulates ==
  ASSUME Inv,
         \/ \E size \in 0..MaxBytes : RecordArrives(size)
         \/ \E space \in 0..MaxRead : PollRead(space)
         \/ Poll \/ StreamEnds
  PROVE  Stream!Next \/ UNCHANGED shown
<1>0. ReadingTyped /\ Adjacent /\ InOrder
  BY Groups DEF Inv
<1>1. ASSUME NEW size \in 0..MaxBytes, RecordArrives(size) PROVE Stream!Arrive
  <2>1. /\ end = "open" /\ sent' = sent + size
        /\ UNCHANGED <<end, delivered, read, outgoing>>
    BY <1>1 DEF RecordArrives
  <2>2. sent' \in Nat /\ sent' >= sent
    BY <1>0, <2>1, Numbers
  <2> QED
    BY <2>1, <2>2, ShownWrites DEF Stream!Arrive, Stream!outgoing
<1>2. CASE StreamEnds
  <2>1. /\ end = "open" /\ end' \in {"eof", "error"}
        /\ UNCHANGED <<sent, delivered, read, outgoing>>
    BY <1>2 DEF StreamEnds
  <2>2. Stream!End
    BY <2>1, ShownWrites DEF Stream!End, Stream!outgoing
  <2> QED
    BY <2>2 DEF Stream!Next
<1>3. ASSUME NEW space \in 0..MaxRead, PollRead(space)
      PROVE  Stream!Read \/ UNCHANGED shown
  <2>1. /\ read' = IF space = 0 THEN "nothing asked" ELSE read
        /\ UNCHANGED <<sent, end, delivered, outgoing>>
    BY <1>3 DEF PollRead, stream
  <2> QED
    BY <2>1, ShownWrites DEF Stream!Read, Stream!outgoing, shown
<1>4. CASE ReadChunk
  <2>1. \E n \in 1..(sent - Len(delivered)) :
           delivered' = delivered \o [i \in 1..n |-> Len(delivered) + i]
    BY <1>0, <1>4, AdjacentRead
  <2>2. read' = "bytes" /\ UNCHANGED <<sent, end, outgoing>>
    BY <1>4 DEF ReadChunk, Answer, stream
  <2>3. Stream!Read
    BY <2>1, <2>2, ShownWrites DEF Stream!Read, Stream!Following, Stream!outgoing
  <2> QED
    BY <2>3 DEF Stream!Next
<1>5. CASE NextRecord
  BY <1>5, ShownWrites DEF NextRecord, Again, shown
<1>6. CASE NoRecord
  <2>1. Len(delivered) = sent
    <3>1. ~HasChunk /\ inbound = <<>>
      BY <1>6 DEF NoRecord
    <3>2. Last(0) = sent
      BY <1>0, <3>1, EmptySeq DEF Adjacent
    <3> QED
      BY <1>0, <3>1, <3>2, NothingLeft DEF Last
  <2>2. /\ \/ end = "open" /\ read' = "pending" /\ UNCHANGED end
           \/ end = "eof" /\ read' = "eof" /\ UNCHANGED end
           \/ end = "error" /\ read' = "error" /\ end' = "eof"
        /\ UNCHANGED <<sent, delivered, outgoing>>
    BY <1>6 DEF NoRecord, Answer
  <2>3. Stream!Read
    BY <2>1, <2>2, ShownWrites, Zenon
    DEF Stream!Read, Stream!AllDelivered, Stream!outgoing
  <2> QED
    BY <2>3 DEF Stream!Next
<1> QED
  BY <1>1, <1>2, <1>3, <1>4, <1>5, <1>6 DEF Poll, Stream!Next

(* The steps of the writing half.                                           *)
LEMMA WriterSimulates ==
  ASSUME Inv,
         \/ \E size \in 0..MaxWritten : PollWrite(size) \/ SocketTakes(size)
         \/ PollFlush \/ PollShutdown \/ SocketFails
  PROVE  Stream!Next \/ UNCHANGED shown
<1>0. WritingTyped /\ accepted = outbox + wire
  BY Groups DEF Inv, Accounted
<1>9. accepted \in Nat /\ outbox \in Nat /\ wire \in Nat
  BY <1>0, BoundsAssumption DEF WritingTyped
<1>1. ASSUME NEW size \in 0..MaxWritten, PollWrite(size) PROVE Stream!Write
  <2>1. /\ \/ accepted' = accepted + size /\ written' = "ok"
           \/ UNCHANGED accepted /\ written' \in {"pending", "error"}
        /\ UNCHANGED <<wire, incoming>>
    BY <1>1 DEF PollWrite
  <2>2. accepted + size \in Nat /\ accepted + size >= accepted
    BY <1>9
  <2> QED
    BY <2>1, <2>2, ShownReads DEF Stream!Write, Stream!incoming
<1>2. ASSUME NEW size \in 0..MaxWritten, SocketTakes(size) PROVE Stream!Transmit
  <2>1. /\ size <= outbox /\ wire' = wire + size
        /\ UNCHANGED <<accepted, written, incoming>>
    BY <1>2 DEF SocketTakes
  <2>2. wire' \in wire..accepted
    BY <1>0, <1>9, <2>1
  <2> QED
    BY <2>1, <2>2, ShownReads DEF Stream!Transmit, Stream!incoming
<1>3. CASE PollFlush \/ PollShutdown
  <2>1. /\ \/ outbox = 0 /\ written' = "flushed"
           \/ written' \in {"pending", "error"}
        /\ UNCHANGED <<accepted, wire, incoming>>
    BY <1>3 DEF PollFlush, PollShutdown, Finish, Drained
  <2>2. outbox = 0 => wire = accepted
    BY <1>0, <1>9
  <2>3. Stream!Flush
    BY <2>1, <2>2, ShownReads DEF Stream!Flush, Stream!incoming
  <2> QED
    BY <2>3 DEF Stream!Next
<1>4. CASE SocketFails
  BY <1>4, ShownReads DEF SocketFails, shown
<1> QED
  BY <1>1, <1>2, <1>3, <1>4 DEF Stream!Next

(* FramedIo implements ByteStream: poll_fill_buf (framed_io.rs) takes no    *)
(* empty record for the end of file and answers Pending only when every     *)
(* byte sent was read, and a flush that answers Ok has flushed.             *)
THEOREM FramedIoIsByteStream == Spec => ImplementsByteStream
<1>1. Init => Stream!Init
  BY DEF Init, Stream!Init
<1>2. Inv /\ [Next]_vars => [Stream!Next]_(Stream!vars)
  <2> SUFFICES ASSUME Inv, [Next]_vars PROVE Stream!Next \/ UNCHANGED shown
    BY DEF shown, Stream!vars, Stream!incoming, Stream!outgoing
  <2>1. CASE UNCHANGED vars
    BY <2>1, ShownReads, ShownWrites DEF vars, shown
  <2> QED
    BY <2>1, ReaderSimulates, WriterSimulates DEF Next
<1> QED
  BY <1>1, <1>2, Inductive, PTL DEF Spec, ImplementsByteStream, Stream!Spec
================================================================================
