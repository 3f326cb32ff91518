-------------------------------- MODULE FramedIo --------------------------------
(***************************************************************************)
(* FramedIo (noise/src/framed_io.rs): a Stream of decrypted records and a  *)
(* Sink of plaintexts, presented as a byte stream. One task polls it. A    *)
(* poll that answers Pending parks the task's reads (or writes) until the  *)
(* waker it left behind is called, so a Pending without a waker is forever.*)
(*                                                                         *)
(* The peer's bytes are numbered in the order it sends them; a record is   *)
(* an interval of them, possibly an empty one. The Framed and BiCodec      *)
(* underneath are no part of the repository and are modelled from their    *)
(* Stream and Sink contracts.                                              *)
(***************************************************************************)
EXTENDS Integers, Sequences

CONSTANTS
    MaxBytes,    \* bound on the bytes the peer sends
    MaxWritten,  \* bound on the bytes written to it
    MaxRecords,  \* bound on the records decoded and not yet taken
    MaxRead,     \* bound on the room in a reader's buffer
    HighWater,   \* bytes buffered by Framed from which poll_ready drains first
    None

ASSUME BoundsAssumption ==
    /\ MaxBytes \in Nat /\ MaxWritten \in Nat /\ MaxRecords \in Nat /\ MaxRead \in Nat
    /\ HighWater \in Nat \ {0}

Byte == 1..MaxBytes
Record ==
    {r \in [first : 1..(MaxBytes + 1), last : 0..MaxBytes] :
        r.first <= r.last + 1}

ASSUME NoneAssumption == None \notin Record

VARIABLES
    sent,      \* the last byte the peer has sent
    inbound,   \* records that inner.poll_next will return
    end,       \* what it returns after them: "open" is Pending
    chunk,     \* FramedIo::chunk: what is left of the record taken last
    room,      \* buf.remaining() of the poll_read under way, 0 if none
    parked,    \* the reads wait for a wake-up
    waker,     \* the inner stream holds their waker
    delivered, \* history: the bytes reads returned, in order
    read,      \* what the last poll_read returned
    accepted,  \* bytes poll_write answered for
    outbox,    \* of these, the bytes Framed has buffered
    wire,      \* history: the bytes the socket took
    sink,      \* "open", "failed" or "closed"
    written    \* what the last poll_write, poll_flush or poll_shutdown returned

stream == <<sent, inbound, end>>
reader == <<chunk, room, parked, waker, delivered, read>>
incoming == <<stream, reader>>
outgoing == <<accepted, outbox, wire, sink, written>>
vars == <<incoming, outgoing>>

TypeOK ==
    /\ sent \in 0..MaxBytes
    /\ inbound \in Seq(Record) /\ Len(inbound) <= MaxRecords
    /\ end \in {"open", "eof", "error"}
    /\ chunk \in Record \cup {None}
    /\ room \in 0..MaxRead
    /\ parked \in BOOLEAN /\ waker \in BOOLEAN
    /\ delivered \in Seq(Byte)
    /\ read \in {"none", "bytes", "nothing asked", "pending", "eof", "error"}
    /\ accepted \in 0..MaxWritten /\ outbox \in Nat /\ wire \in Nat
    /\ sink \in {"open", "failed", "closed"}
    /\ written \in {"none", "ok", "flushed", "pending", "error"}

Init ==
    /\ sent = 0 /\ inbound = <<>> /\ end = "open"
    /\ chunk = None /\ room = 0 /\ parked = FALSE /\ waker = FALSE
    /\ delivered = <<>> /\ read = "none"
    /\ accepted = 0 /\ outbox = 0 /\ wire = 0 /\ sink = "open"
    /\ written = "none"

-----------------------------------------------------------------------------
(* The inner stream: the peer's records, then an end. What arrives wakes    *)
(* the task if the inner stream holds its waker.                            *)

Wake == parked' = (parked /\ ~waker) /\ waker' = FALSE

RecordArrives(size) ==
    /\ end = "open"
    /\ Len(inbound) < MaxRecords
    /\ sent + size <= MaxBytes
    /\ sent' = sent + size
    /\ inbound' = Append(inbound, [first |-> sent + 1, last |-> sent + size])
    /\ Wake
    /\ UNCHANGED <<end, chunk, room, delivered, read, outgoing>>

(* The peer closes, or a record cannot be decrypted.                        *)
StreamEnds ==
    /\ end = "open"
    /\ end' \in {"eof", "error"}
    /\ Wake
    /\ UNCHANGED <<sent, inbound, chunk, room, delivered, read, outgoing>>

-----------------------------------------------------------------------------
(* poll_read.                                                               *)

HasAnyChunk == chunk # None \* faulty: remaining() is not looked at

HasChunk == chunk # None /\ chunk.first <= chunk.last

PollRead(space) ==
    /\ ~parked /\ room = 0
    /\ room' = space
    /\ read' = IF space = 0 THEN "nothing asked" ELSE read
    /\ UNCHANGED <<stream, chunk, parked, waker, delivered, outgoing>>

Answer(r) == read' = r /\ room' = 0

(* consume: advance by what was copied.                                     *)
AdvancedNot(c, n) == c \* faulty: not consumed
AdvancedPast(c, n) == [c EXCEPT !.first = @ + n + 1] \* faulty: off by one

Advanced(c, n) == [c EXCEPT !.first = @ + n]

ReadChunk ==
    /\ room > 0
    /\ HasChunk
    /\ LET left == chunk.last - chunk.first + 1
           n == IF left < room THEN left ELSE room
       IN  /\ delivered' = delivered \o [i \in 1..n |-> chunk.first + i - 1]
           /\ chunk' = Advanced(chunk, n)
    /\ Answer("bytes")
    /\ UNCHANGED <<stream, parked, waker, outgoing>>

(* Around the loop of poll_fill_buf, in case the record is empty.           *)
AgainUnlessEmpty(record) == \* faulty: Pending, and nobody will wake it
    IF record.last < record.first
    THEN Answer("pending") /\ parked' = TRUE
    ELSE UNCHANGED <<room, read, parked>>

Again(record) == UNCHANGED <<room, read, parked>>

NextRecord ==
    /\ room > 0
    /\ ~HasChunk
    /\ inbound # <<>>
    /\ chunk' = Head(inbound)
    /\ inbound' = Tail(inbound)
    /\ Again(Head(inbound))
    /\ UNCHANGED <<sent, end, waker, delivered, outgoing>>

(* Framed ends after an error.                                              *)
NoRecord ==
    /\ room > 0
    /\ ~HasChunk
    /\ inbound = <<>>
    /\ \/ /\ end = "open"
          /\ Answer("pending")
          /\ parked' = TRUE /\ waker' = TRUE
          /\ UNCHANGED end
       \/ /\ end = "eof"
          /\ Answer("eof")
          /\ UNCHANGED <<end, parked, waker>>
       \/ /\ end = "error"
          /\ Answer("error")
          /\ end' = "eof"
          /\ UNCHANGED <<parked, waker>>
    /\ UNCHANGED <<sent, inbound, chunk, delivered, outgoing>>

-----------------------------------------------------------------------------
(* poll_write, poll_flush, poll_shutdown.                                   *)

(* poll_ready.                                                              *)
Ready == outbox < HighWater

(* start_send takes the whole buffer as one record, or fails.               *)
PollWrite(size) ==
    /\ room = 0
    /\ accepted + size <= MaxWritten
    /\ \/ /\ Ready
          /\ accepted' = accepted + size
          /\ outbox' = outbox + size
          /\ written' = "ok"
       \/ /\ ~Ready /\ sink = "open"
          /\ written' = "pending"
          /\ UNCHANGED <<accepted, outbox>>
       \/ /\ written' = "error"
          /\ UNCHANGED <<accepted, outbox>>
    /\ UNCHANGED <<wire, sink, incoming>>

(* poll_flush of the inner sink is done when its buffer is.                 *)
Drained == outbox = 0

Finish(state) ==
    /\ room = 0
    /\ \/ Drained /\ written' = "flushed" /\ sink' = state
       \/ ~Drained /\ sink = "open" /\ written' = "pending" /\ UNCHANGED sink
       \/ sink # "open" /\ written' = "error" /\ UNCHANGED sink
    /\ UNCHANGED <<accepted, outbox, wire, incoming>>

PollFlush == Finish(sink)

PollShutdown == Finish("closed")

(* The socket takes what it has room for, or fails.                         *)
SocketTakes(size) ==
    /\ sink = "open"
    /\ size <= outbox
    /\ outbox' = outbox - size
    /\ wire' = wire + size
    /\ UNCHANGED <<accepted, sink, written, incoming>>

SocketFails ==
    /\ sink = "open"
    /\ sink' = "failed"
    /\ UNCHANGED <<accepted, outbox, wire, written, incoming>>

-----------------------------------------------------------------------------

Poll == ReadChunk \/ NextRecord \/ NoRecord

Next ==
    \/ \E size \in 0..MaxBytes : RecordArrives(size)
    \/ \E size \in 0..MaxWritten : PollWrite(size) \/ SocketTakes(size)
    \/ \E space \in 0..MaxRead : PollRead(space)
    \/ Poll \/ StreamEnds
    \/ PollFlush \/ PollShutdown \/ SocketFails

Spec == Init /\ [][Next]_vars

(* The HTTP/2 connection reads on whenever it is woken, with room to read   *)
(* into, and a poll runs to its end.                                        *)
Fairness ==
    /\ WF_vars(Poll)
    /\ WF_vars(\E space \in 1..MaxRead : PollRead(space))

FairSpec == Spec /\ Fairness

-----------------------------------------------------------------------------
(* Properties.                                                              *)

(* poll_read (framed_io.rs) loses, repeats and reorders no byte, whatever   *)
(* the sizes of the records and of the reader's buffers.                    *)
InOrder ==
    \A i \in DOMAIN delivered : delivered[i] = i

(* FramedIo is the byte stream that hyper takes it for: poll_fill_buf takes *)
(* no empty record for the end of file, answers Pending only when nothing   *)
(* is left, and poll_write and poll_flush answer for what they did.         *)
Stream == INSTANCE ByteStream
ImplementsByteStream == Stream!Spec

(* Every byte that arrived is read in the end, also the ones before an      *)
(* error and after empty records: poll_fill_buf leaves no read waiting      *)
(* without a waker.                                                         *)
EveryByteIsRead ==
    \A n \in 1..MaxBytes : sent >= n ~> Len(delivered) >= n
================================================================================
