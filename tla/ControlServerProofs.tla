--------------------------- MODULE ControlServerProofs ---------------------------
(***************************************************************************)
(* What ControlServer promises for any number of connections, machines and *)
(* keys: the types, the order of what a client reads, and who gets a       *)
(* session. All but the last theorem follow from what holds of every       *)
(* single connection, whatever the others do.                              *)
(***************************************************************************)
EXTENDS ControlServer, SequenceTheorems, TLAPS

-----------------------------------------------------------------------------
(* The constants.                                                           *)

(* A capability version is an integer.                                      *)
LEMMA CapverIsInt == \A v \in Capver : v \in Int
<1>1. U16 \subseteq Int
  BY SMT DEF U16
<1> QED
  BY <1>1, ResponderAssumption

(* No key is None.                                                          *)
LEMMA KeyIsSome == \A key \in ServerKey : key # None
  BY ResponderAssumption

(* The fields of an initiation that accept puts into a session.             *)
LEMMA InitiationFields ==
  ASSUME NEW msg \in Initiation
  PROVE  msg.capver \in Capver /\ msg.payload.from \in Machine
<1>1. msg.capver \in Capver /\ msg.payload \in Payload
  BY DEF Initiation
<1> QED
  BY <1>1 DEF Payload

-----------------------------------------------------------------------------
(* The invariant of a connection.                                           *)

(* n messages of the dialogue, from the one after the first `from`.         *)
Part(from, n) == [i \in 1..n |-> Dialogue[from + i]]

(* How many messages the socket has taken and how many Framed holds when    *)
(* the task is at a point. The 101 of the handler comes while the task      *)
(* waits for the upgrade, or after it gave up.                              *)
Stage(task, n, k) ==
    \/ task = "upgrade" /\ n \in {0, 1} /\ k = 0
    \/ task \in {"accept", "header"} /\ n = 1 /\ k = 0
    \/ task = "response" /\ n = 2 /\ k = 0
    \/ task = "early" /\ n = 3 /\ k = 0
    \/ task = "flush" /\ n \in {3, 4} /\ n + k = 4
    \/ task = "serving" /\ n \in {4, 5} /\ n + k \in {4, 5}
    \/ task = "ended" /\ k = 0

Sent(x, n, k) == x.wire = Part(0, n) /\ x.buffered = Part(n, k)

InStage(x) ==
    \E n \in 0..5, k \in 0..1 : Stage(x.task, n, k) /\ Sent(x, n, k)

(* Without a task there is but the handler's answer, and that is no 101.    *)
Untasked(x) ==
    /\ x.status # "101" /\ x.session = None /\ x.error = "none"
    /\ x.buffered = <<>>
    /\ x.wire # <<>> => x.status # "none" /\ x.wire = <<x.status>>

(* With a task the request holds an initiation, and its session or its      *)
(* error is what the checks of accept make of it: such an error ends the    *)
(* task when nothing but the 101 is out.                                    *)
Tasked(x) ==
    /\ x.status = "101"
    /\ InStage(x)
    /\ x.session # None =>
          /\ x.task \notin {"upgrade", "accept", "ended"}
          /\ Rejection(x.request.handshake, x.key) = "none"
          /\ x.session = Accepted(x.request.handshake, x.key)
    /\ x.error \notin {"none", "Io"} =>
          /\ x.task = "ended"
          /\ x.error = Rejection(x.request.handshake, x.key)
          /\ x.wire = <<"101">> /\ x.buffered = <<>>

Sound(x) ==
    /\ x \in Connected
    /\ x.status = IF x.request = None THEN "none" ELSE Answer(x.request)
    /\ IF x.task = "none" THEN Untasked(x) ELSE Tasked(x)

Inv ==
    /\ TypeOK
    /\ listening => server_key # None
    /\ \A c \in Connection : Live(c) => Sound(conn[c])

-----------------------------------------------------------------------------
(* Parts of the dialogue.                                                   *)

(* The messages, one by one.                                                *)
LEMMA DialogueIs ==
  /\ Dialogue[1] = "101" /\ Dialogue[2] = "header" /\ Dialogue[3] = "response"
  /\ Dialogue[4] = "early" /\ Dialogue[5] = "{}"
  /\ {"101", "header", "response", "early", "{}"} \subseteq Message
<1>1. /\ Dialogue[1] = "101" /\ Dialogue[2] = "header"
      /\ Dialogue[3] = "response" /\ Dialogue[4] = "early"
      /\ Dialogue[5] = "{}"
  BY DEF Dialogue
<1>2. {Dialogue[1], Dialogue[2], Dialogue[3], Dialogue[4], Dialogue[5]}
         \subseteq Message
  BY DEF Message
<1> QED
  BY <1>1, <1>2

(* The message after the first n.                                           *)
LEMMA NextMessage ==
  ASSUME NEW n \in Nat
  PROVE  /\ n = 1 => Dialogue[n + 1] = "header"
         /\ n = 2 => Dialogue[n + 1] = "response"
         /\ n = 3 => Dialogue[n + 1] = "early"
         /\ n = 4 => Dialogue[n + 1] = "{}"
<1>1. /\ n = 1 => n + 1 = 2
      /\ n = 2 => n + 1 = 3
      /\ n = 3 => n + 1 = 4
      /\ n = 4 => n + 1 = 5
  OBVIOUS
<1> QED
  BY <1>1, DialogueIs

(* A part is a sequence of messages, known by its length and elements.      *)
LEMMA PartType ==
  ASSUME NEW from \in Nat, NEW n \in Nat, from + n <= 5
  PROVE  /\ Part(from, n) \in Seq(Message)
         /\ Len(Part(from, n)) = n
         /\ \A i \in 1..n : Part(from, n)[i] = Dialogue[from + i]
<1>1. \A i \in 1..n : Dialogue[from + i] \in Message
  BY DEF Message
<1>2. Part(from, n) \in [1..n -> Message]
  BY <1>1 DEF Part
<1>3. Part(from, n) \in Seq(Message)
  BY <1>2, SeqDef
<1> QED
  BY <1>2, <1>3, LenProperties DEF Part

(* A part of no messages is the empty sequence.                             *)
LEMMA PartEmpty ==
  ASSUME NEW from \in Nat, NEW n \in Nat, from + n <= 5
  PROVE  Part(from, n) = <<>> <=> n = 0
BY PartType, EmptySeq

(* A sequence of one element.                                               *)
LEMMA Singleton ==
  ASSUME NEW S, NEW e \in S
  PROVE  <<e>> \in Seq(S) /\ Len(<<e>>) = 1 /\ <<e>>[1] = e
OBVIOUS

(* That is so of the first part, too; one message long it is the 101.       *)
LEMMA FirstPart ==
  /\ \A n \in 0..5 : Part(0, n) = <<>> <=> n = 0
  /\ Part(0, 1) = <<"101">>
<1>1. ASSUME NEW n \in 0..5, NEW from \in Nat, from = 0
      PROVE  Part(from, n) = <<>> <=> n = 0
  <2>1. n \in Nat /\ from + n <= 5
    BY <1>1
  <2> QED
    BY <2>1, PartEmpty
<1>2. ASSUME NEW from \in Nat, from = 0, NEW n \in Nat, n = 1
      PROVE  Part(from, n) = <<"101">>
  <2>1. from + n <= 5 /\ from + 1 = 1 /\ 1 \in 1..n
    BY <1>2
  <2>2. /\ Part(from, n) \in Seq(Message) /\ Len(Part(from, n)) = n
        /\ Part(from, n)[1] = Dialogue[1]
    <3>1. /\ Part(from, n) \in Seq(Message) /\ Len(Part(from, n)) = n
          /\ \A i \in 1..n : Part(from, n)[i] = Dialogue[from + i]
      BY <2>1, PartType
    <3>2. Part(from, n)[1] = Dialogue[from + 1]
      BY <2>1, <3>1
    <3> QED
      BY <2>1, <3>1, <3>2
  <2>3. /\ <<"101">> \in Seq(Message) /\ Len(<<"101">>) = n
        /\ <<"101">>[1] = Dialogue[1]
    <3>1. "101" \in Message /\ Dialogue[1] = "101"
      BY DialogueIs
    <3> QED
      BY <1>2, <3>1, Singleton
  <2>4. \A i \in 1..n : Part(from, n)[i] = <<"101">>[i]
    BY <1>2, <2>2, <2>3
  <2> QED
    BY <2>2, <2>3, <2>4, SeqEqual
<1> QED
  BY <1>1, <1>2

(* The next message of the dialogue makes a part longer at its end.         *)
LEMMA PartAppend ==
  ASSUME NEW from \in Nat, NEW n \in Nat, from + n < 5
  PROVE  Append(Part(from, n), Dialogue[from + n + 1]) = Part(from, n + 1)
<1> DEFINE longer == Append(Part(from, n), Dialogue[from + n + 1])
<1>1. Dialogue[from + n + 1] \in Message
  BY DEF Message
<1>2. /\ Part(from, n) \in Seq(Message) /\ Len(Part(from, n)) = n
      /\ Part(from, n + 1) \in Seq(Message) /\ Len(Part(from, n + 1)) = n + 1
      /\ \A i \in 1..n : Part(from, n)[i] = Dialogue[from + i]
      /\ \A i \in 1..(n + 1) : Part(from, n + 1)[i] = Dialogue[from + i]
  BY PartType
<1>3. /\ longer \in Seq(Message) /\ Len(longer) = n + 1
      /\ \A i \in 1..n : longer[i] = Part(from, n)[i]
      /\ longer[n + 1] = Dialogue[from + n + 1]
  BY <1>1, <1>2, AppendProperties
<1> HIDE DEF longer
<1>4. ASSUME NEW i \in 1..(n + 1) PROVE longer[i] = Part(from, n + 1)[i]
  <2>1. CASE i \in 1..n
    BY <1>2, <1>3, <2>1
  <2>2. CASE i = n + 1
    <3>1. from + i = from + n + 1
      BY <2>2
    <3> QED
      BY <1>2, <1>3, <2>2, <3>1
  <2> QED
    BY <2>1, <2>2
<1> QED
  BY <1>2, <1>3, <1>4, SeqEqual DEF longer

(* Its first message leaves the rest a part.                                *)
LEMMA PartHead ==
  ASSUME NEW from \in Nat, NEW n \in Nat \ {0}, from + n <= 5
  PROVE  /\ Head(Part(from, n)) = Dialogue[from + 1]
         /\ Tail(Part(from, n)) = Part(from + 1, n - 1)
<1> DEFINE part == Part(from, n)
<1>1. /\ part \in Seq(Message) /\ Len(part) = n /\ part # <<>>
      /\ \A i \in 1..n : part[i] = Dialogue[from + i]
  BY PartType, PartEmpty
<1>2. /\ Part(from + 1, n - 1) \in Seq(Message)
      /\ Len(Part(from + 1, n - 1)) = n - 1
      /\ \A i \in 1..(n - 1) : Part(from + 1, n - 1)[i] = Dialogue[from + 1 + i]
  BY PartType
<1> HIDE DEF part
<1>3. /\ Head(part) = part[1] /\ Tail(part) \in Seq(Message)
      /\ Len(Tail(part)) = n - 1
      /\ \A i \in 1..(n - 1) : Tail(part)[i] = part[i + 1]
  BY <1>1, HeadTailProperties
<1>4. ASSUME NEW i \in 1..(n - 1)
      PROVE  Tail(part)[i] = Part(from + 1, n - 1)[i]
  <2>1. i + 1 \in 1..n /\ from + (i + 1) = from + 1 + i
    OBVIOUS
  <2>2. Tail(part)[i] = part[i + 1]
    BY <1>3
  <2>3. part[i + 1] = Dialogue[from + (i + 1)]
    BY <1>1, <2>1
  <2>4. Part(from + 1, n - 1)[i] = Dialogue[from + 1 + i]
    BY <1>2
  <2> QED
    BY <2>1, <2>2, <2>3, <2>4
<1>5. Tail(part) = Part(from + 1, n - 1)
  BY <1>2, <1>3, <1>4, SeqEqual
<1> QED
  BY <1>1, <1>3, <1>5 DEF part

(* Adjacent parts make one.                                                 *)
LEMMA PartConcat ==
  ASSUME NEW from \in Nat, NEW n \in Nat, NEW k \in Nat, from + n + k <= 5
  PROVE  Part(from, n) \o Part(from + n, k) = Part(from, n + k)
<1> DEFINE s == Part(from, n)
           t == Part(from + n, k)
           both == s \o t
<1>1. s \in Seq(Message) /\ Len(s) = n
  BY PartType
<1>2. t \in Seq(Message) /\ Len(t) = k
  BY PartType
<1>3. /\ Part(from, n + k) \in Seq(Message) /\ Len(Part(from, n + k)) = n + k
      /\ \A i \in 1..(n + k) : Part(from, n + k)[i] = Dialogue[from + i]
  BY PartType
<1>4. \A i \in 1..n : s[i] = Dialogue[from + i]
  BY DEF Part
<1>5. \A i \in 1..k : t[i] = Dialogue[from + n + i]
  BY DEF Part
<1> HIDE DEF s, t
<1>6. /\ both \in Seq(Message) /\ Len(both) = Len(s) + Len(t)
      /\ \A i \in 1..(Len(s) + Len(t)) :
            both[i] = IF i <= Len(s) THEN s[i] ELSE t[i - Len(s)]
  BY <1>1, <1>2, ConcatProperties
<1> HIDE DEF both
<1>7. ASSUME NEW i \in 1..(n + k) PROVE both[i] = Dialogue[from + i]
  <2>1. CASE i <= n
    <3>1. i \in 1..n /\ both[i] = s[i]
      BY <1>1, <1>2, <1>6, <2>1
    <3> QED
      BY <1>4, <3>1
  <2>2. CASE i > n
    <3>1. i - n \in 1..k /\ from + n + (i - n) = from + i
      BY <2>2
    <3>2. both[i] = t[i - n]
      BY <1>1, <1>2, <1>6, <2>2
    <3>3. t[i - n] = Dialogue[from + n + (i - n)]
      BY <1>5, <3>1
    <3> QED
      BY <3>1, <3>2, <3>3
  <2> QED
    BY <2>1, <2>2
<1>8. Len(both) = n + k
  BY <1>1, <1>2, <1>6
<1>9. \A i \in 1..Len(both) : both[i] = Part(from, n + k)[i]
  BY <1>3, <1>7, <1>8
<1>10. both = Part(from, n + k)
  BY <1>3, <1>6, <1>8, <1>9, SeqEqual
<1> QED
  BY <1>10 DEF both, s, t

(* The first ones and those that follow.                                    *)
LEMMA FirstConcat ==
  ASSUME NEW n \in Nat, NEW k \in Nat, n + k <= 5
  PROVE  Part(0, n) \o Part(n, k) = Part(0, n + k)
<1>1. ASSUME NEW from \in Nat, from = 0
      PROVE  Part(from, n) \o Part(n, k) = Part(from, n + k)
  <2>1. from + n = n /\ from + n + k <= 5
    BY <1>1
  <2>2. Part(from, n) \o Part(from + n, k) = Part(from, n + k)
    BY <2>1, PartConcat
  <2> QED
    BY <2>1, <2>2
<1> QED
  BY <1>1

(* What comes first is a prefix of the dialogue.                            *)
LEMMA PartPrefix ==
  ASSUME NEW n \in Nat, n <= 5
  PROVE  IsPrefix(Part(0, n), Dialogue)
<1> DEFINE part == Part(0, n)
           first == SubSeq(Dialogue, 1, n)
<1>1. \A i \in 1..n : part[i] = Dialogue[i] /\ Dialogue[i] \in Message
  BY DEF Part, Message
<1>2. part \in Seq(Message) /\ Len(part) = n
  <2>1. part \in [1..n -> Message]
    BY <1>1 DEF Part
  <2> QED
    BY <2>1, SeqDef, LenProperties DEF Part
<1>3. /\ first \in Seq(Message) /\ Len(first) = n
      /\ \A i \in 1..n : first[i] = Dialogue[1 + i - 1]
  BY <1>1, SubSeqProperties
<1> HIDE DEF part, first
<1>4. \A i \in 1..n : first[i] = part[i]
  BY <1>1, <1>3
<1>5. first = part
  BY <1>2, <1>3, <1>4, SeqEqual
<1>6. SubSeq(part, 1, n) = part
  BY <1>2, SubSeqFull
<1>7. Len(Dialogue) = 5
  BY DEF Dialogue
<1>8. IsPrefix(part, Dialogue)
  BY <1>2, <1>5, <1>6, <1>7 DEF IsPrefix, first
<1> QED
  BY <1>8 DEF part

(* One more message on the wire, or with Framed.                            *)
LEMMA SentMore ==
  ASSUME NEW n \in 0..4
  PROVE  /\ Append(Part(0, n), Dialogue[n + 1]) = Part(0, n + 1)
         /\ Append(Part(n, 0), Dialogue[n + 1]) = Part(n, 1)
<1>1. Append(Part(0, n), Dialogue[0 + n + 1]) = Part(0, n + 1)
  BY PartAppend
<1>2. ASSUME NEW k \in Nat, k = 0
      PROVE  Append(Part(n, k), Dialogue[n + 1]) = Part(n, 1)
  <2>0. n \in Nat /\ n + k < 5
    BY <1>2
  <2>1. Append(Part(n, k), Dialogue[n + k + 1]) = Part(n, k + 1)
    BY <2>0, PartAppend
  <2>2. n + k + 1 = n + 1 /\ k + 1 = 1
    BY <1>2
  <2> QED
    BY <2>1, <2>2
<1> QED
  BY <1>1, <1>2

(* Of the whole dialogue the answer to the request is a part, also when     *)
(* Framed still holds it.                                                   *)
LEMMA AnswerShows ==
  ASSUME NEW n \in Nat, NEW k \in Nat, n + k = 5
  PROVE  "{}" \in Range(Part(n, k) \o Part(0, n))
<1> DEFINE s == Part(n, k)
           t == Part(0, n)
<1>1. /\ s \in Seq(Message) /\ DOMAIN s = 1..k
      /\ \A i \in 1..k : s[i] = Dialogue[n + i]
  <2>1. \A i \in 1..k : Dialogue[n + i] \in Message
    BY DEF Message
  <2>2. s \in [1..k -> Message]
    BY <2>1 DEF Part
  <2> QED
    BY <2>2, SeqDef DEF Part
<1>2. /\ t \in Seq(Message) /\ DOMAIN t = 1..n
      /\ \A i \in 1..n : t[i] = Dialogue[i]
  <2>1. \A i \in 1..n : Dialogue[i] \in Message
    BY DEF Message
  <2>2. t \in [1..n -> Message]
    BY <2>1 DEF Part
  <2> QED
    BY <2>2, SeqDef DEF Part
<1>3. Dialogue[5] = "{}"
  BY DialogueIs
<1> HIDE DEF s, t
<1>4. Range(s \o t) = Range(s) \cup Range(t)
  BY <1>1, <1>2, RangeConcatenation
<1>5. CASE k = 0
  <2>1. 5 \in 1..n
    BY <1>5
  <2>2. 5 \in DOMAIN t /\ t[5] = "{}"
    BY <1>2, <1>3, <2>1
  <2> QED
    BY <1>4, <2>2 DEF Range, s, t
<1>6. CASE k # 0
  <2>1. k \in 1..k /\ n + k = 5
    BY <1>6
  <2>2. s[k] = Dialogue[n + k]
    BY <1>1, <2>1
  <2>3. k \in DOMAIN s /\ s[k] = "{}"
    BY <1>1, <1>3, <2>1, <2>2
  <2> QED
    BY <1>4, <2>3 DEF Range, s, t
<1> QED
  BY <1>5, <1>6

-----------------------------------------------------------------------------
(* The steps, each of which changes one connection.                         *)

(* What one connection does concerns no other one.                          *)
LEMMA Replaced ==
  ASSUME Inv, NEW c \in Connection, NEW x,
         conn' = [conn EXCEPT ![c] = x], x = None \/ Sound(x),
         UNCHANGED <<host, clients>>
  PROVE  Inv'
<1>1. x \in Connected \cup {None}
  BY DEF Sound
<1>2. conn' \in [Connection -> Connected \cup {None}]
  BY <1>1 DEF Inv, TypeOK
<1>3. TypeOK'
  BY <1>2 DEF Inv, TypeOK, host, clients
<1>4. \A d \in Connection : conn'[d] = IF d = c THEN x ELSE conn[d]
  BY DEF Inv, TypeOK
<1>5. \A d \in Connection : Live(d)' => Sound(conn[d])'
  BY <1>4 DEF Inv, Live
<1> QED
  BY <1>3, <1>5 DEF Inv, host

(* A connection is new to its server, also when it is used again.           *)
LEMMA FreshSound ==
  ASSUME NEW key \in ServerKey, NEW draining \in BOOLEAN
  PROVE  Sound(Fresh(key)) /\ Sound([Fresh(key) EXCEPT !.draining = draining])
<1>1. <<>> \in Seq(Message) /\ <<>> \in Seq(Message \cup {"400", "500"})
  BY EmptySeq
<1>2. Fresh(key) \in Connected
  BY <1>1 DEF Fresh, Connected
<1>3. [Fresh(key) EXCEPT !.draining = draining] \in Connected
  BY <1>2 DEF Connected
<1> QED
  BY <1>2, <1>3 DEF Fresh, Sound, Untasked

(* Nothing else depends on whether the listener is still there.             *)
LEMMA DrainingSound ==
  ASSUME NEW x, Sound(x)
  PROVE  Sound([x EXCEPT !.draining = TRUE])
<1> DEFINE y == [x EXCEPT !.draining = TRUE]
<1>1. x \in Connected /\ y \in Connected
  BY DEF Sound, Connected
<1>2. /\ y.key = x.key /\ y.request = x.request /\ y.status = x.status
      /\ y.session = x.session /\ y.error = x.error /\ y.task = x.task
      /\ y.wire = x.wire /\ y.buffered = x.buffered
  BY <1>1 DEF Connected
<1> HIDE DEF y
<1>3. Sound(y)
  BY <1>1, <1>2 DEF Sound, Untasked, Tasked, InStage, Sent
<1> QED
  BY <1>3 DEF y

(* What a client sends with a key is a request.                             *)
LEMMA SealedRequestType ==
  ASSUME NEW m \in Machine, NEW v \in Capver, NEW key \in ServerKey
  PROVE  ClientRequest(m, v, key) \in Request
<1>1. [to |-> key, from |-> m, prologue |-> v, intact |-> TRUE] \in Payload
  BY DEF Payload
<1>2. INIT_PAYLOAD_LEN \in U16
  BY SMT DEF U16, INIT_PAYLOAD_LEN
<1>3. INITIATION_LEN \in Nat
  BY DEF INITIATION_LEN, CAPVER_PREFIX_LEN, CONTROLBASE_HEADER_LEN, INIT_PAYLOAD_LEN
<1>4. Initiate(m, v, key) \in Initiation
  BY <1>1, <1>2, <1>3 DEF Initiate, Initiation
<1> QED
  BY <1>4 DEF ClientRequest, Request

(* So is what it sends with the key it holds.                               *)
LEMMA ClientRequestType ==
  ASSUME TypeOK, NEW req \in ClientRequests
  PROVE  /\ req \in Request
         /\ \E m \in Machine, v \in Capver :
               cached[m] \in ServerKey /\ req = ClientRequest(m, v, cached[m])
<1>1. PICK m \in Machine, v \in Capver :
         cached[m] # None /\ req = ClientRequest(m, v, cached[m])
  BY DEF ClientRequests
<1>2. cached[m] \in ServerKey
  BY <1>1 DEF TypeOK
<1> QED
  BY <1>1, <1>2, SealedRequestType

(* The handler's answer, and the task it spawns with a 101.                 *)
LEMMA RequestKeeps ==
  ASSUME Inv, NEW c \in Connection, NEW req \in Request, ts2021_upgrade(c, req)
  PROVE  Inv'
<1> DEFINE x == conn[c]
           task == IF Answer(req) = "101" THEN "upgrade" ELSE "none"
           y == [x EXCEPT !.request = req, !.status = Answer(req), !.task = task]
<1>1. x # None /\ x.request = None /\ Sound(x)
  BY DEF ts2021_upgrade, Idle, Live, Inv
<1>2. x.task = "none" /\ x.status = "none" /\ x.wire = <<>> /\ Untasked(x)
  BY <1>1 DEF Sound, Tasked, Untasked
<1>3. Answer(req) \in {"101", "400", "500"}
  BY DEF Answer
<1>4. y \in Connected
  <2>1. x \in Connected
    BY <1>1 DEF Sound
  <2>2. Answer(req) \in {"none", "101", "400", "500"} /\ task \in {"none", "upgrade"}
    BY <1>3
  <2> HIDE DEF x, task
  <2> QED
    BY <2>1, <2>2 DEF Connected
<1>5. /\ y.request = req /\ y.status = Answer(req) /\ y.task = task
      /\ y.wire = <<>> /\ y.buffered = <<>> /\ y.session = None
      /\ y.error = "none"
  BY <1>1, <1>2 DEF Sound, Connected, Untasked
<1>6. req # None
  BY RequestAssumption
<1>7. conn' = [conn EXCEPT ![c] = y] /\ UNCHANGED <<host, clients>>
  BY DEF ts2021_upgrade, Only
<1> HIDE DEF y
<1>8. Sent(y, 0, 0)
  BY <1>5, PartEmpty DEF Sent
<1>9. Sound(y)
  BY <1>3, <1>4, <1>5, <1>6, <1>8
  DEF Sound, Tasked, Untasked, InStage, Stage
<1> QED
  BY <1>7, <1>9, Replaced

(* The handler's answer goes out; a task that is still there, or gone, does *)
(* not mind.                                                                *)
LEMMA RespondKeeps ==
  ASSUME Inv, NEW c \in Connection, Respond(c)
  PROVE  Inv'
<1> DEFINE x == conn[c]
           y == [x EXCEPT !.wire = <<x.status>>]
<1>1. x # None /\ Sound(x) /\ x.status # "none" /\ x.wire = <<>>
  BY DEF Respond, Live, Inv
<1>2. x.status \in {"101", "400", "500"} /\ x \in Connected
  BY <1>1 DEF Sound, Connected
<1>3. <<x.status>> \in Seq(Message \cup {"400", "500"})
  <2>1. x.status \in Message \cup {"400", "500"}
    BY <1>2, DialogueIs
  <2> QED
    BY <2>1, Singleton
<1>4. y \in Connected
  BY <1>2, <1>3 DEF Connected
<1>5. /\ y.key = x.key /\ y.request = x.request /\ y.status = x.status
      /\ y.task = x.task /\ y.session = x.session /\ y.error = x.error
      /\ y.buffered = x.buffered /\ y.wire = <<x.status>>
  BY <1>2 DEF Connected
<1>6. conn' = [conn EXCEPT ![c] = y] /\ UNCHANGED <<host, clients>>
  BY DEF Respond, Only
<1> HIDE DEF x, y
<1>7. Sound(y)
  <2>1. CASE x.task = "none"
    BY <1>1, <1>4, <1>5, <2>1 DEF Sound, Untasked
  <2>2. CASE x.task # "none"
    <3>1. Tasked(x)
      BY <1>1, <2>2 DEF Sound
    <3>2. PICK n \in 0..5, k \in 0..1 : Stage(x.task, n, k) /\ Sent(x, n, k)
      BY <3>1 DEF Tasked, InStage
    <3>3. n = 0
      BY <1>1, <3>2, FirstPart DEF Sent
    <3>4. k = 0 /\ Stage(x.task, 1, 0)
      BY <3>2, <3>3 DEF Stage
    <3>5. Part(0, 0) = <<>> /\ Part(1, 0) = <<>>
      BY PartEmpty
    <3>6. Sent(y, 1, 0)
      BY <1>5, <3>1, <3>2, <3>3, <3>4, <3>5, FirstPart DEF Sent, Tasked
    <3>7. InStage(y)
      BY <1>5, <3>4, <3>6 DEF InStage
    <3>8. x.error \in {"none", "Io"}
      <4>1. Part(0, 1) # <<>>
        BY FirstPart
      <4> QED
        BY <1>1, <3>1, <4>1, FirstPart DEF Tasked
    <3> QED
      BY <1>1, <1>4, <1>5, <2>2, <3>1, <3>7, <3>8 DEF Sound, Tasked
  <2> QED
    BY <2>1, <2>2
<1> QED
  BY <1>6, <1>7, Replaced DEF y

(* Where the task of a live connection stands.                              *)
LEMMA TaskAt ==
  ASSUME Inv, NEW c \in Connection, NEW point, point # "none", At(c, point)
  PROVE  /\ Sound(conn[c]) /\ Tasked(conn[c]) /\ conn[c] \in Connected
         /\ conn[c].task = point
         /\ \E n \in 0..5, k \in 0..1 : Stage(point, n, k) /\ Sent(conn[c], n, k)
<1>1. Sound(conn[c]) /\ Tasked(conn[c])
  BY DEF At, Inv, Sound
<1> QED
  BY <1>1 DEF Sound, Tasked, InStage, At

(* A step of the task leaves the request, its session and its error alone.  *)
LEMMA TaskMoves ==
  ASSUME Inv, NEW c \in Connection, NEW x, x = conn[c], Sound(x), Tasked(x),
         x.task # "ended", NEW y \in Connected, y.task # "none", InStage(y),
         /\ y.key = x.key /\ y.request = x.request /\ y.status = x.status
         /\ y.session = x.session /\ y.error = x.error,
         y.session # None => y.task \notin {"upgrade", "accept", "ended"},
         conn' = [conn EXCEPT ![c] = y], UNCHANGED <<host, clients>>
  PROVE  Inv'
<1>1. Tasked(y)
  BY DEF Tasked
<1>2. Sound(y)
  BY <1>1 DEF Sound
<1> QED
  BY <1>2, Replaced

(* The task ends, for what accept rejects, a broken connection or nothing.  *)
LEMMA EndsKeeps ==
  ASSUME Inv, NEW c \in Connection, NEW point, point # "none", At(c, point),
         NEW e \in NoiseError \cup {"none"}, Ends(c, e),
         e \notin {"none", "Io"} =>
            /\ point = "accept"
            /\ e = Rejection(conn[c].request.handshake, conn[c].key)
  PROVE  Inv'
<1> DEFINE x == conn[c]
           y == [x EXCEPT !.task = "ended", !.session = None, !.error = e,
                          !.buffered = <<>>]
<1>1. Sound(x) /\ Tasked(x) /\ x \in Connected
  BY TaskAt
<1>2. PICK n \in 0..5, k \in 0..1 : Stage(point, n, k) /\ Sent(x, n, k)
  BY TaskAt
<1>3. y \in Connected
  BY <1>1, EmptySeq DEF Connected
<1>4. /\ y.key = x.key /\ y.request = x.request /\ y.status = x.status
      /\ y.task = "ended" /\ y.session = None /\ y.error = e
      /\ y.buffered = <<>> /\ y.wire = x.wire
  BY <1>1 DEF Connected
<1>5. conn' = [conn EXCEPT ![c] = y] /\ UNCHANGED <<host, clients>>
  BY DEF Ends, Only
<1>6. e \notin {"none", "Io"} =>
         /\ point = "accept"
         /\ e = Rejection(x.request.handshake, x.key)
  OBVIOUS
<1> HIDE DEF x, y
<1>7. Part(n, 0) = <<>>
  BY PartEmpty
<1>8. InStage(y)
  <2>1. Sent(y, n, 0)
    BY <1>2, <1>4, <1>7 DEF Sent
  <2> QED
    BY <1>4, <2>1 DEF InStage, Stage
<1>9. point = "accept" => y.wire = <<"101">>
  <2>1. point = "accept" => n = 1
    BY <1>2 DEF Stage
  <2> QED
    BY <1>2, <1>4, <2>1, FirstPart DEF Sent
<1>10. Sound(y)
  BY <1>1, <1>3, <1>4, <1>6, <1>8, <1>9 DEF Sound, Tasked
<1> QED
  BY <1>5, <1>10, Replaced

(* hyper gives the connection away once the 101 is out.                     *)
LEMMA UpgradeKeeps ==
  ASSUME Inv, NEW c \in Connection, Upgrade(c)
  PROVE  Inv'
<1> DEFINE x == conn[c]
           y == [x EXCEPT !.task = "accept"]
<1>1. Sound(x) /\ Tasked(x) /\ x \in Connected
  BY TaskAt DEF Upgrade
<1>2. PICK n \in 0..5, k \in 0..1 : Stage("upgrade", n, k) /\ Sent(x, n, k)
  BY TaskAt DEF Upgrade
<1>3. x.wire # <<>> /\ x.task = "upgrade"
  BY DEF Upgrade, Upgraded, At
<1>4. y \in Connected
  BY <1>1 DEF Connected
<1>5. /\ y.key = x.key /\ y.request = x.request /\ y.status = x.status
      /\ y.session = x.session /\ y.error = x.error /\ y.task = "accept"
      /\ y.wire = x.wire /\ y.buffered = x.buffered
  BY <1>1 DEF Connected
<1>6. conn' = [conn EXCEPT ![c] = y] /\ UNCHANGED <<host, clients>>
  BY DEF Upgrade, Only
<1> HIDE DEF y
<1>7. n = 1 /\ k = 0
  BY <1>2, <1>3, FirstPart DEF Stage, Sent
<1>8. InStage(y)
  BY <1>2, <1>5, <1>7 DEF InStage, Stage, Sent
<1>9. x.session = None
  BY <1>1, <1>3 DEF Tasked
<1> QED
  BY <1>1, <1>3, <1>4, <1>5, <1>6, <1>8, <1>9, TaskMoves

(* A task is spawned for a request that holds an initiation.                *)
LEMMA TaskedRequest ==
  ASSUME NEW x, Sound(x), Tasked(x)
  PROVE  x.request \in Request /\ x.request.handshake \in Initiation
<1>1. x.request \in Request /\ Answer(x.request) = "101"
  BY DEF Sound, Tasked, Connected
<1>2. x.request.handshake # None
  BY <1>1 DEF Answer
<1> QED
  BY <1>1, <1>2 DEF Request

(* What accept learns from it is a session.                                 *)
LEMMA AcceptedType ==
  ASSUME NEW msg \in Initiation, NEW key \in ServerKey
  PROVE  Accepted(msg, key) \in Session
<1>1. msg.capver \in Capver /\ msg.payload.from \in Machine
  BY InitiationFields
<1> QED
  BY <1>1 DEF Accepted, Session

(* accept makes a session of an initiation it does not reject.              *)
LEMMA AcceptKeeps ==
  ASSUME Inv, NEW c \in Connection, Accept(c)
  PROVE  Inv'
<1> DEFINE x == conn[c]
           msg == x.request.handshake
           y == [x EXCEPT !.session = Accepted(msg, x.key), !.task = "header"]
<1>1. Sound(x) /\ Tasked(x) /\ x \in Connected /\ x.task = "accept"
  BY TaskAt DEF Accept
<1>2. PICK n \in 0..5, k \in 0..1 : Stage("accept", n, k) /\ Sent(x, n, k)
  BY TaskAt DEF Accept
<1>3. msg \in Initiation /\ x.key \in ServerKey
  BY <1>1, TaskedRequest DEF Connected
<1>4. Accepted(msg, x.key) \in Session
  BY <1>3, AcceptedType
<1>5. y \in Connected
  BY <1>1, <1>4 DEF Connected
<1>6. /\ y.key = x.key /\ y.request = x.request /\ y.status = x.status
      /\ y.session = Accepted(msg, x.key) /\ y.error = x.error
      /\ y.task = "header" /\ y.wire = x.wire /\ y.buffered = x.buffered
  BY <1>1 DEF Connected
<1>7. Rejection(msg, x.key) = "none"
  BY DEF Accept, OwnKey
<1>8. conn' = [conn EXCEPT ![c] = y] /\ UNCHANGED <<host, clients>>
  BY DEF Accept, OwnKey, Only
<1> HIDE DEF x, y
<1>9. InStage(y)
  BY <1>2, <1>6 DEF InStage, Stage, Sent
<1>10. x.error \in {"none", "Io"}
  BY <1>1 DEF Tasked
<1>11. Sound(y)
  BY <1>1, <1>5, <1>6, <1>7, <1>9, <1>10 DEF Sound, Tasked
<1> QED
  BY <1>8, <1>11, Replaced

(* msg2 goes to the socket in two writes.                                   *)
LEMMA WriteKeeps ==
  ASSUME Inv, NEW c \in Connection, Write(c)
  PROVE  Inv'
<1> DEFINE x == conn[c]
           task == IF x.task = "header" THEN "response" ELSE "early"
           y == [x EXCEPT !.wire = Append(@, x.task), !.task = task]
<1>1. Sound(x) /\ Tasked(x) /\ x \in Connected
  BY TaskAt DEF Write
<1>2. PICK n \in 0..5, k \in 0..1 : Stage(x.task, n, k) /\ Sent(x, n, k)
  BY TaskAt DEF Write, At
<1>3. x.task \in {"header", "response"}
  BY DEF Write, At
<1>4. x.task = Dialogue[n + 1] /\ n \in {1, 2} /\ k = 0
  <2>1. CASE x.task = "header"
    <3>1. n = 1 /\ k = 0
      BY <1>2, <2>1 DEF Stage
    <3> QED
      BY <2>1, <3>1, NextMessage
  <2>2. CASE x.task = "response"
    <3>1. n = 2 /\ k = 0
      BY <1>2, <2>2 DEF Stage
    <3> QED
      BY <2>2, <3>1, NextMessage
  <2> QED
    BY <1>3, <2>1, <2>2
<1>5. Append(x.wire, x.task) \in Seq(Message \cup {"400", "500"})
  <2>1. x.task \in Message /\ x.wire \in Seq(Message \cup {"400", "500"})
    BY <1>1, <1>3, DialogueIs DEF Connected
  <2> QED
    BY <2>1, AppendProperties
<1>6. y \in Connected
  BY <1>1, <1>5 DEF Connected
<1>7. /\ y.key = x.key /\ y.request = x.request /\ y.status = x.status
      /\ y.session = x.session /\ y.error = x.error /\ y.task = task
      /\ y.wire = Append(x.wire, x.task) /\ y.buffered = x.buffered
  BY <1>1 DEF Connected
<1>8. conn' = [conn EXCEPT ![c] = y] /\ UNCHANGED <<host, clients>>
  BY DEF Write, Only
<1> HIDE DEF x, y
<1>9. y.wire = Part(0, n + 1)
  <2>1. n \in 0..4
    BY <1>4
  <2>2. Append(Part(0, n), Dialogue[n + 1]) = Part(0, n + 1)
    BY <2>1, SentMore
  <2> QED
    BY <1>2, <1>4, <1>7, <2>2 DEF Sent
<1>10. Part(n, 0) = <<>> /\ Part(n + 1, 0) = <<>>
  BY <1>4, PartEmpty
<1>11. InStage(y)
  <2>1. Stage(task, n + 1, 0)
    BY <1>2, <1>3, <1>4 DEF Stage
  <2>2. Sent(y, n + 1, 0)
    BY <1>2, <1>4, <1>7, <1>9, <1>10 DEF Sent
  <2> QED
    BY <1>4, <1>7, <2>1, <2>2 DEF InStage
<1>12. y.task \in {"response", "early"}
  BY <1>7
<1> QED
  BY <1>1, <1>3, <1>6, <1>7, <1>8, <1>11, <1>12, TaskMoves DEF x

(* EarlyNoise is given to FramedIo.                                         *)
LEMMA EarlyKeeps ==
  ASSUME Inv, NEW c \in Connection, WriteEarlyNoise(c)
  PROVE  Inv'
<1> DEFINE x == conn[c]
           y == [x EXCEPT !.buffered = Append(@, "early"), !.task = "flush"]
<1>1. Sound(x) /\ Tasked(x) /\ x \in Connected /\ x.task = "early"
  BY TaskAt DEF WriteEarlyNoise
<1>2. PICK n \in 0..5, k \in 0..1 : Stage("early", n, k) /\ Sent(x, n, k)
  BY TaskAt DEF WriteEarlyNoise
<1>3. Append(x.buffered, "early") \in Seq(Message)
  <2>1. x.buffered \in Seq(Message) /\ "early" \in Message
    BY <1>1, DialogueIs DEF Connected
  <2> QED
    BY <2>1, AppendProperties
<1>4. y \in Connected
  BY <1>1, <1>3 DEF Connected
<1>5. /\ y.key = x.key /\ y.request = x.request /\ y.status = x.status
      /\ y.session = x.session /\ y.error = x.error /\ y.task = "flush"
      /\ y.wire = x.wire /\ y.buffered = Append(x.buffered, "early")
  BY <1>1 DEF Connected
<1>6. conn' = [conn EXCEPT ![c] = y] /\ UNCHANGED <<host, clients>>
  BY DEF WriteEarlyNoise, Only
<1> HIDE DEF x, y
<1>7. n = 3 /\ k = 0
  BY <1>2 DEF Stage
<1>8. Append(Part(n, 0), Dialogue[n + 1]) = Part(n, 1)
  BY <1>7, SentMore
<1>9. Dialogue[n + 1] = "early"
  BY <1>7, NextMessage
<1>10. Sent(y, n, 1)
  BY <1>2, <1>5, <1>7, <1>8, <1>9 DEF Sent
<1>11. Stage("flush", n, 1)
  BY <1>7 DEF Stage
<1>12. InStage(y)
  BY <1>5, <1>10, <1>11 DEF InStage
<1> QED
  BY <1>1, <1>4, <1>5, <1>6, <1>12, TaskMoves DEF x

(* So is the answer to a request, once.                                     *)
LEMMA MachineKeeps ==
  ASSUME Inv, NEW c \in Connection, handle_machine(c)
  PROVE  Inv'
<1> DEFINE x == conn[c]
           y == [x EXCEPT !.buffered = Append(@, "{}")]
<1>1. Sound(x) /\ Tasked(x) /\ x \in Connected /\ x.task = "serving"
  BY TaskAt DEF handle_machine
<1>2. PICK n \in 0..5, k \in 0..1 : Stage("serving", n, k) /\ Sent(x, n, k)
  BY TaskAt DEF handle_machine
<1>3. Append(x.buffered, "{}") \in Seq(Message)
  <2>1. x.buffered \in Seq(Message) /\ "{}" \in Message
    BY <1>1, DialogueIs DEF Connected
  <2> QED
    BY <2>1, AppendProperties
<1>4. y \in Connected
  BY <1>1, <1>3 DEF Connected
<1>5. /\ y.key = x.key /\ y.request = x.request /\ y.status = x.status
      /\ y.session = x.session /\ y.error = x.error /\ y.task = "serving"
      /\ y.wire = x.wire /\ y.buffered = Append(x.buffered, "{}")
  BY <1>1 DEF Connected, handle_machine, At
<1>6. conn' = [conn EXCEPT ![c] = y] /\ UNCHANGED <<host, clients>>
  BY DEF handle_machine, Only
<1>7. "{}" \notin Range(x.buffered \o x.wire)
  BY DEF handle_machine
<1> HIDE DEF x, y
<1>8. n = 4 /\ k = 0
  <2>1. "{}" \notin Range(Part(n, k) \o Part(0, n))
    BY <1>2, <1>7 DEF Sent
  <2>2. n \in Nat /\ k \in Nat
    OBVIOUS
  <2>3. n + k # 5
    BY <2>1, <2>2, AnswerShows
  <2> QED
    BY <1>2, <2>3 DEF Stage
<1>9. Append(Part(n, 0), Dialogue[n + 1]) = Part(n, 1)
  BY <1>8, SentMore
<1>10. Dialogue[n + 1] = "{}"
  BY <1>8, NextMessage
<1>11. Sent(y, n, 1)
  BY <1>2, <1>5, <1>8, <1>9, <1>10 DEF Sent
<1>12. Stage("serving", n, 1)
  BY <1>8 DEF Stage
<1>13. InStage(y)
  <2>1. Stage(y.task, n, 1) /\ Sent(y, n, 1)
    BY <1>5, <1>11, <1>12
  <2> QED
    BY <2>1 DEF InStage
<1> QED
  BY <1>1, <1>4, <1>5, <1>6, <1>13, TaskMoves DEF x

(* FramedIo passes on the one message it holds.                             *)
LEMMA TransmitKeeps ==
  ASSUME Inv, NEW c \in Connection, Transmit(c)
  PROVE  Inv'
<1> DEFINE x == conn[c]
           y == [x EXCEPT !.wire = Append(@, Head(x.buffered)),
                          !.buffered = Tail(@)]
<1>1. Sound(x) /\ Tasked(x) /\ x \in Connected /\ x.task \in {"flush", "serving"}
  BY TaskAt DEF Transmit, At
<1>2. PICK n \in 0..5, k \in 0..1 : Stage(x.task, n, k) /\ Sent(x, n, k)
  BY <1>1 DEF Tasked, InStage
<1>3. x.buffered # <<>>
  BY DEF Transmit
<1>4. /\ Head(x.buffered) \in Message /\ Tail(x.buffered) \in Seq(Message)
  <2>1. x.buffered \in Seq(Message)
    BY <1>1 DEF Connected
  <2> QED
    BY <1>3, <2>1, HeadTailProperties
<1>5. Append(x.wire, Head(x.buffered)) \in Seq(Message \cup {"400", "500"})
  <2>1. x.wire \in Seq(Message \cup {"400", "500"})
    BY <1>1 DEF Connected
  <2> QED
    BY <1>4, <2>1, AppendProperties
<1>6. y \in Connected
  BY <1>1, <1>4, <1>5 DEF Connected
<1>7. /\ y.key = x.key /\ y.request = x.request /\ y.status = x.status
      /\ y.session = x.session /\ y.error = x.error /\ y.task = x.task
      /\ y.wire = Append(x.wire, Head(x.buffered))
      /\ y.buffered = Tail(x.buffered)
  BY <1>1 DEF Connected
<1>8. conn' = [conn EXCEPT ![c] = y] /\ UNCHANGED <<host, clients>>
  BY DEF Transmit, Only
<1> HIDE DEF x, y
<1>9. k = 1 /\ n \in {3, 4} /\ Stage(x.task, n + 1, 0)
  <2>1. k # 0
    <3>1. n \in Nat /\ n <= 5
      OBVIOUS
    <3>2. Part(n, 0) = <<>>
      BY <3>1, PartEmpty
    <3> QED
      BY <1>2, <1>3, <3>2 DEF Sent
  <2> QED
    BY <1>1, <1>2, <2>1 DEF Stage
<1>10. Head(Part(n, 1)) = Dialogue[n + 1] /\ Tail(Part(n, 1)) = Part(n + 1, 0)
  <2>1. n \in Nat /\ n + 1 <= 5
    BY <1>9
  <2>2. /\ Head(Part(n, 1)) = Dialogue[n + 1]
        /\ Tail(Part(n, 1)) = Part(n + 1, 1 - 1)
    BY <2>1, PartHead
  <2> QED
    BY <2>2
<1>11. Append(Part(0, n), Dialogue[n + 1]) = Part(0, n + 1)
  <2>1. n \in 0..4
    BY <1>9
  <2> QED
    BY <2>1, SentMore
<1>12. Sent(y, n + 1, 0)
  BY <1>2, <1>7, <1>9, <1>10, <1>11 DEF Sent
<1>13. InStage(y)
  <2>1. n + 1 \in 0..5 /\ Stage(y.task, n + 1, 0)
    BY <1>7, <1>9
  <2> QED
    BY <1>12, <2>1 DEF InStage
<1>14. y.task \in {"flush", "serving"}
  BY <1>1, <1>7
<1> QED
  BY <1>1, <1>6, <1>7, <1>8, <1>13, <1>14, TaskMoves DEF x

(* EarlyNoise is out when the connection is served.                         *)
LEMMA ServeConnectionKeeps ==
  ASSUME Inv, NEW c \in Connection, ServeConnection(c)
  PROVE  Inv'
<1> DEFINE x == conn[c]
           y == [x EXCEPT !.task = "serving"]
<1>1. Sound(x) /\ Tasked(x) /\ x \in Connected /\ x.task = "flush"
  BY TaskAt DEF ServeConnection
<1>2. PICK n \in 0..5, k \in 0..1 : Stage("flush", n, k) /\ Sent(x, n, k)
  BY TaskAt DEF ServeConnection
<1>3. x.buffered = <<>>
  BY DEF ServeConnection, Flushed
<1>4. y \in Connected
  BY <1>1 DEF Connected
<1>5. /\ y.key = x.key /\ y.request = x.request /\ y.status = x.status
      /\ y.session = x.session /\ y.error = x.error /\ y.task = "serving"
      /\ y.wire = x.wire /\ y.buffered = x.buffered
  BY <1>1 DEF Connected
<1>6. conn' = [conn EXCEPT ![c] = y] /\ UNCHANGED <<host, clients>>
  BY DEF ServeConnection, Only
<1> HIDE DEF x, y
<1>7. n = 4 /\ k = 0
  <2>1. k # 1
    <3>1. ASSUME k = 1 PROVE FALSE
      <4>1. n = 3
        BY <1>2, <3>1 DEF Stage
      <4>2. Part(n, k) # <<>>
        BY <3>1, <4>1, PartEmpty
      <4> QED
        BY <1>2, <1>3, <4>2 DEF Sent
    <3> QED
      BY <3>1
  <2> QED
    BY <1>2, <2>1 DEF Stage
<1>8. Stage("serving", n, k)
  BY <1>7 DEF Stage
<1>9. InStage(y)
  BY <1>2, <1>5, <1>8 DEF InStage, Sent
<1> QED
  BY <1>1, <1>4, <1>5, <1>6, <1>9, TaskMoves DEF x

(* The server's steps, by action.                                           *)
LEMMA ServerKeeps ==
  ASSUME Inv, NEW c \in Connection, ServerStep(c)
  PROVE  Inv'
<1>1. CASE UpgradeFails(c) \/ WriteFails(c) \/ Hangup(c)
  BY <1>1, EndsKeeps DEF UpgradeFails, WriteFails, Hangup, NoiseError
<1>2. CASE Reject(c)
  <2> DEFINE e == Rejection(conn[c].request.handshake, conn[c].key)
  <2>1. e \in NoiseError \cup {"none"}
    BY DEF Rejection, NoiseError
  <2>2. At(c, "accept") /\ Ends(c, e)
    BY <1>2 DEF Reject, OwnKey
  <2>3. \E point : point # "none" /\ At(c, point) /\ point = "accept"
    BY <2>2
  <2> HIDE DEF e
  <2> QED
    BY <2>1, <2>2, <2>3, EndsKeeps DEF e
<1> QED
  BY <1>1, <1>2, RespondKeeps, UpgradeKeeps, AcceptKeeps, WriteKeeps, EarlyKeeps,
     TransmitKeeps, ServeConnectionKeeps, MachineKeeps
  DEF ServerStep

(* What the client reads, asks and hangs up is nothing to the server.       *)
LEMMA ReaderKeeps ==
  ASSUME Inv, NEW c \in Connection, Take(c) \/ Ask(c) \/ Leave(c)
  PROVE  Inv'
<1> DEFINE x == conn[c]
<1>1. Sound(x) /\ x \in Connected
  BY DEF Take, Ask, Leave, Live, Inv, Sound
<1>2. PICK taken \in Nat, asked \in BOOLEAN, gone \in BOOLEAN :
         conn' = [conn EXCEPT ![c] = [x EXCEPT !.taken = taken, !.asked = asked,
                                               !.gone = gone]]
  <2>1. CASE Take(c)
    <3>1. [x EXCEPT !.taken = @ + 1]
             = [x EXCEPT !.taken = x.taken + 1, !.asked = x.asked, !.gone = x.gone]
      BY <1>1 DEF Connected
    <3>2. x.taken + 1 \in Nat /\ x.asked \in BOOLEAN /\ x.gone \in BOOLEAN
      BY <1>1 DEF Connected
    <3> QED
      BY <2>1, <3>1, <3>2 DEF Take, Only
  <2>2. CASE Ask(c)
    <3>1. [x EXCEPT !.asked = TRUE]
             = [x EXCEPT !.taken = x.taken, !.asked = TRUE, !.gone = x.gone]
      BY <1>1 DEF Connected
    <3>2. x.taken \in Nat /\ x.gone \in BOOLEAN
      BY <1>1 DEF Connected
    <3> QED
      BY <2>2, <3>1, <3>2 DEF Ask, Only
  <2>3. CASE Leave(c)
    <3>1. [x EXCEPT !.gone = TRUE]
             = [x EXCEPT !.taken = x.taken, !.asked = x.asked, !.gone = TRUE]
      BY <1>1 DEF Connected
    <3>2. x.taken \in Nat /\ x.asked \in BOOLEAN
      BY <1>1 DEF Connected
    <3> QED
      BY <2>3, <3>1, <3>2 DEF Leave, Only
  <2> QED
    BY <2>1, <2>2, <2>3
<1> DEFINE y == [x EXCEPT !.taken = taken, !.asked = asked, !.gone = gone]
<1>3. y \in Connected
  BY <1>1 DEF Connected
<1>4. /\ y.key = x.key /\ y.request = x.request /\ y.status = x.status
      /\ y.session = x.session /\ y.error = x.error /\ y.task = x.task
      /\ y.wire = x.wire /\ y.buffered = x.buffered
  BY <1>1 DEF Connected
<1>5. UNCHANGED <<host, clients>>
  BY DEF Take, Ask, Leave, Only
<1> HIDE DEF y
<1>6. Sound(y)
  BY <1>1, <1>3, <1>4 DEF Sound, Untasked, Tasked, InStage, Sent
<1> QED
  BY <1>2, <1>5, <1>6, Replaced DEF y

(* Connections come and go.                                                 *)
LEMMA ConnectionKeeps ==
  ASSUME Inv, NEW c \in Connection, Connect(c) \/ KeepAlive(c) \/ Close(c)
  PROVE  Inv'
<1>1. CASE Connect(c)
  <2>1. server_key \in ServerKey
    BY <1>1 DEF Connect, Inv, TypeOK
  <2>2. Sound(Fresh(server_key))
    BY <2>1, FreshSound
  <2> QED
    BY <1>1, <2>2, Replaced DEF Connect
<1>2. CASE KeepAlive(c)
  <2>1. conn[c].key \in ServerKey /\ conn[c].draining \in BOOLEAN
    BY <1>2 DEF KeepAlive, Live, Inv, Sound, Connected
  <2> DEFINE y == [Fresh(conn[c].key) EXCEPT !.draining = conn[c].draining]
  <2>2. conn' = [conn EXCEPT ![c] = y] /\ UNCHANGED <<host, clients>>
    BY <1>2 DEF KeepAlive, Only
  <2>3. Sound(y)
    BY <2>1, FreshSound
  <2> HIDE DEF y
  <2> QED
    BY <2>2, <2>3, Replaced
<1>3. CASE Close(c)
  BY <1>3, Replaced DEF Close, Only
<1> QED
  BY <1>1, <1>2, <1>3

(* A key on its way to a machine is one a server had.                       *)
LEMMA KeyKeeps ==
  ASSUME Inv, NEW m \in Machine,
         KeyReceived(m) \/ \E c \in Connection : get_key(c, m)
  PROVE  Inv'
<1>1. UNCHANGED <<host, conn>>
  BY DEF KeyReceived, get_key
<1>2. TypeOK'
  <2>1. CASE KeyReceived(m)
    BY <1>1, <2>1 DEF KeyReceived, Inv, TypeOK, host
  <2>2. ASSUME NEW c \in Connection, get_key(c, m) PROVE TypeOK'
    <3>1. conn[c].key \in ServerKey
      BY <2>2 DEF get_key, Idle, Live, Inv, Sound, Connected
    <3> QED
      BY <1>1, <2>2, <3>1 DEF get_key, Inv, TypeOK, host
  <2> QED
    BY <2>1, <2>2
<1> QED
  BY <1>1, <1>2 DEF Inv, Live, host

(* The host's steps; connections stay, or all go with the process.          *)
LEMMA HostKeeps ==
  ASSUME Inv, Build \/ Serve \/ Stop \/ Exit
  PROVE  Inv'
<1>1. CASE Build
  <2>1. server_key' \in ServerKey
    BY <1>1, ControlServerAssumption DEF Build, KeyChoice
  <2> QED
    BY <1>1, <2>1 DEF Build, Inv, TypeOK, clients, Live
<1>2. CASE Serve
  BY <1>2 DEF Serve, Inv, TypeOK, clients, Live
<1>3. CASE Exit
  BY <1>3 DEF Exit, Inv, TypeOK, clients, Live
<1>4. CASE Stop
  <2>1. ASSUME NEW c \in Connection, Live(c)'
        PROVE  Live(c) /\ Sound(conn'[c])
    <3>1. conn'[c] \in {conn[c], [conn[c] EXCEPT !.draining = TRUE]} /\ Live(c)
      BY <1>4, <2>1 DEF Stop, Live
    <3>2. Sound(conn[c])
      BY <3>1 DEF Inv
    <3> QED
      BY <3>1, <3>2, DrainingSound
  <2>2. ASSUME NEW c \in Connection
        PROVE  conn'[c] \in Connected \cup {None}
    BY <2>1 DEF Live, Sound
  <2>3. conn' \in [Connection -> Connected \cup {None}]
    <3>1. conn' = [c \in Connection |-> conn'[c]]
      BY <1>4 DEF Stop
    <3> QED
      BY <2>2, <3>1
  <2>4. TypeOK'
    BY <1>4, <2>3 DEF Stop, Inv, TypeOK, clients
  <2> QED
    BY <1>4, <2>1, <2>4 DEF Stop, Inv, Live
<1> QED
  BY <1>1, <1>2, <1>3, <1>4

(* Every step keeps the invariant.                                          *)
LEMMA InvNext == Inv /\ [Next]_vars => Inv'
<1> SUFFICES ASSUME Inv, [Next]_vars PROVE Inv'
  OBVIOUS
<1>1. CASE UNCHANGED vars
  BY <1>1 DEF vars, host, clients, Inv, TypeOK, Live
<1>2. CASE Build \/ Serve \/ Stop \/ Exit
  BY <1>2, HostKeeps
<1>3. ASSUME NEW m \in Machine, KeyReceived(m) PROVE Inv'
  BY <1>3, KeyKeeps
<1>4. ASSUME NEW c \in Connection, ClientStep(c) PROVE Inv'
  <2>1. ASSUME NEW req \in ClientRequests \cup BadRequest, ts2021_upgrade(c, req)
        PROVE  Inv'
    <3>1. req \in Request
      BY RequestAssumption, ClientRequestType DEF Inv
    <3> QED
      BY <2>1, <3>1, RequestKeeps
  <2> QED
    BY <1>4, <2>1, KeyKeeps, ReaderKeeps DEF ClientStep
<1>5. ASSUME NEW c \in Connection,
             Connect(c) \/ ServerStep(c) \/ KeepAlive(c) \/ Close(c)
      PROVE  Inv'
  BY <1>5, ConnectionKeeps, ServerKeeps
<1> QED
  BY <1>1, <1>2, <1>3, <1>4, <1>5 DEF Next

(* The invariant holds throughout.                                          *)
LEMMA Invariant == Spec => []Inv
<1>1. Init => Inv
  BY DEF Init, Inv, TypeOK, Live
<1> QED
  BY <1>1, InvNext, PTL DEF Spec

-----------------------------------------------------------------------------
(* What the invariant implies.                                              *)

(* The type invariant.                                                      *)
THEOREM TypeCorrect == Spec => []TypeOK
<1>1. Inv => TypeOK
  BY DEF Inv
<1> QED
  BY <1>1, Invariant, PTL

(* Every session (accept, responder.rs) is one both ends agree on, also when*)
(* the host replaces the server or the client sends what it likes.          *)
THEOREM SessionsAgree == Spec => []SessionAgreed
<1>1. Inv => SessionAgreed
  <2> SUFFICES ASSUME Inv, NEW c \in Connection, Live(c), conn[c].session # None
               PROVE  LET sealed == conn[c].request.handshake.payload
                          session == conn[c].session
                      IN  /\ sealed.intact
                          /\ conn[c].request.handshake.length >= INITIATION_LEN
                          /\ session = [server |-> sealed.to,
                                        peer |-> sealed.from,
                                        capver |-> sealed.prologue]
                          /\ session.server = conn[c].key
                          /\ session.capver >= MIN_SUPPORTED_CAPABILITY_VERSION
    BY DEF SessionAgreed
  <2> DEFINE msg == conn[c].request.handshake
             key == conn[c].key
  <2>1. Sound(conn[c]) /\ Tasked(conn[c])
    BY DEF Inv, Sound, Untasked
  <2>2. Rejection(msg, key) = "none" /\ conn[c].session = Accepted(msg, key)
    BY <2>1 DEF Tasked
  <2>3. msg \in Initiation
    BY <2>1, TaskedRequest
  <2> HIDE DEF msg, key
  <2>4. /\ ~TooShort(msg)
        /\ ~(msg.capver < MIN_SUPPORTED_CAPABILITY_VERSION)
        /\ Opens(msg.payload, key, Prologue(msg))
    BY <2>2 DEF Rejection
  <2>5. msg.capver \in Int
    BY <2>3, InitiationFields, CapverIsInt
  <2>6. msg.capver >= MIN_SUPPORTED_CAPABILITY_VERSION
    BY <2>4, <2>5 DEF MIN_SUPPORTED_CAPABILITY_VERSION
  <2>7. /\ msg.payload.intact /\ msg.payload.to = key
        /\ msg.payload.prologue = msg.capver
    BY <2>4 DEF Opens, Prologue
  <2>8. conn[c].session =
           [server |-> key, peer |-> msg.payload.from, capver |-> msg.capver]
    BY <2>2 DEF Accepted
  <2>9. msg.length >= INITIATION_LEN
    <3>1. msg.length \in Nat
      BY <2>3 DEF Initiation
    <3> QED
      BY <2>4, <3>1
      DEF TooShort, INITIATION_LEN, CAPVER_PREFIX_LEN, CONTROLBASE_HEADER_LEN,
          INIT_PAYLOAD_LEN
  <2> QED
    BY <2>6, <2>7, <2>8, <2>9 DEF msg, key
<1> QED
  BY <1>1, Invariant, PTL

(* A client reads 101, msg2, EarlyNoise and HTTP/2 in this order, or an     *)
(* error and nothing else, whatever the handler and the task it spawned     *)
(* (server/mod.rs) do first; one that accept rejects reads the 101 only.    *)
THEOREM DialogueInOrder == Spec => []WireInOrder
<1>1. ASSUME Inv, NEW c \in Connection, Live(c)
      PROVE  /\ \/ IsPrefix(conn[c].wire \o conn[c].buffered, Dialogue)
                \/ conn[c].wire \in {<<"400">>, <<"500">>}
             /\ conn[c].task = "serving" => "early" \in Range(conn[c].wire)
             /\ ~Unhindered(c) => conn[c].wire \o conn[c].buffered = <<"101">>
  <2> DEFINE x == conn[c]
  <2>1. Sound(x)
    BY <1>1 DEF Inv
  <2>0. Unhindered(c) <=> x.error \in {"none", "Io"}
    BY DEF Unhindered
  <2> HIDE DEF x
  <2>2. CASE x.task = "none"
    <3>0. Unhindered(c)
      BY <2>0, <2>1, <2>2 DEF Sound, Untasked
    <3>1. Untasked(x) /\ x.status \in {"none", "400", "500"}
      BY <2>1, <2>2 DEF Sound, Untasked, Connected
    <3>2. CASE x.wire = <<>>
      <4>1. <<>> \o <<>> = Part(0, 0)
        <5>1. <<>> \in Seq(Message) /\ Part(0, 0) = <<>>
          BY EmptySeq, FirstPart
        <5> QED
          BY <5>1, ConcatEmptySeq
      <4>2. IsPrefix(Part(0, 0), Dialogue)
        BY PartPrefix
      <4> QED
        BY <2>2, <3>0, <3>1, <3>2, <4>1, <4>2 DEF Untasked, x
    <3>3. CASE x.wire # <<>>
      BY <2>2, <3>0, <3>1, <3>3 DEF Untasked, x
    <3> QED
      BY <3>2, <3>3
  <2>3. CASE x.task # "none"
    <3>1. PICK n \in 0..5, k \in 0..1 : Stage(x.task, n, k) /\ Sent(x, n, k)
      BY <2>1, <2>3 DEF Sound, Tasked, InStage
    <3>2. n \in Nat /\ k \in Nat /\ n + k <= 5
      BY <3>1 DEF Stage
    <3>3. Part(0, n) \o Part(n, k) = Part(0, n + k)
      BY <3>2, FirstConcat
    <3>4. IsPrefix(Part(0, n + k), Dialogue)
      BY <3>2, PartPrefix
    <3>5. x.task = "serving" => "early" \in Range(x.wire)
      <4>1. ASSUME x.task = "serving" PROVE "early" \in Range(Part(0, n))
        <5>1. 4 \in 1..n
          BY <3>1, <4>1 DEF Stage
        <5>2. /\ DOMAIN Part(0, n) = 1..n
              /\ \A i \in 1..n : Part(0, n)[i] = Dialogue[i]
          BY DEF Part
        <5>3. Dialogue[4] = "early"
          BY DialogueIs
        <5> QED
          BY <5>1, <5>2, <5>3 DEF Range
      <4> QED
        BY <3>1, <4>1 DEF Sent
    <3>6. ~Unhindered(c) => x.wire \o x.buffered = <<"101">>
      <4>1. <<"101">> \o <<>> = <<"101">>
        BY DialogueIs, Singleton, ConcatEmptySeq
      <4> QED
        BY <2>0, <2>1, <2>3, <4>1 DEF Sound, Tasked
    <3> QED
      BY <3>1, <3>3, <3>4, <3>5, <3>6 DEF Sent, x
  <2> QED
    BY <2>2, <2>3
<1>2. Inv => WireInOrder
  BY <1>1 DEF WireInOrder
<1> QED
  BY <1>2, Invariant, PTL

(* A client's request differs from the one of its version and key in the    *)
(* bytes that follow the payload only.                                      *)
LEMMA AsksFields ==
  ASSUME NEW req \in Request, NEW m, NEW v, NEW key, Asks(req, m, v, key)
  PROVE  LET msg == req.handshake
         IN  /\ msg.base64 /\ msg.capver = v /\ msg.initiation
             /\ msg.body_len = INIT_PAYLOAD_LEN
             /\ msg.payload = [to |-> key, from |-> m, prologue |-> v,
                               intact |-> TRUE]
<1> DEFINE msg == req.handshake
           exact == [msg EXCEPT !.length = INITIATION_LEN]
<1>1. msg \in Initiation
  BY DEF Asks, Request
<1>2. [req EXCEPT !.handshake.length = INITIATION_LEN].handshake = exact
  BY DEF Request
<1>3. exact = Initiate(m, v, key)
  BY <1>2 DEF Asks, ClientRequest
<1>4. /\ exact.base64 = msg.base64 /\ exact.capver = msg.capver
      /\ exact.initiation = msg.initiation /\ exact.body_len = msg.body_len
      /\ exact.payload = msg.payload
  BY <1>1 DEF Initiation
<1> HIDE DEF msg, exact
<1> QED
  BY <1>3, <1>4 DEF Initiate, msg

(* A client with the key of the server that took its connection is rejected *)
(* by no check of accept (responder.rs).                                    *)
LEMMA CurrentUnhindered ==
  ASSUME Inv, NEW c \in Connection, Live(c), Current(c)
  PROVE  Unhindered(c)
<1> DEFINE x == conn[c]
           msg == x.request.handshake
<1>1. PICK m \in Machine, v \in Capver :
         /\ v >= MIN_SUPPORTED_CAPABILITY_VERSION
         /\ Asks(x.request, m, v, x.key)
  BY DEF Current, Supported
<1>2. Sound(x)
  BY DEF Inv
<1>3. Rejection(msg, x.key) = "none"
  <2>1. v \in Int
    BY CapverIsInt
  <2>2. ~(v < MIN_SUPPORTED_CAPABILITY_VERSION)
    BY <1>1, <2>1 DEF MIN_SUPPORTED_CAPABILITY_VERSION
  <2>3. x.request \in Request /\ msg \in Initiation
    BY <1>1, <1>2 DEF Sound, Connected, Asks, Request
  <2>4. /\ msg.base64 /\ msg.capver = v /\ msg.initiation
        /\ msg.body_len = INIT_PAYLOAD_LEN
        /\ msg.payload = [to |-> x.key, from |-> m, prologue |-> v,
                          intact |-> TRUE]
    BY <1>1, <2>3, AsksFields
  <2>5. ~TooShort(msg)
    <3>1. msg.length \in Nat /\ msg.length >= INITIATION_LEN
      BY <1>1, <2>3 DEF Asks, Initiation
    <3> QED
      BY <3>1
      DEF TooShort, INITIATION_LEN, CAPVER_PREFIX_LEN, CONTROLBASE_HEADER_LEN,
          INIT_PAYLOAD_LEN
  <2> HIDE DEF msg
  <2> QED
    BY <2>2, <2>4, <2>5 DEF Rejection, Opens, Prologue
<1> QED
  BY <1>2, <1>3 DEF Sound, Untasked, Tasked, Unhindered

(* That is so for any connections and keys, also when the host has stopped  *)
(* or replaced the server before the spawned task runs the checks.          *)
THEOREM CurrentClientsAccepted == Spec => []CurrentClientAccepted
<1>1. Inv => CurrentClientAccepted
  BY CurrentUnhindered DEF CurrentClientAccepted
<1> QED
  BY <1>1, Invariant, PTL

-----------------------------------------------------------------------------
(* A configured key.                                                        *)

(* The key a request of a supported version is sealed to.                   *)
SealedTo(x, key) ==
    \E m \in Machine, v \in Capver :
        /\ v >= MIN_SUPPORTED_CAPABILITY_VERSION
        /\ Asks(x.request, m, v, key)

(* No other key is ever with a server or on its way to a client, so that no *)
(* request is sealed to another one.                                        *)
OneKey ==
    /\ server_key \in {Configured, None}
    /\ \A m \in Machine : {reply[m], cached[m]} \subseteq {Configured, None}
    /\ \A c \in Connection :
          Live(c) =>
             /\ conn[c].key = Configured
             /\ \A key \in ServerKey : SealedTo(conn[c], key) => key = Configured

(* A step keeps a connection's key and request, or ends it.                 *)
Keeps(c) ==
    conn'[c] # None =>
        conn'[c].key = conn[c].key /\ conn'[c].request = conn[c].request

(* No step of the spawned task, nor of a client that reads, asks or leaves, *)
(* touches them.                                                            *)
LEMMA StepKeepsKey ==
  ASSUME Inv, NEW c \in Connection,
         ServerStep(c) \/ Take(c) \/ Ask(c) \/ Leave(c) \/ Close(c)
  PROVE  /\ \A d \in Connection : Live(d)' => Live(d) /\ Keeps(d)
         /\ UNCHANGED <<host, clients>>
<1>1. Live(c) /\ conn[c] \in Connected
  BY DEF ServerStep, Respond, Upgrade, UpgradeFails, Accept, Reject, Write,
     WriteEarlyNoise, Transmit, ServeConnection, WriteFails, handle_machine,
     Hangup, Take, Ask, Leave, Close, At, Live, Inv, TypeOK
<1>2. UNCHANGED <<host, clients>>
  BY DEF ServerStep, Respond, Upgrade, UpgradeFails, Accept, Reject, Write,
     WriteEarlyNoise, Transmit, ServeConnection, WriteFails, handle_machine,
     Hangup, Take, Ask, Leave, Close, Ends, Only
<1>3. \A d \in Connection \ {c} : conn'[d] = conn[d]
  BY DEF ServerStep, Respond, Upgrade, UpgradeFails, Accept, Reject, Write,
     WriteEarlyNoise, Transmit, ServeConnection, WriteFails, handle_machine,
     Hangup, Take, Ask, Leave, Close, Ends, Only, Inv, TypeOK
<1>4. Keeps(c)
  <2> USE <1>1 DEF Keeps, Only, Inv, TypeOK, Connected
  <2>1. CASE Respond(c) \/ Upgrade(c) \/ Accept(c)
    BY <2>1 DEF Respond, Upgrade, Accept
  <2>2. CASE Write(c) \/ WriteEarlyNoise(c) \/ handle_machine(c)
    <3>1. CASE Write(c)
      BY <3>1 DEF Write
    <3>2. CASE WriteEarlyNoise(c)
      BY <3>2 DEF WriteEarlyNoise
    <3>3. CASE handle_machine(c)
      BY <3>3 DEF handle_machine
    <3> QED
      BY <2>2, <3>1, <3>2, <3>3
  <2>3. CASE Transmit(c) \/ ServeConnection(c)
    BY <2>3 DEF Transmit, ServeConnection
  <2>4. CASE UpgradeFails(c) \/ Reject(c) \/ WriteFails(c) \/ Hangup(c)
    BY <2>4 DEF UpgradeFails, Reject, WriteFails, Hangup, Ends
  <2>5. CASE Take(c) \/ Ask(c) \/ Leave(c) \/ Close(c)
    BY <2>5 DEF Take, Ask, Leave, Close
  <2> QED
    BY <2>1, <2>2, <2>3, <2>4, <2>5 DEF ServerStep
<1> QED
  BY <1>1, <1>2, <1>3, <1>4 DEF Live, Keeps

(* Requests sealed to two keys are two requests.                            *)
LEMMA SealedToOne ==
  ASSUME NEW x, NEW m \in Machine, NEW v \in Capver, NEW held \in ServerKey,
         x.request = ClientRequest(m, v, held), NEW key, SealedTo(x, key)
  PROVE  key = held
<1>1. x.request \in Request /\ x.request.handshake.payload.to = held
  BY SealedRequestType DEF ClientRequest, Initiate
<1>2. PICK n, w : Asks(x.request, n, w, key)
  BY DEF SealedTo
<1>3. x.request.handshake.payload = [to |-> key, from |-> n, prologue |-> w,
                                     intact |-> TRUE]
  <2> DEFINE req == x.request
  <2>1. req \in Request /\ Asks(req, n, w, key)
    BY <1>1, <1>2
  <2> HIDE DEF req
  <2>2. req.handshake.payload = [to |-> key, from |-> n, prologue |-> w,
                                 intact |-> TRUE]
    BY <2>1, AsksFields
  <2> QED
    BY <2>2 DEF req
<1> QED
  BY <1>1, <1>3

(* A connection that asked for nothing yet holds nothing sealed.            *)
LEMMA FreshSealsNothing ==
  ASSUME NEW x, x.request = None, NEW key \in ServerKey
  PROVE  ~SealedTo(x, key)
BY DEF SealedTo, Asks

(* The key stays one if no request that is not a client's is one of a       *)
(* supported version sealed to another key.                                 *)
LEMMA OneKeyNext ==
  ASSUME Configured # None,
         \A req \in BadRequest, m \in Machine, v \in Capver,
            key \in ServerKey \ {Configured} :
            v >= MIN_SUPPORTED_CAPABILITY_VERSION => ~Asks(req, m, v, key),
         Inv, OneKey, [Next]_vars
  PROVE  OneKey'
<1>1. CASE UNCHANGED vars
  BY <1>1 DEF vars, host, clients, OneKey, Live, SealedTo
<1>2. CASE Build \/ Serve
  BY <1>2 DEF Build, KeyChoice, Serve, clients, OneKey, Live, SealedTo
<1>3. CASE Exit
  BY <1>3 DEF Exit, clients, OneKey, Live
<1>4. ASSUME NEW m \in Machine, KeyReceived(m) PROVE OneKey'
  BY <1>4 DEF KeyReceived, host, OneKey, Live, SealedTo, Inv, TypeOK
<1>5. ASSUME NEW c \in Connection, NEW m \in Machine, get_key(c, m)
      PROVE  OneKey'
  BY <1>5 DEF get_key, Idle, host, OneKey, Live, SealedTo, Inv, TypeOK
<1>6. ASSUME NEW c \in Connection,
             ServerStep(c) \/ Take(c) \/ Ask(c) \/ Leave(c) \/ Close(c)
      PROVE  OneKey'
  BY <1>6, StepKeepsKey DEF OneKey, Live, Keeps, SealedTo, host, clients
<1>7. ASSUME NEW c \in Connection, Connect(c) \/ KeepAlive(c) PROVE OneKey'
  <2>1. PICK y : /\ conn' = [conn EXCEPT ![c] = y]
                 /\ y.key = Configured /\ y.request = None
    <3>1. CASE Connect(c)
      <4>1. server_key = Configured
        BY <3>1 DEF Connect, OneKey, Inv
      <4>2. Fresh(Configured).key = Configured /\ Fresh(Configured).request = None
        BY DEF Fresh
      <4> QED
        BY <3>1, <4>1, <4>2 DEF Connect
    <3>2. CASE KeepAlive(c)
      <4> DEFINE z == [Fresh(conn[c].key) EXCEPT !.draining = conn[c].draining]
      <4>1. z.key = conn[c].key /\ z.request = None
        BY DEF Fresh
      <4>2. conn' = [conn EXCEPT ![c] = z] /\ conn[c].key = Configured
        BY <3>2 DEF KeepAlive, Only, OneKey
      <4> HIDE DEF z
      <4> QED
        BY <4>1, <4>2
    <3> QED
      BY <1>7, <3>1, <3>2
  <2>2. \A d \in Connection : conn'[d] = IF d = c THEN y ELSE conn[d]
    BY <2>1 DEF Inv, TypeOK
  <2>3. \A key \in ServerKey : ~SealedTo(y, key)
    BY <2>1, FreshSealsNothing
  <2>4. UNCHANGED <<server_key, clients>>
    BY <1>7 DEF Connect, KeepAlive, Only, host
  <2> QED
    BY <2>1, <2>2, <2>3, <2>4 DEF OneKey, Live, clients
<1>8. ASSUME NEW c \in Connection, NEW req \in ClientRequests \cup BadRequest,
             ts2021_upgrade(c, req)
      PROVE  OneKey'
  <2>1. UNCHANGED <<host, clients>> /\ Live(c) /\ conn[c] \in Connected
    BY <1>8 DEF ts2021_upgrade, Only, Idle, Live, Inv, Sound
  <2>2. /\ conn'[c].key = conn[c].key /\ conn'[c].request = req
        /\ \A d \in Connection \ {c} : conn'[d] = conn[d]
    BY <1>8, <2>1 DEF ts2021_upgrade, Only, Inv, TypeOK, Connected
  <2>3. ASSUME NEW key \in ServerKey, SealedTo(conn'[c], key)
        PROVE  key = Configured
    <3>1. CASE req \in ClientRequests
      <4>1. PICK m \in Machine, v \in Capver :
               cached[m] \in ServerKey /\ req = ClientRequest(m, v, cached[m])
        BY <3>1, ClientRequestType DEF Inv
      <4>2. cached[m] = Configured
        <5>1. cached[m] \in {Configured, None}
          BY DEF OneKey
        <5>2. cached[m] # None
          BY <4>1, KeyIsSome
        <5> QED
          BY <5>1, <5>2
      <4> QED
        BY <2>2, <2>3, <4>1, <4>2, SealedToOne
    <3>2. CASE req \in BadRequest
      BY <2>2, <2>3, <3>2 DEF SealedTo
    <3> QED
      BY <3>1, <3>2
  <2>4. \A d \in Connection \ {c} : Live(d)' => conn'[d] = conn[d] /\ Live(d)
    BY <2>2 DEF Live
  <2>5. \A d \in Connection :
           Live(d)' =>
              /\ conn'[d].key = Configured
              /\ \A key \in ServerKey :
                    SealedTo(conn'[d], key) => key = Configured
    BY <2>1, <2>2, <2>3, <2>4 DEF OneKey
  <2> QED
    BY <2>1, <2>5 DEF OneKey, host, clients
<1>9. CASE Stop
  <2>1. ASSUME NEW c \in Connection, Live(c)'
        PROVE  Live(c) /\ Keeps(c)
    <3>1. conn'[c] \in {conn[c], [conn[c] EXCEPT !.draining = TRUE]} /\ Live(c)
      BY <1>9, <2>1 DEF Stop, Live
    <3>2. conn[c] \in Connected
      BY <3>1 DEF Inv, TypeOK, Live
    <3> QED
      BY <3>1, <3>2 DEF Keeps, Connected
  <2> QED
    BY <1>9, <2>1 DEF Stop, OneKey, Live, Keeps, SealedTo, clients
<1> QED
  BY <1>1, <1>2, <1>3, <1>4, <1>5, <1>6, <1>7, <1>8, <1>9 DEF Next, ClientStep

(* With a key given to the builder (server_key, server.rs) no handshake     *)
(* fails for the key a client fetched, over any number of rebuilds and      *)
(* restarts and however late its answer arrived. The hypothesis: what is    *)
(* sent and is no client's request is not one sealed, in a supported        *)
(* version, to a key that no run of the server ever had.                    *)
THEOREM FetchedKeysAccepted ==
  ASSUME Configured # None,
         \A req \in BadRequest, m \in Machine, v \in Capver,
            key \in ServerKey \ {Configured} :
            v >= MIN_SUPPORTED_CAPABILITY_VERSION => ~Asks(req, m, v, key)
  PROVE  Spec => []FetchedKeyAccepted
<1>1. Init => OneKey
  BY DEF Init, OneKey, Live
<1>2. Inv /\ OneKey /\ [Next]_vars => OneKey'
  BY OneKeyNext
<1>3. Inv /\ OneKey => FetchedKeyAccepted
  <2> SUFFICES ASSUME Inv, OneKey, NEW c \in Connection, Supported(c, ServerKey)
               PROVE  Unhindered(c)
    BY DEF FetchedKeyAccepted
  <2>1. Live(c) /\ conn[c].key = Configured
    BY DEF Supported, OneKey
  <2>2. PICK key \in ServerKey : SealedTo(conn[c], key)
    BY DEF Supported, SealedTo
  <2>3. key = Configured
    BY <2>1, <2>2 DEF OneKey
  <2>4. Current(c)
    BY <2>1, <2>2, <2>3 DEF Current, Supported, SealedTo
  <2> QED
    BY <2>1, <2>4, CurrentUnhindered
<1> QED
  BY <1>1, <1>2, <1>3, Invariant, PTL DEF Spec
================================================================================
