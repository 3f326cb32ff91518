---------------------------- MODULE SharedStoreProofs ----------------------------
(***************************************************************************)
(* A FileStore whose format is that of its path implements SharedStore,    *)
(* for every set of callers, ids, mutations and files, and whatever fails, *)
(* is dropped, loads or crashes.                                           *)
(***************************************************************************)
EXTENDS SharedFileStore, FileStoreProofs

-----------------------------------------------------------------------------
(* What FileStore's invariants say of SharedSpec: the history of the        *)
(* overlaps disturbs no step.                                               *)

(* A behaviour of SharedSpec is one of FileStore.                           *)
LEMMA SharedImpliesSpec == SharedSpec => Spec
<1>1. SharedInit => Init
  BY DEF SharedInit
<1>2. [SharedNext]_sharedVars => [Next]_vars
  BY DEF SharedNext, sharedVars
<1> QED
  BY <1>1, <1>2, PTL DEF SharedSpec, Spec

(* The invariant of the file window holds for any callers and faults.       *)
LEMMA SoloHolds == Spec => []SoloInv
<1>1. Init => SoloInv
  BY DEF Init, SoloInv, Writing
<1> QED
  BY <1>1, SoloNext, TypeCorrect, ClosedIsIdle, PTL DEF Spec

-----------------------------------------------------------------------------
(* Contents.                                                                *)

(* What open makes of a file is a document, None or Unreadable, and these   *)
(* are three different things.                                              *)
LEMMA ContentsType ==
  ASSUME NEW content
  PROVE  /\ content = None <=> Contents(content) = None
         /\ Parses(Extension, content) =>
               /\ content # None
               /\ Contents(content) = content.doc
               /\ Contents(content) \in Document
         /\ content # None /\ ~Parses(Extension, content) =>
               Contents(content) = Unreadable
         /\ None \notin Document /\ Unreadable \notin Document
         /\ None # Unreadable
<1>1. Parses(Extension, content) => content.doc \in Document
  BY ImageType, FormatAssumption
<1>2. ~Parses(Extension, None)
  BY FileAssumption DEF Parses
<1> QED
  BY <1>1, <1>2, DocumentAssumption, SharedAssumption DEF Contents

(* A whole snapshot reads as its document; a cut or empty file as none.     *)
LEMMA ContentsOfSnapshot ==
  ASSUME NEW doc \in Document
  PROVE  Contents([doc |-> doc, format |-> Extension]) = doc
<1>1. [doc |-> doc, format |-> Extension] \in Image
  BY FormatAssumption DEF Image
<1> QED
  BY <1>1, ContentsType DEF Parses

(* Neither of the remains of a failed write is a document.                  *)
LEMMA ContentsOfRemains ==
  ASSUME NEW content \in {None, Blank, Torn}
  PROVE  Contents(content) \in {None, Unreadable}
  BY FileAssumption DEF Contents, Parses

-----------------------------------------------------------------------------
(* The invariant.                                                           *)

(* A call that is alone is the only one; what it writes is the memory, what *)
(* it loads is still on disk, and its file window is its own.               *)
AloneInv ==
    \A c \in alone :
        /\ c \in Caller
        /\ Running = {c}
        /\ pc[c] \in Writing => solo[c]
        /\ pc[c] \in {"create"} \cup Writing => snap[c] = mem
        /\ pc[c] = "replace" => snap[c] = Contents(file["target"])

(* While calls run, every document in memory, on disk, or on its way to one *)
(* of them is of the period; of the temporary file this holds from its      *)
(* first truncation on, before it may be a leftover.                        *)
PeriodInv ==
    Running # {} =>
        /\ mem \in period
        /\ Contents(file["target"]) \in period \cup {None, Unreadable}
        /\ \A c \in Caller :
              /\ pc[c] \in {"create", "replace"} \cup Writing =>
                    snap[c] \in period
              /\ pc[c] \in Writing =>
                    Contents(file["tmp"]) \in period \cup {None, Unreadable}

SharedInv ==
    /\ format = Extension
    /\ Running = {} => alone = {} /\ period = {}
    /\ AloneInv
    /\ PeriodInv

-----------------------------------------------------------------------------
(* The history of a step, by what the step does to the calls.               *)

(* A call begins.                                                           *)
LEMMA CallBegins ==
  ASSUME TypeOK, AloneInv, Overlap, NEW c \in Caller, pc[c] = "idle",
         NEW at \in {"snapshot", "replace"}, pc' = [pc EXCEPT ![c] = at]
  PROVE  /\ Running' = Running \cup {c} /\ c \notin Running
         /\ alone' = IF Running = {} THEN {c} ELSE {}
         /\ period' = {mem'} \cup
               (IF Running = {}
                THEN {mem, Contents(file["target"])} \ {None, Unreadable}
                ELSE period)
<1>1. Running' = Running \cup {c} /\ c \notin Running
  BY DEF Running, TypeOK
<1>2. \A d \in alone : Running = {d}
  BY DEF AloneInv
<1>3. Running' # {}
  BY <1>1
<1>4. alone' = {d \in Running' : Running' = {d} /\ (Running = {} \/ d \in alone)}
  BY DEF Overlap
<1>5. alone' = IF Running = {} THEN {c} ELSE {}
  BY <1>1, <1>2, <1>4
<1> QED
  BY <1>1, <1>3, <1>5 DEF Overlap

(* A call ends.                                                             *)
LEMMA CallEnds ==
  ASSUME TypeOK, AloneInv, Overlap, NEW c \in Caller, pc[c] # "idle",
         pc' = [pc EXCEPT ![c] = "idle"]
  PROVE  /\ Running' = Running \ {c} /\ c \in Running
         /\ alone \subseteq {c} /\ alone' = {}
         /\ period' = IF Running = {c} THEN {} ELSE {mem'} \cup period
<1>1. Running' = Running \ {c} /\ c \in Running
  BY DEF Running, TypeOK
<1>2. \A d \in alone : Running = {d}
  BY DEF AloneInv
<1>3. alone' = {d \in Running' : Running' = {d} /\ (Running = {} \/ d \in alone)}
  BY DEF Overlap
<1>4. alone \subseteq {c} /\ alone' = {}
  BY <1>1, <1>2, <1>3
<1>5. Running' = {} <=> Running = {c}
  BY <1>1
<1> QED
  BY <1>1, <1>4, <1>5 DEF Overlap

(* The same calls go on, and the memory stays: the history too.             *)
LEMMA CallsGoOn ==
  ASSUME SharedInv, Overlap, Running' = Running, mem' = mem
  PROVE  UNCHANGED <<alone, period>>
<1>1. \A d \in alone : Running = {d}
  BY DEF SharedInv, AloneInv
<1>2. alone' = {d \in Running : Running = {d} /\ (Running = {} \/ d \in alone)}
  BY DEF Overlap
<1>3. alone' = alone
  BY <1>1, <1>2 DEF SharedInv
<1>4. period' = period
  BY DEF Overlap, SharedInv, PeriodInv
<1> QED
  BY <1>3, <1>4

-----------------------------------------------------------------------------
(* The invariant is preserved, first by the shape of the step.              *)

(* A call that begins brings a document into the period: the one it makes   *)
(* of the memory, or, for a load, the one it has read from the disk.        *)
LEMMA BeginKeeps ==
  ASSUME TypeOK, SharedInv, Overlap, NEW c \in Caller, pc[c] = "idle",
         NEW at \in {"snapshot", "replace"}, pc' = [pc EXCEPT ![c] = at],
         UNCHANGED <<file, format>>,
         \A d \in Caller \ {c} : snap'[d] = snap[d],
         at = "replace" => /\ mem' = mem
                           /\ Parses(Extension, file["target"])
                           /\ snap'[c] = file["target"].doc
  PROVE  SharedInv'
<1>1. AloneInv /\ PeriodInv /\ format' = Extension
  BY DEF SharedInv
<1>2. /\ Running' = Running \cup {c} /\ c \notin Running
      /\ alone' = IF Running = {} THEN {c} ELSE {}
      /\ period' = {mem'} \cup
            (IF Running = {}
             THEN {mem, Contents(file["target"])} \ {None, Unreadable}
             ELSE period)
  BY <1>1, CallBegins
<1>3. pc'[c] = at /\ \A d \in Caller \ {c} : pc'[d] = pc[d]
  BY DEF TypeOK
<1>4. at = "replace" => /\ snap'[c] = Contents(file["target"])
                        /\ snap'[c] \notin {None, Unreadable}
  BY ContentsType
<1>5. AloneInv'
  BY <1>2, <1>3, <1>4 DEF AloneInv, Writing
<1>6. PeriodInv'
  <2>1. CASE Running = {}
    <3>1. \A d \in Caller \ {c} : pc'[d] = "idle"
      BY <1>3, <2>1 DEF Running
    <3> QED
      BY <1>2, <1>3, <1>4, <2>1, <3>1 DEF PeriodInv, Writing
  <2>2. CASE Running # {}
    BY <1>1, <1>2, <1>3, <1>4, <2>2 DEF PeriodInv, Writing
  <2> QED
    BY <2>1, <2>2
<1> QED
  BY <1>1, <1>2, <1>5, <1>6 DEF SharedInv

(* A call that ends among others leaves memory and files to the period; the *)
(* last one ends it.                                                        *)
LEMMA EndKeeps ==
  ASSUME TypeOK, SharedInv, Overlap, NEW c \in Caller, pc[c] # "idle",
         NEW a, Return(c, a), format' = format,
         mem' \in period,
         Contents(file'["target"]) \in period \cup {None, Unreadable},
         \A d \in Caller \ {c} : pc[d] \in Writing =>
            Contents(file'["tmp"]) \in period \cup {None, Unreadable}
  PROVE  SharedInv'
<1>1. AloneInv /\ PeriodInv /\ format' = Extension
  BY DEF SharedInv
<1>2. pc' = [pc EXCEPT ![c] = "idle"]
  BY DEF Return
<1>3. /\ Running' = Running \ {c} /\ c \in Running /\ alone' = {}
      /\ period' = IF Running = {c} THEN {} ELSE {mem'} \cup period
  BY <1>1, <1>2, CallEnds
<1>4. pc'[c] = "idle" /\ \A d \in Caller \ {c} : /\ pc'[d] = pc[d]
                                                /\ snap'[d] = snap[d]
  BY DEF Return, TypeOK
<1>5. AloneInv'
  BY <1>3 DEF AloneInv
<1>6. PeriodInv'
  BY <1>1, <1>3, <1>4 DEF PeriodInv, Writing
<1> QED
  BY <1>1, <1>3, <1>5, <1>6 DEF SharedInv

(* The steps of flush() that do not end it.                                 *)
LEMMA SnapshotKeeps ==
  ASSUME TypeOK, SharedInv, Overlap, NEW c \in Caller, Snapshot(c)
  PROVE  SharedInv'
<1>1. pc'[c] = "create" /\ \A d \in Caller \ {c} : pc'[d] = pc[d]
  BY DEF Snapshot, TypeOK
<1>2. snap'[c] = mem /\ \A d \in Caller \ {c} : snap'[d] = snap[d]
  BY DEF Snapshot, TypeOK
<1>3. Running' = Running /\ c \in Running
  BY <1>1 DEF Running, Snapshot
<1>4. UNCHANGED <<mem, file, format, solo, alone, period>>
  BY <1>3, CallsGoOn DEF Snapshot, memory
<1>5. AloneInv'
  BY <1>1, <1>2, <1>3, <1>4 DEF SharedInv, AloneInv, Writing
<1>6. PeriodInv'
  BY <1>1, <1>2, <1>3, <1>4 DEF SharedInv, PeriodInv, Writing
<1> QED
  BY <1>3, <1>4, <1>5, <1>6 DEF SharedInv

(* Whoever truncates the temporary file drops what an earlier period left.  *)
LEMMA CreateKeeps ==
  ASSUME TypeOK, SharedInv, Overlap, NEW c \in Caller, CreateTmp(c)
  PROVE  SharedInv'
<1>1. pc'[c] = "write" /\ \A d \in Caller \ {c} : pc'[d] = pc[d]
  BY DEF CreateTmp, TypeOK
<1>2. Running' = Running /\ c \in Running
  BY <1>1 DEF Running, CreateTmp
<1>3. UNCHANGED <<mem, snap, format, alone, period>>
  BY <1>2, CallsGoOn DEF CreateTmp, memory
<1>4. file'["target"] = file["target"] /\ file'["tmp"] = Blank
  BY DEF CreateTmp, TmpName, Truncated, TypeOK, Name
<1>5. Contents(file'["tmp"]) \in {None, Unreadable}
  BY <1>4, ContentsOfRemains
<1>6. AloneInv'
  <2> SUFFICES ASSUME NEW d \in alone
      PROVE  /\ d \in Caller
             /\ Running = {d}
             /\ pc'[d] \in Writing => solo'[d]
             /\ pc'[d] \in {"create"} \cup Writing => snap[d] = mem
             /\ pc'[d] = "replace" => snap[d] = Contents(file["target"])
    BY <1>2, <1>3, <1>4 DEF AloneInv
  <2>1. d = c /\ Running = {c}
    BY <1>2 DEF SharedInv, AloneInv
  <2>2. solo'[c]
    BY <2>1 DEF CreateTmp, Running, Writing
  <2> QED
    BY <1>1, <2>1, <2>2 DEF SharedInv, AloneInv, CreateTmp, Writing
<1>7. PeriodInv'
  BY <1>1, <1>2, <1>3, <1>4, <1>5 DEF SharedInv, PeriodInv, CreateTmp, Writing
<1> QED
  BY <1>2, <1>3, <1>6, <1>7 DEF SharedInv

(* A write leaves documents of the period, or none, at both names, and the  *)
(* target alone as long as its inode is still the temporary file.           *)
LEMMA WrittenOfPeriod ==
  ASSUME TypeOK, SharedInv, NEW c \in Caller, pc[c] = "write",
         NEW contents, Written(c, contents),
         \A f \in contents :
            \/ Contents(f) \in period \cup {None, Unreadable}
            \/ fd[c] # "unlinked" /\ f = file[fd[c]]
  PROVE  /\ Contents(file'["target"]) \in period \cup {None, Unreadable}
         /\ Contents(file'["tmp"]) \in period \cup {None, Unreadable}
         /\ fd[c] = "tmp" => file'["target"] = file["target"]
<1>1. c \in Running
  BY DEF Running
<1>2. /\ Contents(file["target"]) \in period \cup {None, Unreadable}
      /\ Contents(file["tmp"]) \in period \cup {None, Unreadable}
  BY <1>1 DEF SharedInv, PeriodInv, Writing
<1>3. CASE fd[c] = "unlinked"
  BY <1>2, <1>3 DEF Written
<1>4. CASE fd[c] # "unlinked"
  <2>1. PICK f \in contents : file' = [file EXCEPT ![fd[c]] = f]
    BY <1>4 DEF Written
  <2>2. fd[c] \in {"tmp", "target"} /\ DOMAIN file = {"tmp", "target"}
    BY <1>4 DEF TypeOK, Name
  <2>3. Contents(f) \in period \cup {None, Unreadable}
    BY <1>2, <2>1, <2>2
  <2> QED
    BY <1>2, <2>1, <2>2, <2>3
<1> QED
  BY <1>3, <1>4

(* A write leaves a snapshot of the period, or what cannot be read.         *)
LEMMA SnapshotIsWritten ==
  ASSUME TypeOK, SharedInv, NEW c \in Caller, pc[c] = "write"
  PROVE  \A f \in Overwritten(file[fd[c]], [doc |-> snap[c], format |-> format]) :
            Contents(f) \in period \cup {None, Unreadable}
<1>1. snap[c] \in period /\ snap[c] \in Document /\ format = Extension
  BY DEF SharedInv, PeriodInv, Running, Writing, TypeOK
<1>2. Contents([doc |-> snap[c], format |-> format]) = snap[c]
  BY <1>1, ContentsOfSnapshot
<1>3. Contents(Torn) \in {None, Unreadable}
  BY ContentsOfRemains
<1> QED
  BY <1>1, <1>2, <1>3 DEF Overwritten

(* Writing the temporary file, wherever a rename has moved it.              *)
LEMMA WriteKeeps ==
  ASSUME TypeOK, SoloInv, SharedInv, Overlap, NEW c \in Caller, WriteTmp(c)
  PROVE  SharedInv'
<1>1. pc'[c] = "rename" /\ \A d \in Caller \ {c} : pc'[d] = pc[d]
  BY DEF WriteTmp, TypeOK
<1>2. Running' = Running /\ c \in Running /\ pc[c] = "write"
  BY <1>1 DEF Running, WriteTmp
<1>3. UNCHANGED <<mem, snap, format, solo, alone, period>>
  BY <1>2, CallsGoOn DEF WriteTmp, memory
<1>4. /\ Contents(file'["target"]) \in period \cup {None, Unreadable}
      /\ Contents(file'["tmp"]) \in period \cup {None, Unreadable}
      /\ fd[c] = "tmp" => file'["target"] = file["target"]
  BY <1>2, SnapshotIsWritten, WrittenOfPeriod DEF WriteTmp
<1>5. AloneInv'
  <2> SUFFICES ASSUME NEW d \in alone
      PROVE  /\ d \in Caller
             /\ Running = {d}
             /\ pc'[d] \in Writing => solo[d]
             /\ pc'[d] \in {"create"} \cup Writing => snap[d] = mem
             /\ pc'[d] = "replace" => snap[d] = Contents(file'["target"])
    BY <1>2, <1>3 DEF AloneInv
  <2> QED
    BY <1>1, <1>2 DEF SharedInv, AloneInv, Writing
<1>6. PeriodInv'
  BY <1>1, <1>2, <1>3, <1>4 DEF SharedInv, PeriodInv, Writing
<1> QED
  BY <1>2, <1>3, <1>5, <1>6 DEF SharedInv

(* The steps that end a call.                                               *)
LEMMA EndingsKeep ==
  ASSUME TypeOK, SharedInv, Overlap, NEW c \in Caller,
         WriteFails(c) \/ Rename(c) \/ FlushFails(c) \/ Replace(c) \/ Cancel(c)
  PROVE  SharedInv'
<1>1. /\ pc[c] # "idle" /\ format' = format
      /\ \E a : Return(c, a)
  BY DEF WriteFails, Rename, FlushFails, Replace, Cancel
<1>2. c \in Running
  BY <1>1 DEF Running
<1>3. /\ mem \in period
      /\ Contents(file["target"]) \in period \cup {None, Unreadable}
      /\ \A d \in Caller : pc[d] \in Writing =>
            Contents(file["tmp"]) \in period \cup {None, Unreadable}
  BY <1>2 DEF SharedInv, PeriodInv
<1>4. CASE FlushFails(c) \/ Cancel(c)
  BY <1>1, <1>3, <1>4, EndKeeps DEF FlushFails, Cancel, memory
<1>5. CASE Replace(c)
  <2>1. mem' \in period /\ file' = file
    BY <1>2, <1>5 DEF Replace, SharedInv, PeriodInv
  <2> QED
    BY <1>1, <1>3, <2>1, EndKeeps
<1>6. CASE WriteFails(c)
  <2>1. Contents(Torn) \in {None, Unreadable}
    BY ContentsOfRemains
  <2>2. /\ Contents(file'["target"]) \in period \cup {None, Unreadable}
        /\ Contents(file'["tmp"]) \in period \cup {None, Unreadable}
    <3>1. CASE fd[c] = "unlinked"
      BY <1>3, <1>6, <3>1 DEF WriteFails, Written, Writing
    <3>2. CASE fd[c] # "unlinked"
      BY <1>6, <2>1, <3>2, WrittenOfPeriod DEF WriteFails
    <3> QED
      BY <3>1, <3>2
  <2> QED
    BY <1>1, <1>3, <1>6, <2>2, EndKeeps DEF WriteFails, memory
<1>7. CASE Rename(c)
  <2>1. file'["target"] = file["tmp"] /\ file'["tmp"] = None
    BY <1>7 DEF Rename, TypeOK, Name
  <2>2. Contents(None) = None
    BY ContentsType
  <2> QED
    BY <1>1, <1>3, <1>7, <2>1, <2>2, EndKeeps DEF Rename, memory, Writing
<1> QED
  BY <1>4, <1>5, <1>6, <1>7

(* The calls of the host.                                                   *)
LEMMA CallsKeep ==
  ASSUME TypeOK, SharedInv, Overlap, NEW c \in Caller, Call(c)
  PROVE  SharedInv'
<1> USE DEF Idle, Start
<1>1. ASSUME NEW m \in Mutations, Mutate(c, m) PROVE SharedInv'
  BY <1>1, BeginKeeps DEF Mutate
<1>2. ASSUME UNCHANGED <<mem, format, file, pc, snap, solo>> PROVE SharedInv'
  BY <1>2, CallsGoOn DEF SharedInv, AloneInv, PeriodInv, Running
<1>3. ASSUME NEW k \in PreAuthKeyId, Consume(c, k) PROVE SharedInv'
  <2>1. CASE Consumable(mem, k, now)
    BY <1>3, <2>1, BeginKeeps DEF Consume
  <2>2. CASE ~Consumable(mem, k, now)
    BY <1>2, <1>3, <2>2 DEF Consume
  <2> QED
    BY <2>1, <2>2
<1>4. CASE Flush(c)
  BY <1>4, BeginKeeps DEF Flush
<1>5. CASE LoadMissing(c) \/ LoadFails(c)
  BY <1>2, <1>5 DEF LoadMissing, LoadFails, memory
<1>6. CASE LoadReads(c)
  BY <1>6, BeginKeeps DEF LoadReads, SharedInv, memory, TypeOK
<1> QED
  BY <1>1, <1>3, <1>4, <1>5, <1>6 DEF Call

(* Every step keeps the invariant.                                          *)
LEMMA SharedInvNext ==
  ASSUME TypeOK, ClosedIdle, SoloInv, SharedInv, [SharedNext]_sharedVars
  PROVE  SharedInv'
<1>1. CASE UNCHANGED sharedVars
  BY <1>1 DEF sharedVars, vars, SharedInv, AloneInv, PeriodInv, Running
<1>2. CASE SharedNext
  <2>1. Next /\ Overlap
    BY <1>2 DEF SharedNext
  <2>2. ASSUME NEW c \in Caller, Call(c) PROVE SharedInv'
    BY <2>1, <2>2, CallsKeep
  <2>3. ASSUME NEW c \in Caller, FlushStep(c) \/ Replace(c) \/ Cancel(c)
        PROVE  SharedInv'
    BY <2>1, <2>3, SnapshotKeeps, CreateKeeps, WriteKeeps, EndingsKeep
    DEF FlushStep
  <2>4. CASE Tick
    BY <2>1, <2>4, CallsGoOn
    DEF Tick, calls, SharedInv, AloneInv, PeriodInv, Running
  <2>5. CASE Open \/ OpenFails
    <3>1. Running = {} /\ Running' = {}
      BY <2>5 DEF Open, OpenFails, calls, ClosedIdle, Running
    <3>2. format' = Extension
      BY <2>5, SharedAssumption DEF Open, OpenFails, SharedInv
    <3> QED
      BY <2>1, <3>1, <3>2 DEF SharedInv, AloneInv, PeriodInv, Overlap
  <2>6. CASE Crash
    <3>1. Running' = {} /\ format' = Extension
      BY <2>6 DEF Crash, Running
    <3> QED
      BY <2>1, <3>1 DEF SharedInv, AloneInv, PeriodInv, Overlap
  <2> QED
    BY <2>1, <2>2, <2>3, <2>4, <2>5, <2>6 DEF Next
<1> QED
  BY <1>1, <1>2

-----------------------------------------------------------------------------
(* The refinement.                                                          *)

(* SharedStore means by documents, redeeming and running what FileStore     *)
(* means.                                                                   *)
LEMMA SharedOperators ==
  /\ Shared!NewDocument = NewDocument
  /\ \A m : Shared!Apply(mem, m) = Apply(mem, m)
  /\ \A k : /\ Shared!Consumable(mem, k, now) <=> Consumable(mem, k, now)
            /\ Shared!Consumed(mem, k) = Consumed(mem, k)
  /\ Shared!Running = Running
<1>1. Shared!NewDocument = NewDocument
  BY DEF Shared!NewDocument, NewDocument
<1>2. \A m : Shared!Apply(mem, m) = Apply(mem, m)
  BY DEF Shared!Apply, Apply
<1>3. \A k : /\ Shared!Consumable(mem, k, now) <=> Consumable(mem, k, now)
             /\ Shared!Consumed(mem, k) = Consumed(mem, k)
  BY DEF Shared!Consumable, Consumable, Shared!Unexpired, Unexpired,
     Shared!Consumed, Consumed
<1>4. Shared!Running = Running
  BY DEF Shared!Running, Running, Phase, PhaseAt
<1> QED
  BY <1>1, <1>2, <1>3, <1>4

(* A change of one pc is a change of one phase.                             *)
LEMMA PhaseChange ==
  ASSUME TypeOK, NEW c \in Caller, NEW at, pc' = [pc EXCEPT ![c] = at]
  PROVE  Phase' = [Phase EXCEPT ![c] = PhaseAt(at)]
  BY DEF Phase, TypeOK

(* A call begins with the document it makes of the memory.                  *)
LEMMA BeginRefines ==
  ASSUME TypeOK, SharedInv, Overlap, NEW c \in Caller, Idle(c),
         NEW at \in {"snapshot", "replace"}, NEW a, Start(c, at, a),
         UNCHANGED <<store, now, file>>
  PROVE  Shared!Begin(c, mem', PhaseAt(at), a)
<1>1. Shared!Ready(c)
  BY SharedOperators DEF Shared!Ready, Idle, Running
<1>2. /\ alone' = IF Running = {} THEN {c} ELSE {}
      /\ period' = {mem'} \cup
            (IF Running = {}
             THEN {mem, Contents(file["target"])} \ {None, Unreadable}
             ELSE period)
  BY CallBegins DEF SharedInv, Idle, Start
<1>3. Phase' = [Phase EXCEPT ![c] = PhaseAt(at)]
  BY PhaseChange DEF Start
<1> QED
  BY <1>1, <1>2, <1>3, SharedOperators DEF Shared!Begin, Start

(* A call of one step has an answer and nothing else.                       *)
LEMMA ReplyRefines ==
  ASSUME TypeOK, SharedInv, Overlap, NEW c \in Caller, Idle(c), NEW a,
         answer' = [answer EXCEPT ![c] = a],
         UNCHANGED <<mem, now, store, file, pc>>
  PROVE  Shared!Reply(c, a)
<1>1. Shared!Ready(c)
  BY SharedOperators DEF Shared!Ready, Idle, Running
<1>2. UNCHANGED <<alone, period>>
  BY CallsGoOn DEF Running
<1> QED
  BY <1>1, <1>2 DEF Shared!Reply, Phase

(* A call returns: it is no longer alone, and the last one ends the period. *)
LEMMA EndRefines ==
  ASSUME TypeOK, SharedInv, Overlap, NEW c \in Caller, pc[c] # "idle",
         NEW a, Return(c, a), mem' \in period, UNCHANGED <<store, now>>
  PROVE  Shared!Finish(c, a)
<1>1. /\ alone \subseteq {c} /\ alone' = {}
      /\ period' = IF Running = {c} THEN {} ELSE {mem'} \cup period
  BY CallEnds DEF SharedInv, Return
<1>2. Phase' = [Phase EXCEPT ![c] = "ready"]
  BY PhaseChange DEF Return, PhaseAt
<1> QED
  BY <1>1, <1>2, SharedOperators DEF Shared!Finish, Return

(* Steps that a host cannot tell from nothing: the calls, what is in memory *)
(* and what is on disk stay.                                                *)
LEMMA StutterRefines ==
  ASSUME TypeOK, SharedInv, Overlap, NEW c \in Caller,
         pc[c] \in Flushing, NEW at \in Flushing, pc' = [pc EXCEPT ![c] = at],
         UNCHANGED <<mem, now, store, answer>>
  PROVE  /\ Phase' = Phase /\ c \in Running /\ UNCHANGED <<alone, period>>
         /\ Contents(file'["target"]) = Contents(file["target"])
               => UNCHANGED Shared!vars
<1>1. Phase' = Phase
  <2>1. Phase' = [Phase EXCEPT ![c] = "saving"]
    BY PhaseChange DEF PhaseAt, Flushing, Writing
  <2>2. Phase[c] = "saving"
    BY DEF Phase, PhaseAt, Flushing, Writing
  <2> QED
    BY <2>1, <2>2 DEF Phase
<1>2. Running' = Running /\ c \in Running
  BY DEF Running, Flushing, Writing, TypeOK
<1>3. UNCHANGED <<alone, period>>
  BY <1>2, CallsGoOn
<1> QED
  BY <1>1, <1>2, <1>3 DEF Shared!vars

-----------------------------------------------------------------------------
(* The steps, by action.                                                    *)

(* The calls of the host.                                                   *)
LEMMA SharedCalls ==
  ASSUME TypeOK, SharedInv, Overlap, NEW c \in Caller, Call(c)
  PROVE  Shared!Next
<1>1. ASSUME NEW m \in Mutations, Mutate(c, m) PROVE Shared!Next
  <2>1. Shared!Begin(c, Apply(mem, m), "saving", "ok")
    BY <1>1, BeginRefines DEF Mutate, PhaseAt
  <2> QED
    BY <2>1, SharedOperators DEF Shared!Next, Shared!Mutate
<1>2. ASSUME NEW k \in PreAuthKeyId, Consume(c, k) PROVE Shared!Next
  <2>1. CASE Consumable(mem, k, now)
    <3>1. Shared!Begin(c, Consumed(mem, k), "saving", "true")
      BY <1>2, <2>1, BeginRefines DEF Consume, PhaseAt
    <3> QED
      BY <2>1, <3>1, SharedOperators DEF Shared!Next, Shared!Redeem
  <2>2. CASE ~Consumable(mem, k, now)
    <3>1. Shared!Reply(c, "false")
      BY <1>2, <2>2, ReplyRefines DEF Consume
    <3> QED
      BY <2>2, <3>1, SharedOperators DEF Shared!Next, Shared!Redeem
  <2> QED
    BY <2>1, <2>2
<1>3. CASE Flush(c)
  <2>1. Shared!Begin(c, mem, "saving", "ok")
    BY <1>3, BeginRefines DEF Flush, memory, PhaseAt
  <2> QED
    BY <2>1 DEF Shared!Next, Shared!Save
<1>4. CASE LoadMissing(c)
  <2>1. Shared!Reply(c, "ok") /\ Contents(file["target"]) = None
    BY <1>4, ReplyRefines, ContentsType DEF LoadMissing, memory
  <2> QED
    BY <2>1 DEF Shared!Next, Shared!Load
<1>5. CASE LoadReads(c)
  <2>1. Shared!Begin(c, mem, "loading", "ok")
    BY <1>5, BeginRefines DEF LoadReads, memory, PhaseAt
  <2>2. Contents(file["target"]) \notin {None, Unreadable}
    BY <1>5, ContentsType DEF LoadReads, SharedInv
  <2> QED
    BY <2>1, <2>2 DEF Shared!Next, Shared!Load
<1>6. CASE LoadFails(c)
  <2>1. Shared!Reply(c, "err")
    BY <1>6, ReplyRefines DEF LoadFails, memory
  <2> QED
    BY <2>1 DEF Shared!Next, Shared!Load
<1> QED
  BY <1>1, <1>2, <1>3, <1>4, <1>5, <1>6 DEF Call

(* Before the rename a flush that is alone does not show; one that is not   *)
(* may be writing to the target already.                                    *)
LEMMA SharedFlushes ==
  ASSUME TypeOK, SoloInv, SharedInv, Overlap, NEW c \in Caller,
         Snapshot(c) \/ CreateTmp(c) \/ WriteTmp(c)
  PROVE  [Shared!Next]_Shared!vars
<1>1. CASE Snapshot(c)
  BY <1>1, StutterRefines DEF Snapshot, memory, Flushing
<1>2. CASE CreateTmp(c)
  <2>1. file'["target"] = file["target"]
    BY <1>2 DEF CreateTmp, TmpName, TypeOK, Name
  <2> QED
    BY <1>2, <2>1, StutterRefines DEF CreateTmp, memory, Flushing, Writing
<1>3. CASE WriteTmp(c)
  <2>1. /\ Contents(file'["target"]) \in period \cup {None, Unreadable}
        /\ fd[c] = "tmp" => file'["target"] = file["target"]
    BY <1>3, SnapshotIsWritten, WrittenOfPeriod DEF WriteTmp
  <2>2. /\ Phase' = Phase /\ c \in Running /\ UNCHANGED <<alone, period>>
        /\ Contents(file'["target"]) = Contents(file["target"])
              => UNCHANGED Shared!vars
    BY <1>3, StutterRefines DEF WriteTmp, memory, Flushing, Writing
  <2>3. CASE Contents(file'["target"]) = Contents(file["target"])
    BY <2>2, <2>3
  <2>4. CASE Contents(file'["target"]) # Contents(file["target"])
    <3>1. c \notin alone
      BY <1>3, <2>1, <2>4 DEF WriteTmp, SharedInv, AloneInv, SoloInv, Writing
    <3>2. Contents(file'["target"]) # None
      <4>1. file'["target"] # None
        <5>1. CASE fd[c] = "unlinked"
          BY <1>3, <2>4, <5>1 DEF WriteTmp, Written
        <5>2. CASE fd[c] # "unlinked"
          <6>1. PICK f \in Overwritten(file[fd[c]],
                                       [doc |-> snap[c], format |-> format]) :
                   file' = [file EXCEPT ![fd[c]] = f]
            BY <1>3, <5>2 DEF WriteTmp, Written
          <6>2. [doc |-> snap[c], format |-> format] \in Image
            BY DEF TypeOK, Image
          <6>3. f # None
            BY <6>1, <6>2, FileAssumption DEF Overwritten
          <6> QED
            BY <2>1, <2>4, <5>2, <6>1, <6>3 DEF TypeOK, Name
        <5> QED
          BY <5>1, <5>2
      <4> QED
        BY <4>1, ContentsType
    <3>3. Shared!Interfere(c)
      <4>1. Phase[c] = "saving"
        BY <1>3 DEF WriteTmp, Phase, PhaseAt
      <4> QED
        BY <1>3, <2>1, <2>2, <3>1, <3>2, <4>1
        DEF Shared!Interfere, WriteTmp, memory
    <3> QED
      BY <3>3 DEF Shared!Next
  <2> QED
    BY <2>3, <2>4
<1> QED
  BY <1>1, <1>2, <1>3

(* Ok commits at the rename: the memory, if the call was alone.             *)
LEMMA SharedRename ==
  ASSUME TypeOK, ClosedIdle, SoloInv, SharedInv, Overlap, NEW c \in Caller,
         Rename(c)
  PROVE  Shared!Commit(c)
<1>1. /\ pc[c] = "rename" /\ Return(c, answer[c]) /\ c \in Running
      /\ UNCHANGED <<mem, now, store>>
  BY DEF Rename, memory, Running
<1>2. mem \in period
  BY <1>1 DEF SharedInv, PeriodInv
<1>3. Shared!Finish(c, answer[c])
  BY <1>1, <1>2, EndRefines
<1>4. file'["target"] = file["tmp"] /\ file["tmp"] # None
  BY DEF Rename, TypeOK, Name
<1>5. CASE c \in alone
  <2>1. file["tmp"] = [doc |-> mem, format |-> Extension]
    BY <1>1, <1>5 DEF SharedInv, AloneInv, SoloInv, Writing
  <2>2. Contents(file'["target"]) = mem
    BY <1>4, <2>1, ContentsOfSnapshot DEF TypeOK
  <2> QED
    BY <1>1, <1>3, <1>5, <2>2 DEF Shared!Commit, Phase, PhaseAt
<1>6. CASE c \notin alone
  <2>1. Contents(file'["target"]) \in period \cup {Unreadable}
    BY <1>1, <1>4, ContentsType DEF SharedInv, PeriodInv, Writing
  <2> QED
    BY <1>1, <1>3, <1>6, <2>1 DEF Shared!Commit, Phase, PhaseAt
<1> QED
  BY <1>5, <1>6

(* An error, or a dropped future, aborts: the disk is as it was, unless the *)
(* write that failed was to a target that another flush had renamed.        *)
LEMMA SharedFailure ==
  ASSUME TypeOK, SoloInv, SharedInv, Overlap, NEW c \in Caller,
         WriteFails(c) \/ FlushFails(c) \/ Cancel(c)
  PROVE  Shared!Abort(c)
<1>1. PICK a \in {"err", "none"} : Return(c, a)
  BY DEF WriteFails, FlushFails, Cancel, Failure
<1>2. pc[c] # "idle" /\ c \in Running /\ UNCHANGED <<mem, now, store>>
  BY DEF WriteFails, FlushFails, Cancel, memory, Running
<1>3. mem \in period
  BY <1>2 DEF SharedInv, PeriodInv
<1>4. Shared!Finish(c, a)
  BY <1>1, <1>2, <1>3, EndRefines
<1>5. Contents(file'["target"]) \in
         IF c \in alone THEN {Contents(file["target"])}
         ELSE {Contents(file["target"]), Unreadable}
  <2>1. CASE FlushFails(c) \/ Cancel(c)
    BY <2>1 DEF FlushFails, Cancel
  <2>2. CASE WriteFails(c) /\ fd[c] # "target"
    <3>1. file'["target"] = file["target"]
      BY <2>2 DEF WriteFails, Written, TypeOK, Name
    <3> QED
      BY <3>1
  <2>3. CASE WriteFails(c) /\ fd[c] = "target"
    <3>1. c \notin alone
      BY <2>3 DEF WriteFails, SharedInv, AloneInv, SoloInv, Writing
    <3>2. file'["target"] \in {file["target"], Torn}
      BY <2>3 DEF WriteFails, Written, TypeOK, Name
    <3>3. Contents(Torn) = Unreadable
      BY FileAssumption, ContentsType, ContentsOfRemains
    <3> QED
      BY <3>1, <3>2, <3>3
  <2> QED
    BY <2>1, <2>2, <2>3
<1> QED
  BY <1>2, <1>4, <1>5, SharedOperators DEF Shared!Abort

(* A load that was alone installs what is on disk.                          *)
LEMMA SharedReplace ==
  ASSUME TypeOK, SharedInv, Overlap, NEW c \in Caller, Replace(c)
  PROVE  Shared!Loaded(c)
<1>1. /\ pc[c] = "replace" /\ Return(c, answer[c]) /\ c \in Running
      /\ mem' = snap[c] /\ UNCHANGED <<now, store, file>>
  BY DEF Replace, Running
<1>2. snap[c] \in period
  BY <1>1 DEF SharedInv, PeriodInv
<1>3. Shared!Finish(c, answer[c])
  BY <1>1, <1>2, EndRefines
<1>4. c \in alone => snap[c] = Contents(file["target"])
  BY <1>1 DEF SharedInv, AloneInv
<1> QED
  BY <1>1, <1>2, <1>3, <1>4 DEF Shared!Loaded, Phase, PhaseAt

(* A crash cuts the target only where calls overlapped.                     *)
LEMMA SharedCrash ==
  ASSUME TypeOK, ClosedIdle, SoloInv, SharedInv, Overlap, Crash
  PROVE  Shared!Crash
<1>1. Running' = {}
  BY DEF Crash, Running
<1>2. alone' = {} /\ period' = {}
  BY <1>1 DEF Overlap
<1>3. Phase' = [c \in Caller |-> "ready"]
  BY DEF Crash, Phase, PhaseAt
<1>4. Contents(file'["target"]) \in
         IF Running \subseteq alone THEN {Contents(file["target"])}
         ELSE {Contents(file["target"]), Unreadable}
  <2>1. PICK cut \in SUBSET {c \in Caller : pc[c] = "write"} :
           file' = [n \in Name |->
                       IF \E c \in cut : fd[c] = n THEN Torn ELSE file[n]]
    BY DEF Crash
  <2>2. CASE \E c \in cut : fd[c] = "target"
    <3>1. PICK c \in cut : fd[c] = "target"
      BY <2>2
    <3>2. c \in Running /\ c \notin alone
      BY <3>1 DEF Running, SharedInv, AloneInv, SoloInv, Writing
    <3>3. Contents(file'["target"]) = Unreadable
      BY <2>1, <2>2, FileAssumption, ContentsType, ContentsOfRemains DEF Name
    <3> QED
      BY <3>2, <3>3
  <2>3. CASE ~\E c \in cut : fd[c] = "target"
    <3>1. file'["target"] = file["target"]
      BY <2>1, <2>3 DEF Name
    <3> QED
      BY <3>1
  <2> QED
    BY <2>2, <2>3
<1> QED
  BY <1>2, <1>3, <1>4, SharedOperators DEF Crash, Shared!Crash

(* A restart reads what is on disk.                                         *)
LEMMA SharedOpen ==
  ASSUME TypeOK, ClosedIdle, SharedInv, Overlap, Open
  PROVE  Shared!Restart
<1>1. Running = {} /\ Running' = {}
  BY DEF Open, calls, ClosedIdle, Running
<1>2. UNCHANGED <<alone, period>>
  BY <1>1 DEF Overlap, SharedInv
<1>3. Phase' = Phase
  BY DEF Open, calls, Phase
<1>4. /\ Contents(file["target"]) # Unreadable
      /\ mem' = IF Contents(file["target"]) = None THEN NewDocument
                ELSE Contents(file["target"])
  BY ContentsType DEF Open
<1> QED
  BY <1>2, <1>3, <1>4, SharedOperators DEF Open, Shared!Restart, calls

(* However calls overlap, fail or die, FileStore (file.rs) with the format  *)
(* of its path keeps the promise of SharedStore, for any number of callers. *)
THEOREM FileStoreIsShared == SharedSpec => ImplementsSharedStore
<1>1. SharedInit => SharedInv
  BY SharedAssumption
  DEF SharedInit, Init, SharedInv, AloneInv, PeriodInv, Running
<1>2. SharedInit => Shared!Init
  <2> SUFFICES ASSUME SharedInit PROVE Shared!Init
    OBVIOUS
  <2>1. \E f \in InitialFiles : file["target"] = f
    BY DEF SharedInit, Init, Name
  <2>2. Phase = [c \in Caller |-> "ready"]
    BY DEF SharedInit, Init, Phase, PhaseAt
  <2> QED
    BY <2>1, <2>2, SharedOperators DEF SharedInit, Init, Shared!Init
<1>3. TypeOK /\ ClosedIdle /\ SoloInv /\ SharedInv /\ [SharedNext]_sharedVars
         => [Shared!Next]_Shared!vars
  <2> SUFFICES ASSUME TypeOK, ClosedIdle, SoloInv, SharedInv,
                      [SharedNext]_sharedVars
               PROVE  [Shared!Next]_Shared!vars
    OBVIOUS
  <2>1. CASE UNCHANGED sharedVars
    BY <2>1 DEF sharedVars, vars, Shared!vars, Phase
  <2>2. CASE SharedNext
    <3>1. Next /\ Overlap
      BY <2>2 DEF SharedNext
    <3>2. ASSUME NEW c \in Caller, Call(c) PROVE Shared!Next
      BY <3>1, <3>2, SharedCalls
    <3>3. ASSUME NEW c \in Caller, FlushStep(c) \/ Replace(c) \/ Cancel(c)
          PROVE  [Shared!Next]_Shared!vars
      <4>1. CASE Rename(c)
        BY <3>1, <4>1, SharedRename DEF Shared!Next
      <4>2. CASE WriteFails(c) \/ FlushFails(c) \/ Cancel(c)
        BY <3>1, <4>2, SharedFailure DEF Shared!Next
      <4>3. CASE Replace(c)
        BY <3>1, <4>3, SharedReplace DEF Shared!Next
      <4> QED
        BY <3>1, <3>3, <4>1, <4>2, <4>3, SharedFlushes DEF FlushStep
    <3>4. CASE Open
      BY <3>1, <3>4, SharedOpen DEF Shared!Next
    <3>5. CASE OpenFails
      <4>1. Running = {} /\ Running' = {}
        BY <3>5 DEF OpenFails, calls, ClosedIdle, Running
      <4>2. UNCHANGED <<alone, period>>
        BY <3>1, <4>1 DEF Overlap, SharedInv
      <4> QED
        BY <3>5, <4>2 DEF OpenFails, memory, calls, Shared!vars, Phase
    <3>6. CASE Crash
      BY <3>1, <3>6, SharedCrash DEF Shared!Next
    <3>7. CASE Tick
      <4>1. UNCHANGED <<alone, period>>
        BY <3>1, <3>7, CallsGoOn DEF Tick, calls, Running
      <4>2. Shared!Tick
        BY <3>7, <4>1 DEF Tick, calls, Shared!Tick, Phase
      <4> QED
        BY <4>2 DEF Shared!Next
    <3> QED
      BY <3>1, <3>2, <3>3, <3>4, <3>5, <3>6, <3>7 DEF Next
  <2> QED
    BY <2>1, <2>2
<1> QED
  BY <1>1, <1>2, <1>3, SharedInvNext, SharedImpliesSpec, TypeCorrect,
     ClosedIsIdle, SoloHolds, PTL
  DEF SharedSpec, ImplementsSharedStore, Shared!Spec
================================================================================
