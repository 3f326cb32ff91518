---------------------------- MODULE SerialStoreProofs ----------------------------
(***************************************************************************)
(* A FileStore with one caller, whose format is that of its path,          *)
(* implements DurableStore, for every set of ids, mutations and files, and *)
(* whatever fails, is dropped, loads or crashes.                           *)
(***************************************************************************)
EXTENDS FileStoreProofs

(* What the single caller's progress says of the files and of its snapshot. *)
SerialInv(c) ==
    /\ format = Extension
    /\ solo[c]
    /\ pc[c] \in {"create", "write", "rename"} => snap[c] = mem
    /\ pc[c] = "replace" =>
          /\ Parses(Extension, file["target"])
          /\ snap[c] = file["target"].doc

(* A caller that is alone is alone in the file window.                      *)
LEMMA SerialReturns ==
  ASSUME TypeOK, NEW c \in Caller, SerialInv(c), NEW a, Return(c, a),
         format' = format
  PROVE  SerialInv(c)'
  BY DEF SerialInv, Return, TypeOK

(* One caller: every step keeps it.                                         *)
LEMMA SerialNext ==
  ASSUME NEW c, Caller = {c}, WithFormat = {Extension},
         TypeOK, ClosedIdle, SoloInv, SerialInv(c), [Next]_vars
  PROVE  SerialInv(c)'
<1> USE DEF SerialInv
<1>1. CASE Call(c)
  <2>1. ASSUME NEW m \in Mutations, Mutate(c, m) PROVE SerialInv(c)'
    BY <2>1 DEF Mutate, Start, TypeOK
  <2>2. ASSUME NEW k \in PreAuthKeyId, Consume(c, k) PROVE SerialInv(c)'
    <3>1. CASE Consumable(mem, k, now)
      BY <2>2, <3>1 DEF Consume, Start, TypeOK
    <3>2. CASE ~Consumable(mem, k, now)
      BY <2>2, <3>2 DEF Consume, Idle
    <3> QED
      BY <3>1, <3>2
  <2>3. CASE Flush(c) \/ LoadReads(c)
    BY <2>3 DEF Flush, LoadReads, Start, TypeOK
  <2>4. CASE LoadMissing(c) \/ LoadFails(c)
    BY <2>4 DEF LoadMissing, LoadFails, Idle
  <2> QED
    BY <1>1, <2>1, <2>2, <2>3, <2>4 DEF Call
<1>2. CASE FlushStep(c)
  <2>1. CASE Snapshot(c)
    BY <2>1 DEF Snapshot, memory, TypeOK
  <2>2. CASE CreateTmp(c)
    BY <2>2 DEF CreateTmp, memory, TypeOK
  <2>3. CASE WriteTmp(c)
    BY <2>3 DEF WriteTmp, memory, TypeOK
  <2>4. CASE Rename(c) \/ WriteFails(c) \/ FlushFails(c)
    BY <2>4, SerialReturns DEF Rename, WriteFails, FlushFails
  <2> QED
    BY <1>2, <2>1, <2>2, <2>3, <2>4 DEF FlushStep
<1>3. CASE Replace(c) \/ Cancel(c)
  BY <1>3, SerialReturns DEF Replace, Cancel
<1>4. CASE Open
  BY <1>4 DEF Open, calls, ClosedIdle
<1>5. CASE OpenFails \/ Tick \/ UNCHANGED vars
  BY <1>5 DEF OpenFails, Tick, calls, vars, ClosedIdle
<1>6. CASE Crash
  BY <1>6 DEF Crash
<1> QED
  BY <1>1, <1>2, <1>3, <1>4, <1>5, <1>6 DEF Next

-----------------------------------------------------------------------------
(* The refinement mapping, for the one caller c.                            *)

(* Its answer is the only one, and its pc gives the phase.                  *)
PhaseOf(c) ==
    IF store # "open" THEN "down"
    ELSE IF pc[c] \in Flushing THEN "saving"
    ELSE IF pc[c] = "replace" THEN "loading"
    ELSE "ready"

(* What the mapping comes to for the one caller.                            *)
LEMMA Mapping ==
  ASSUME NEW c, Caller = {c}
  PROVE  /\ (CHOOSE d \in Caller : TRUE) = c
         /\ DurablePhase = PhaseOf(c)
         /\ DurablePhase' = PhaseOf(c)'
  BY DEF DurablePhase, PhaseOf, Busy

(* A readable file is a document on disk, any other one is none.            *)
LEMMA ReadableType ==
  ASSUME NEW content
  PROVE  /\ Parses(Extension, content) =>
               Readable(content) = content.doc /\ Readable(content) # None
         /\ ~Parses(Extension, content) => Readable(content) = None
<1>1. ASSUME Parses(Extension, content) PROVE content.doc # None
  BY <1>1, ImageType, FormatAssumption, DocumentAssumption
<1> QED
  BY <1>1 DEF Readable

(* DurableStore means by a mutation and by redeeming what FileStore means.  *)
LEMMA SameOperators ==
  /\ Durable!NewDocument = NewDocument
  /\ \A m : Durable!Apply(mem, m) = Apply(mem, m)
  /\ \A k : /\ Durable!Consumable(mem, k, now) <=> Consumable(mem, k, now)
            /\ Durable!Consumed(mem, k) = Consumed(mem, k)
<1>1. Durable!NewDocument = NewDocument
  BY DEF Durable!NewDocument, NewDocument
<1>2. \A m : Durable!Apply(mem, m) = Apply(mem, m)
  BY DEF Durable!Apply, Apply
<1>3. \A k : /\ Durable!Consumable(mem, k, now) <=> Consumable(mem, k, now)
             /\ Durable!Consumed(mem, k) = Consumed(mem, k)
  BY DEF Durable!Consumable, Consumable, Durable!Unexpired, Unexpired,
     Durable!Consumed, Consumed
<1> QED
  BY <1>1, <1>2, <1>3

(* The calls of the host are Mutate, Redeem, Refuse, Save and Load.         *)
LEMMA CallRefines ==
  ASSUME NEW c, Caller = {c}, TypeOK, SerialInv(c), Call(c)
  PROVE  Durable!Next
<1> USE Mapping DEF Idle, Start, PhaseOf, Flushing, Writing, TypeOK, memory
<1>1. ASSUME NEW m \in Mutations, Mutate(c, m) PROVE Durable!Next
  <2>1. Durable!Begin(Durable!Apply(mem, m), "ok")
    BY <1>1, SameOperators DEF Mutate, Durable!Begin
  <2> QED
    BY <2>1 DEF Durable!Next, Durable!Mutate
<1>2. ASSUME NEW k \in PreAuthKeyId, Consume(c, k) PROVE Durable!Next
  <2>1. CASE Consumable(mem, k, now)
    <3>1. Durable!Begin(Durable!Consumed(mem, k), "true")
      BY <1>2, <2>1, SameOperators DEF Consume, Durable!Begin
    <3> QED
      BY <2>1, <3>1, SameOperators DEF Durable!Next, Durable!Redeem
  <2>2. CASE ~Consumable(mem, k, now)
    <3>1. Durable!Refuse
      BY <1>2, <2>2, SameOperators DEF Consume, Durable!Refuse
    <3> QED
      BY <3>1 DEF Durable!Next
  <2> QED
    BY <2>1, <2>2
<1>3. CASE Flush(c)
  <2>1. Durable!Save
    BY <1>3 DEF Flush, Durable!Save, Durable!Begin
  <2> QED
    BY <2>1 DEF Durable!Next
<1>4. CASE LoadMissing(c)
  <2>1. Readable(file["target"]) = None
    BY <1>4, FileAssumption DEF LoadMissing, Readable, Parses
  <2>2. Durable!Load
    BY <1>4, <2>1 DEF LoadMissing, Durable!Load
  <2> QED
    BY <2>2 DEF Durable!Next
<1>5. CASE LoadReads(c)
  <2>1. Readable(file["target"]) # None
    BY <1>5, ReadableType DEF LoadReads, SerialInv
  <2>2. Durable!Load
    BY <1>5, <2>1 DEF LoadReads, Durable!Load
  <2> QED
    BY <2>2 DEF Durable!Next
<1>6. CASE LoadFails(c)
  <2>1. Durable!Load
    BY <1>6 DEF LoadFails, Durable!Load
  <2> QED
    BY <2>1 DEF Durable!Next
<1> QED
  BY <1>1, <1>2, <1>3, <1>4, <1>5, <1>6 DEF Call

(* Ok commits at the rename, an error aborts, what comes before is hidden.  *)
LEMMA FlushStepRefines ==
  ASSUME NEW c, Caller = {c}, TypeOK, ClosedIdle, SoloInv, SerialInv(c),
         FlushStep(c)
  PROVE  [Durable!Next]_Durable!vars
<1>1. store = "open" /\ pc[c] \in Flushing /\ UNCHANGED <<mem, now, store>>
  BY DEF ClosedIdle, FlushStep, Snapshot, CreateTmp, WriteTmp, Rename,
     WriteFails, FlushFails, Flushing, Writing, memory
<1>2. DurablePhase = "saving"
  BY <1>1, Mapping DEF PhaseOf
<1>3. fd[c] = "tmp"
  BY <1>1 DEF SoloInv, SerialInv, Writing
<1>4. CASE Snapshot(c) \/ CreateTmp(c) \/ WriteTmp(c)
  <2>1. answer' = answer /\ file'["target"] = file["target"]
    <3>1. file \in [Name -> File] /\ fd[c] # "unlinked"
      BY <1>3 DEF TypeOK
    <3>2. CASE Snapshot(c)
      BY <3>2 DEF Snapshot
    <3>3. CASE CreateTmp(c)
      BY <3>1, <3>3 DEF CreateTmp, TmpName, Name
    <3>4. CASE WriteTmp(c)
      BY <1>3, <3>1, <3>4 DEF WriteTmp, Written, Name
    <3> QED
      BY <1>4, <3>2, <3>3, <3>4
  <2>2. pc'[c] \in Flushing
    BY <1>4 DEF Snapshot, CreateTmp, WriteTmp, Flushing, Writing, TypeOK
  <2>3. DurablePhase' = "saving"
    BY <1>1, <2>2, Mapping DEF PhaseOf
  <2> QED
    BY <1>1, <1>2, <2>1, <2>3, Mapping DEF Durable!vars, Readable
<1>5. CASE Rename(c)
  <2>1. file["tmp"] = [doc |-> mem, format |-> Extension]
    BY <1>5 DEF Rename, SoloInv, SerialInv, Writing
  <2>2. file'["target"] = [doc |-> mem, format |-> Extension]
    BY <1>5, <2>1 DEF Rename, TypeOK, Name
  <2>3. Parses(Extension, file'["target"]) /\ file'["target"].doc = mem
    BY <2>2, FormatAssumption DEF Parses, Image, TypeOK
  <2>4. pc'[c] = "idle" /\ answer' = answer
    BY <1>5 DEF Rename, Return, TypeOK
  <2>5. DurablePhase' = "ready"
    BY <1>1, <2>4, Mapping DEF PhaseOf, Flushing, Writing
  <2>6. Durable!Commit
    BY <1>1, <1>2, <2>3, <2>4, <2>5 DEF Durable!Commit, Readable
  <2> QED
    BY <2>6 DEF Durable!Next
<1>6. CASE WriteFails(c) \/ FlushFails(c)
  <2>1. file'["target"] = file["target"]
    BY <1>3, <1>6 DEF WriteFails, FlushFails, Written, TypeOK, Name
  <2>2. pc'[c] = "idle" /\ answer'[c] = "err"
    BY <1>6 DEF WriteFails, FlushFails, Failure, Return, TypeOK
  <2>3. DurablePhase' = "ready"
    BY <1>1, <2>2, Mapping DEF PhaseOf, Flushing, Writing
  <2>4. Durable!Abort
    BY <1>1, <1>2, <2>1, <2>2, <2>3, Mapping DEF Durable!Abort, Readable
  <2> QED
    BY <2>4 DEF Durable!Next
<1> QED
  BY <1>4, <1>5, <1>6 DEF FlushStep

(* What is left of a load or of a dropped call, and the process's steps.    *)
LEMMA ProcessRefines ==
  ASSUME NEW c, Caller = {c}, TypeOK, ClosedIdle, SoloInv, SerialInv(c),
         Replace(c) \/ Cancel(c) \/ Open \/ OpenFails \/ Crash \/ Tick
  PROVE  [Durable!Next]_Durable!vars
<1> USE Mapping DEF PhaseOf, Flushing, Writing, memory, calls, history
<1>1. ASSUME Replace(c) \/ Cancel(c) PROVE store = "open"
  BY <1>1 DEF Replace, Cancel, ClosedIdle
<1>2. CASE Replace(c)
  <2>1. Readable(file["target"]) = snap[c]
    BY <1>2, ReadableType DEF Replace, SerialInv
  <2>2. pc'[c] = "idle" /\ answer' = answer
    BY <1>2 DEF Replace, Return, TypeOK
  <2>3. Durable!Loaded
    BY <1>1, <1>2, <2>1, <2>2 DEF Durable!Loaded, Replace, Readable
  <2> QED
    BY <2>3 DEF Durable!Next
<1>3. CASE Cancel(c)
  <2>1. pc'[c] = "idle" /\ answer'[c] = "none"
    BY <1>3 DEF Cancel, Return, TypeOK
  <2>2. Durable!Abort
    BY <1>1, <1>3, <2>1 DEF Durable!Abort, Cancel, Readable
  <2> QED
    BY <2>2 DEF Durable!Next
<1>4. CASE Open
  <2>1. pc[c] = "idle" /\ store # "open"
    BY <1>4 DEF Open, ClosedIdle
  <2>2. mem' = Durable!OnDisk
    <3>1. CASE Parses(Extension, file["target"])
      BY <1>4, <3>1, ReadableType, FileAssumption
      DEF Open, Durable!OnDisk, Parses
    <3>2. CASE ~Parses(Extension, file["target"])
      BY <1>4, <3>2, ReadableType, SameOperators DEF Open, Durable!OnDisk
    <3> QED
      BY <3>1, <3>2
  <2>3. Durable!Restart
    BY <1>4, <2>1, <2>2 DEF Open, Durable!Restart, Readable
  <2> QED
    BY <2>3 DEF Durable!Next
<1>5. CASE OpenFails
  BY <1>5 DEF OpenFails, Durable!vars, Readable
<1>6. CASE Tick
  <2>1. Durable!Tick
    BY <1>6 DEF Tick, Durable!Tick, Readable, Busy, DurablePhase
  <2> QED
    BY <2>1 DEF Durable!Next
<1>7. CASE Crash
  <2>1. file'["target"] = file["target"]
    <3>1. PICK cut \in SUBSET {d \in Caller : pc[d] = "write"} :
             file' = [n \in Name |->
                         IF \E d \in cut : fd[d] = n THEN Torn ELSE file[n]]
      BY <1>7 DEF Crash
    <3>2. \A d \in cut : fd[d] = "tmp"
      BY DEF SoloInv, SerialInv
    <3> QED
      BY <3>1, <3>2 DEF Name
  <2>2. answer'[c] = "none"
    BY <1>7 DEF Crash
  <2>3. Durable!Crash
    BY <1>7, <2>1, <2>2, SameOperators DEF Crash, Durable!Crash, Readable
  <2> QED
    BY <2>3 DEF Durable!Next
<1> QED
  BY <1>2, <1>3, <1>4, <1>5, <1>6, <1>7

(* One caller and one format: FileStore (file.rs) keeps the promise of      *)
(* DurableStore, whatever fails, is dropped, loads or crashes.              *)
THEOREM SerialStoreIsDurable ==
  ASSUME NEW c, Caller = {c}, WithFormat = {Extension}
  PROVE  Spec => ImplementsDurableStore
<1>1. Init => SerialInv(c) /\ SoloInv
  BY DEF Init, SerialInv, SoloInv, Writing
<1>2. Init => Durable!Init
  <2> SUFFICES ASSUME Init PROVE Durable!Init
    OBVIOUS
  <2>1. \E f \in InitialFiles : file["target"] = f
    BY DEF Init, Name
  <2>2. DurablePhase = "down"
    BY DEF Init, DurablePhase
  <2>3. answer[CHOOSE d \in Caller : TRUE] = "none"
    BY Mapping DEF Init
  <2> QED
    BY <2>1, <2>2, <2>3, SameOperators DEF Init, Durable!Init
<1>3. TypeOK /\ ClosedIdle /\ SoloInv /\ SerialInv(c) /\ [Next]_vars
         => SerialInv(c)'
  BY SerialNext
<1>4. TypeOK /\ ClosedIdle /\ SoloInv /\ SerialInv(c) /\ [Next]_vars
         => [Durable!Next]_Durable!vars
  <2> SUFFICES ASSUME TypeOK, ClosedIdle, SoloInv, SerialInv(c), [Next]_vars
               PROVE  [Durable!Next]_Durable!vars
    OBVIOUS
  <2>1. CASE UNCHANGED vars
    BY <2>1 DEF vars, Durable!vars, DurablePhase, Busy, Readable
  <2>2. CASE Call(c)
    BY <2>2, CallRefines
  <2>3. CASE FlushStep(c)
    BY <2>3, FlushStepRefines
  <2>4. CASE Replace(c) \/ Cancel(c) \/ Open \/ OpenFails \/ Crash \/ Tick
    BY <2>4, ProcessRefines
  <2> QED
    BY <2>1, <2>2, <2>3, <2>4 DEF Next
<1> QED
  BY <1>1, <1>2, <1>3, <1>4, TypeCorrect, ClosedIsIdle, SoloNext, PTL
  DEF Spec, ImplementsDurableStore, Durable!Spec

-----------------------------------------------------------------------------
(* A redemption outlives the process.                                       *)

Used(doc, k) == doc.preauth_keys[k] # None /\ doc.preauth_keys[k].used

(* Whatever may come back into memory has the redeemed keys used: of the    *)
(* memory alone nothing follows about a restart.                            *)
RedeemedInv(c) ==
    /\ RedeemedStaysUsed
    /\ None \notin redeemed
    /\ \A k \in redeemed :
          /\ Parses(Extension, file["target"])
          /\ Used(file["target"].doc, k)
    /\ grant[c] # None => pc[c] \in Flushing

(* Redeeming a key leaves no key less used, and a single-use one used.      *)
LEMMA ConsumedKeepsUsed ==
  ASSUME NEW doc \in Document, NEW k \in PreAuthKeyId,
         doc.preauth_keys[k] # None
  PROVE  /\ \A x \in PreAuthKeyId : Used(doc, x) => Used(Consumed(doc, k), x)
         /\ ~doc.preauth_keys[k].reusable => Used(Consumed(doc, k), k)
<1>1. doc.preauth_keys \in Table(PreAuthKeyId, PreAuthKey)
  BY DEF Document
<1>2. doc.preauth_keys[k] \in PreAuthKey
  BY <1>1 DEF Table
<1>3. CASE doc.preauth_keys[k].reusable
  BY <1>3 DEF Consumed
<1>4. CASE ~doc.preauth_keys[k].reusable
  <2> DEFINE flipped == [doc.preauth_keys[k] EXCEPT !.used = TRUE]
  <2>1. flipped.used /\ flipped \in PreAuthKey
    BY <1>2 DEF PreAuthKey
  <2>2. flipped # None
    BY <2>1, RowAssumption
  <2>3. Consumed(doc, k).preauth_keys = [doc.preauth_keys EXCEPT ![k] = flipped]
    BY <1>4 DEF Consumed, Document
  <2>4. /\ Consumed(doc, k).preauth_keys[k] = flipped
        /\ \A x \in PreAuthKeyId \ {k} :
              Consumed(doc, k).preauth_keys[x] = doc.preauth_keys[x]
    BY <1>1, <2>3 DEF Table
  <2> QED
    BY <2>1, <2>2, <2>4 DEF Used
<1> QED
  BY <1>3, <1>4

(* An answered or dropped call redeems at most the key it was granted, and  *)
(* only with Ok(true).                                                      *)
LEMMA RedeemedAfterReturn ==
  ASSUME TypeOK, NEW c \in Caller, NEW a, Return(c, a)
  PROVE  /\ grant'[c] = None /\ pc'[c] = "idle"
         /\ redeemed' \in {redeemed, redeemed \cup ({grant[c]} \ {None})}
         /\ a # "true" => redeemed' = redeemed
  BY DEF Return, TypeOK

(* A mutator, or a redemption, touches no redeemed key: an upsert of one    *)
(* issues it anew.                                                          *)
LEMMA RedeemedCall ==
  ASSUME NEW c, Caller = {c}, TypeOK, SerialInv(c), RedeemedInv(c), Call(c)
  PROVE  RedeemedInv(c)'
<1> USE DEF RedeemedInv, Idle, Start
<1>1. ASSUME NEW m \in Mutations, Mutate(c, m) PROVE RedeemedInv(c)'
  <2>1. m \in Mutation /\ store = "open" /\ store' = store /\ file' = file
    BY <1>1, MutationsAssumption DEF Mutate
  <2>2. grant[c] = None /\ grant'[c] = None /\ redeemed' \subseteq redeemed
    BY <1>1 DEF Mutate, history, Flushing, Writing
  <2>3. \A k \in redeemed' : mem'.preauth_keys[k] = mem.preauth_keys[k]
    <3>1. CASE m.op = "upsert_preauth_key"
      <4>1. \A k \in PreAuthKeyId \ {m.id} :
               mem'.preauth_keys[k] = mem.preauth_keys[k]
        BY <1>1, <3>1 DEF Mutate, Apply, TypeOK, Document, Table
      <4>2. redeemed' = redeemed \ {m.id}
        BY <1>1, <3>1 DEF Mutate
      <4> QED
        BY <4>1, <4>2 DEF TypeOK
    <3>2. CASE m.op # "upsert_preauth_key"
      BY <1>1, <2>1, <3>2
      DEF Mutate, Apply, TypeOK, Document, Mutation, RowMutation
    <3> QED
      BY <3>1, <3>2
  <2>4. RedeemedStaysUsed'
    BY <2>1, <2>2, <2>3 DEF RedeemedStaysUsed
  <2> QED
    BY <2>1, <2>2, <2>4
<1>2. ASSUME NEW k \in PreAuthKeyId, Consume(c, k) PROVE RedeemedInv(c)'
  <2>1. CASE ~Consumable(mem, k, now)
    BY <1>2, <2>1 DEF Consume, RedeemedStaysUsed
  <2>2. CASE Consumable(mem, k, now)
    <3>1. /\ store = "open" /\ UNCHANGED <<store, file, redeemed>>
          /\ pc'[c] = "snapshot"
          /\ grant'[c] = IF mem.preauth_keys[k].reusable THEN None ELSE k
      BY <1>2, <2>2 DEF Consume, TypeOK
    <3>2. mem' = Consumed(mem, k) /\ mem.preauth_keys[k] # None
      BY <1>2, <2>2 DEF Consume, Consumable
    <3>3. mem' \in Document
      BY <3>2, ConsumedType DEF TypeOK
    <3>4. \A x \in PreAuthKeyId : Used(mem, x) => Used(mem', x)
      BY <3>2, ConsumedKeepsUsed DEF TypeOK
    <3>5. ~mem.preauth_keys[k].reusable => Used(mem', k)
      BY <3>2, ConsumedKeepsUsed DEF TypeOK
    <3>6. RedeemedStaysUsed'
      <4> SUFFICES ASSUME NEW x \in redeemed \cup {grant'[c]}, x # None
                   PROVE  Used(mem', x)
        BY <3>1 DEF RedeemedStaysUsed, Used
      <4>1. CASE x \in redeemed
        BY <3>1, <3>4, <4>1 DEF RedeemedStaysUsed, Used, TypeOK
      <4>2. CASE x = grant'[c]
        BY <3>1, <3>5, <4>2
      <4> QED
        BY <4>1, <4>2
    <3> QED
      BY <3>1, <3>6 DEF Flushing
  <2> QED
    BY <2>1, <2>2
<1>3. CASE Flush(c) \/ LoadMissing(c) \/ LoadReads(c) \/ LoadFails(c)
  <2>1. UNCHANGED <<mem, store, file, grant, redeemed>>
    BY <1>3 DEF Flush, LoadMissing, LoadReads, LoadFails, memory, history
  <2>2. grant[c] = None
    BY <1>3 DEF Flush, LoadMissing, LoadReads, LoadFails, Flushing, Writing
  <2> QED
    BY <2>1, <2>2 DEF RedeemedStaysUsed
<1> QED
  BY <1>1, <1>2, <1>3 DEF Call

(* A flush that answers true has the redemption on disk; until it does the  *)
(* target is the one before.                                                *)
LEMMA RedeemedFlushStep ==
  ASSUME NEW c, Caller = {c}, TypeOK, ClosedIdle, SoloInv, SerialInv(c),
         RedeemedInv(c), FlushStep(c)
  PROVE  RedeemedInv(c)'
<1> USE DEF RedeemedInv
<1>1. /\ store = "open" /\ UNCHANGED <<mem, store>>
      /\ pc[c] \in Flushing
  BY DEF ClosedIdle, FlushStep, Snapshot, CreateTmp, WriteTmp, Rename,
     WriteFails, FlushFails, Flushing, Writing, memory
<1>2. fd[c] = "tmp"
  BY <1>1 DEF SoloInv, SerialInv, Writing
<1>3. CASE Snapshot(c) \/ CreateTmp(c) \/ WriteTmp(c)
  <2>1. UNCHANGED history /\ file'["target"] = file["target"]
    BY <1>2, <1>3
    DEF Snapshot, CreateTmp, WriteTmp, Written, TmpName, TypeOK, Name
  <2>2. pc'[c] \in Flushing
    BY <1>3 DEF Snapshot, CreateTmp, WriteTmp, Flushing, Writing, TypeOK
  <2> QED
    BY <1>1, <2>1, <2>2 DEF RedeemedStaysUsed, history
<1>4. CASE Rename(c)
  <2>1. file'["target"] = [doc |-> mem, format |-> Extension]
    BY <1>4 DEF Rename, SoloInv, SerialInv, Writing, TypeOK, Name
  <2>2. Parses(Extension, file'["target"]) /\ file'["target"].doc = mem
    BY <2>1, FormatAssumption DEF Parses, Image, TypeOK
  <2>3. \A k \in redeemed \cup {grant[c]} : k # None => Used(mem, k)
    BY <1>1 DEF RedeemedStaysUsed, Used
  <2>4. grant'[c] = None /\ redeemed' \subseteq redeemed \cup ({grant[c]} \ {None})
    BY <1>4, RedeemedAfterReturn DEF Rename
  <2>5. \A k \in redeemed' : k # None /\ Used(mem, k)
    BY <2>3, <2>4
  <2>6. RedeemedStaysUsed'
    BY <1>1, <2>4, <2>5 DEF RedeemedStaysUsed, Used
  <2> QED
    BY <2>2, <2>4, <2>5, <2>6
<1>5. CASE WriteFails(c) \/ FlushFails(c)
  <2>1. file'["target"] = file["target"]
    BY <1>2, <1>5 DEF WriteFails, FlushFails, Written, TypeOK, Name
  <2>2. grant'[c] = None /\ redeemed' = redeemed
    BY <1>5, RedeemedAfterReturn DEF WriteFails, FlushFails, Failure
  <2> QED
    BY <1>1, <2>1, <2>2 DEF RedeemedStaysUsed
<1> QED
  BY <1>3, <1>4, <1>5 DEF FlushStep

(* What comes back into memory comes from the target.                       *)
LEMMA RedeemedProcess ==
  ASSUME NEW c, Caller = {c}, TypeOK, ClosedIdle, SoloInv, SerialInv(c),
         RedeemedInv(c),
         Replace(c) \/ Cancel(c) \/ Open \/ OpenFails \/ Crash \/ Tick
  PROVE  RedeemedInv(c)'
<1> USE DEF RedeemedInv, RedeemedStaysUsed
<1>1. CASE Replace(c)
  <2>1. mem' = file["target"].doc /\ UNCHANGED <<store, file>>
    BY <1>1 DEF Replace, SerialInv
  <2>2. grant[c] = None
    BY <1>1 DEF Replace, Flushing, Writing
  <2>3. grant'[c] = None /\ redeemed' = redeemed
    BY <1>1, <2>2, RedeemedAfterReturn DEF Replace
  <2> QED
    BY <2>1, <2>3 DEF Used
<1>2. CASE Cancel(c)
  <2>1. grant'[c] = None /\ redeemed' = redeemed
    BY <1>2, RedeemedAfterReturn DEF Cancel
  <2> QED
    BY <1>2, <2>1 DEF Cancel, memory
<1>3. CASE Open
  <2>1. UNCHANGED <<file, pc, history>> /\ grant[c] = None
    BY <1>3 DEF Open, calls, ClosedIdle, Flushing, Writing
  <2>2. redeemed # {} => mem' = file["target"].doc
    BY <1>3, FileAssumption DEF Open, Parses
  <2> QED
    BY <2>1, <2>2 DEF history, Used
<1>4. CASE OpenFails \/ Tick
  BY <1>4 DEF OpenFails, Tick, memory, calls, history
<1>5. CASE Crash
  <2>1. file'["target"] = file["target"]
    BY <1>5 DEF Crash, SoloInv, SerialInv, Name
  <2> QED
    BY <1>5, <2>1 DEF Crash
<1> QED
  BY <1>1, <1>2, <1>3, <1>4, <1>5

(* With one caller a redeemed single-use key stays used until it is issued  *)
(* anew, also in the process that opens the store after a crash, after a    *)
(* load(), and whatever failed in between (consume_preauth_key and flush,   *)
(* file.rs): Ok(true) is answered when the redemption is on disk.           *)
THEOREM SerialRedemptionsSurviveRestart ==
  ASSUME NEW c, Caller = {c}, WithFormat = {Extension}
  PROVE  Spec => []RedeemedStaysUsed
<1>1. Init => SerialInv(c) /\ SoloInv
  BY DEF Init, SerialInv, SoloInv, Writing
<1>2. Init => RedeemedInv(c)
  BY DEF Init, RedeemedInv, RedeemedStaysUsed
<1>3. TypeOK /\ ClosedIdle /\ SoloInv /\ SerialInv(c) /\ [Next]_vars
         => SerialInv(c)'
  BY SerialNext
<1>4. TypeOK /\ ClosedIdle /\ SoloInv /\ SerialInv(c) /\ RedeemedInv(c)
         /\ [Next]_vars => RedeemedInv(c)'
  <2> SUFFICES ASSUME TypeOK, ClosedIdle, SoloInv, SerialInv(c),
                      RedeemedInv(c), [Next]_vars
               PROVE  RedeemedInv(c)'
    OBVIOUS
  <2>1. CASE UNCHANGED vars
    BY <2>1 DEF vars, RedeemedInv, RedeemedStaysUsed
  <2>2. CASE Call(c)
    BY <2>2, RedeemedCall
  <2>3. CASE FlushStep(c)
    BY <2>3, RedeemedFlushStep
  <2>4. CASE Replace(c) \/ Cancel(c) \/ Open \/ OpenFails \/ Crash \/ Tick
    BY <2>4, RedeemedProcess
  <2> QED
    BY <2>1, <2>2, <2>3, <2>4 DEF Next
<1>5. RedeemedInv(c) => RedeemedStaysUsed
  BY DEF RedeemedInv
<1> QED
  BY <1>1, <1>2, <1>3, <1>4, <1>5, TypeCorrect, ClosedIsIdle, SoloNext, PTL
  DEF Spec
================================================================================
