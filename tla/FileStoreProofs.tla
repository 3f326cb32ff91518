----------------------------- MODULE FileStoreProofs -----------------------------
(***************************************************************************)
(* Theorems about FileStore, for every set of callers, ids and mutations.  *)
(***************************************************************************)
EXTENDS FileStore, TLAPS

(* The operators of StoreDocument stay within Document. *)

(* MemoryStore::new makes a document.                                       *)
LEMMA NewDocumentType == NewDocument \in Document
  BY DEF NewDocument, Document, Table

(* Every upsert, delete_node and set_policy leaves a document.              *)
LEMMA ApplyType ==
  ASSUME NEW doc \in Document, NEW m \in Mutation
  PROVE  Apply(doc, m) \in Document
<1> USE DEF Document, Table
<1>1. CASE m \in RowMutation("upsert_network", NetworkId, Network)
  BY <1>1 DEF Apply, RowMutation
<1>2. CASE m \in RowMutation("upsert_user", UserId, User)
  BY <1>2 DEF Apply, RowMutation
<1>3. CASE m \in RowMutation("upsert_node", NodeId, Node)
  BY <1>3 DEF Apply, RowMutation
<1>4. CASE m \in RowMutation("delete_node", NodeId, {None})
  BY <1>4 DEF Apply, RowMutation
<1>5. CASE m \in RowMutation("upsert_preauth_key", PreAuthKeyId, PreAuthKey)
  BY <1>5 DEF Apply, RowMutation
<1>6. CASE m \in RowMutation("set_policy", NetworkId, Data)
  BY <1>6 DEF Apply, RowMutation
<1> QED
  BY <1>1, <1>2, <1>3, <1>4, <1>5, <1>6 DEF Mutation

(* Redeeming a key that is there leaves a document.                         *)
LEMMA ConsumedType ==
  ASSUME NEW doc \in Document, NEW k \in PreAuthKeyId,
         doc.preauth_keys[k] # None
  PROVE  Consumed(doc, k) \in Document
<1>1. doc.preauth_keys[k] \in PreAuthKey
  BY DEF Document, Table
<1>2. [doc.preauth_keys[k] EXCEPT !.used = TRUE] \in PreAuthKey
  BY <1>1 DEF PreAuthKey
<1> QED
  BY <1>2 DEF Consumed, Document, Table

(* What the bytes of the target parse to is a document.                     *)
LEMMA ImageType ==
  ASSUME NEW f \in Format, NEW content, Parses(f, content)
  PROVE  content.doc \in Document
  BY DEF Parses, Image

-----------------------------------------------------------------------------
(* Type correctness.                                                        *)

(* A call that returns leaves its caller idle and well typed.               *)
LEMMA ReturnType ==
  ASSUME TypeOK, NEW c \in Caller,
         NEW a \in {"none", "ok", "true", "false", "err"}, Return(c, a)
  PROVE  /\ pc' \in [Caller -> {"idle", "replace"} \cup Flushing]
         /\ answer' \in [Caller -> {"none", "ok", "true", "false", "err"}]
         /\ snap' \in [Caller -> Document]
         /\ solo' \in [Caller -> BOOLEAN]
         /\ grant' \in [Caller -> PreAuthKeyId \cup {None}]
         /\ redeemed' \subseteq PreAuthKeyId
  BY NewDocumentType DEF TypeOK, Return

(* fs::write leaves a file at each of the two names.                        *)
LEMMA WrittenType ==
  ASSUME TypeOK, NEW c \in Caller, NEW contents \in SUBSET File,
         Written(c, contents)
  PROVE  file' \in [Name -> File]
  BY DEF TypeOK, Written, Name

(* The calls of the host keep the types.                                    *)
LEMMA CallType ==
  ASSUME TypeOK, NEW c \in Caller, Call(c)
  PROVE  TypeOK'
<1> USE DEF TypeOK, Start, memory, history, Flushing, Writing
<1>1. ASSUME NEW m \in Mutations, Mutate(c, m)
      PROVE  TypeOK'
  <2>1. mem' \in Document
    BY <1>1, ApplyType, MutationsAssumption DEF Mutate
  <2>2. CASE m.op = "upsert_preauth_key"
    BY <1>1, <2>1, <2>2 DEF Mutate
  <2>3. CASE m.op # "upsert_preauth_key"
    BY <1>1, <2>1, <2>3 DEF Mutate
  <2> QED
    BY <2>2, <2>3
<1>2. ASSUME NEW k \in PreAuthKeyId, Consume(c, k)
      PROVE  TypeOK'
  <2>1. CASE Consumable(mem, k, now)
    <3>1. mem' \in Document
      BY <1>2, <2>1, ConsumedType DEF Consume, Consumable
    <3> QED
      BY <1>2, <2>1, <3>1 DEF Consume
  <2>2. CASE ~Consumable(mem, k, now)
    BY <1>2, <2>2 DEF Consume
  <2> QED
    BY <2>1, <2>2
<1>3. CASE Flush(c)
  BY <1>3 DEF Flush
<1>4. CASE LoadMissing(c)
  BY <1>4 DEF LoadMissing
<1>5. CASE LoadReads(c)
  BY <1>5, ImageType DEF LoadReads
<1>6. CASE LoadFails(c)
  BY <1>6 DEF LoadFails
<1> QED
  BY <1>1, <1>2, <1>3, <1>4, <1>5, <1>6 DEF Call

(* The steps of flush() keep the types.                                     *)
LEMMA FlushStepType ==
  ASSUME TypeOK, NEW c \in Caller, FlushStep(c)
  PROVE  TypeOK'
<1> USE DEF memory, history
<1>1. CASE Snapshot(c)
  BY <1>1 DEF Snapshot, TypeOK, Flushing, Writing
<1>2. CASE CreateTmp(c)
  BY <1>2 DEF CreateTmp, TmpName, Truncated, TypeOK, Flushing, Writing, Name, File
<1>3. CASE FlushFails(c)
  BY <1>3, ReturnType DEF FlushFails, Failure, TypeOK
<1>4. CASE WriteTmp(c)
  <2>1. [doc |-> snap[c], format |-> format] \in File
    BY DEF TypeOK, File, Image
  <2>2. file' \in [Name -> File]
    BY <1>4, <2>1, WrittenType DEF WriteTmp, Overwritten, File
  <2> QED
    BY <1>4, <2>2 DEF WriteTmp, TypeOK, Flushing, Writing
<1>5. CASE WriteFails(c)
  <2>1. CASE fd[c] = "unlinked"
    BY <1>5, <2>1, ReturnType DEF WriteFails, Failure, Written, TypeOK
  <2>2. CASE fd[c] # "unlinked"
    <3>1. file[fd[c]] \in File
      BY <2>2 DEF TypeOK, Name
    <3>2. file' \in [Name -> File]
      BY <1>5, <3>1, WrittenType DEF WriteFails, File
    <3> QED
      BY <1>5, <3>2, ReturnType DEF WriteFails, Failure, TypeOK
  <2> QED
    BY <2>1, <2>2
<1>6. CASE Rename(c)
  <2>1. file' \in [Name -> File]
    BY <1>6 DEF Rename, TypeOK, Name, File
  <2>2. fd' \in [Caller -> {"tmp", "target", "unlinked"}]
    BY <1>6 DEF Rename, TypeOK
  <2>3. answer[c] \in {"none", "ok", "true", "false", "err"}
    BY DEF TypeOK
  <2> QED
    BY <1>6, <2>1, <2>2, <2>3, ReturnType DEF Rename, TypeOK
<1> QED
  BY <1>1, <1>2, <1>3, <1>4, <1>5, <1>6 DEF FlushStep

(* What the process and its surroundings do keeps the types.                *)
LEMMA ProcessType ==
  ASSUME TypeOK, Open \/ OpenFails \/ Crash \/ Tick
  PROVE  TypeOK'
<1> USE DEF TypeOK, memory, calls, history
<1>1. CASE Open
  BY <1>1, NewDocumentType, ImageType, FormatAssumption DEF Open
<1>2. CASE OpenFails
  BY <1>2 DEF OpenFails
<1>3. CASE Crash
  <2>1. file' \in [Name -> File]
    BY <1>3 DEF Crash, File
  <2> QED
    BY <1>3, <2>1, NewDocumentType, FormatAssumption DEF Crash
<1>4. CASE Tick
  BY <1>4 DEF Tick
<1> QED
  BY <1>1, <1>2, <1>3, <1>4

(* Every variable keeps its type, whatever interleaves.                     *)
THEOREM TypeCorrect == Spec => []TypeOK
<1>1. Init => TypeOK
  BY NewDocumentType, FormatAssumption, FileAssumption
  DEF Init, TypeOK, Name, File
<1>2. TypeOK /\ [Next]_vars => TypeOK'
  <2> SUFFICES ASSUME TypeOK, [Next]_vars PROVE TypeOK'
    OBVIOUS
  <2>1. ASSUME NEW c \in Caller, Call(c) PROVE TypeOK'
    BY <2>1, CallType
  <2>2. ASSUME NEW c \in Caller, FlushStep(c) PROVE TypeOK'
    BY <2>2, FlushStepType
  <2>3. ASSUME NEW c \in Caller, Replace(c) PROVE TypeOK'
    <3>1. answer[c] \in {"none", "ok", "true", "false", "err"}
      BY DEF TypeOK
    <3> QED
      BY <2>3, <3>1, ReturnType DEF Replace, TypeOK
  <2>4. ASSUME NEW c \in Caller, Cancel(c) PROVE TypeOK'
    BY <2>4, ReturnType DEF Cancel, TypeOK, memory
  <2>5. CASE Open \/ OpenFails \/ Crash \/ Tick
    BY <2>5, ProcessType
  <2>6. CASE UNCHANGED vars
    BY <2>6 DEF vars, TypeOK
  <2> QED
    BY <2>1, <2>2, <2>3, <2>4, <2>5, <2>6 DEF Next
<1> QED
  BY <1>1, <1>2, PTL DEF Spec

-----------------------------------------------------------------------------
(* A store that is not open has no calls running.                           *)

ClosedIdle ==
    store # "open" => \A c \in Caller : pc[c] = "idle"

(* Calls begin on an open store, and only a crash closes it.                *)
LEMMA ClosedIdleNext == TypeOK /\ ClosedIdle /\ [Next]_vars => ClosedIdle'
<1> SUFFICES ASSUME TypeOK, ClosedIdle, [Next]_vars PROVE ClosedIdle'
  OBVIOUS
<1>1. ASSUME NEW c \in Caller, Call(c) PROVE ClosedIdle'
  BY <1>1 DEF Call, Mutate, Consume, Flush, LoadMissing, LoadReads, LoadFails,
     Idle, ClosedIdle
<1>2. ASSUME NEW c \in Caller, FlushStep(c) PROVE ClosedIdle'
  <2>1. pc[c] # "idle" /\ store' = store
    BY <1>2 DEF FlushStep, Snapshot, CreateTmp, WriteTmp, Rename, WriteFails,
       FlushFails
  <2> QED
    BY <2>1 DEF ClosedIdle
<1>3. ASSUME NEW c \in Caller, Replace(c) \/ Cancel(c) PROVE ClosedIdle'
  <2>1. pc[c] # "idle" /\ store' = store
    BY <1>3 DEF Replace, Cancel
  <2> QED
    BY <2>1 DEF ClosedIdle
<1>4. CASE Open \/ OpenFails \/ Crash \/ Tick \/ UNCHANGED vars
  BY <1>4 DEF Open, OpenFails, Crash, Tick, calls, vars, ClosedIdle
<1> QED
  BY <1>1, <1>2, <1>3, <1>4 DEF Next

(* ... so that a store that is not open has none.                           *)
LEMMA ClosedIsIdle == Spec => []ClosedIdle
<1>1. Init => ClosedIdle
  BY DEF Init, ClosedIdle
<1> QED
  BY <1>1, ClosedIdleNext, TypeCorrect, PTL DEF Spec

-----------------------------------------------------------------------------
(* A flush alone in its file window publishes its snapshot.                 *)

(* SoloFlushIntact is not inductive: it needs that a flush that is alone    *)
(* since it created the temporary file still finds it empty, and that its   *)
(* descriptor is the temporary file.                                        *)
SoloInv ==
    \A c \in Caller :
        /\ pc[c] # "write" => fd[c] = "tmp"
        /\ pc[c] \in Writing /\ solo[c] =>
              \A d \in Caller \ {c} : pc[d] \notin Writing
        /\ pc[c] = "write" /\ solo[c] => fd[c] = "tmp" /\ file["tmp"] = Blank
        /\ pc[c] = "rename" /\ solo[c] =>
              file["tmp"] = [doc |-> snap[c], format |-> format]

(* Steps that leave the files, the descriptors and `solo` alone, and no     *)
(* caller in the file window that was not there.                            *)
LEMMA SoloUndisturbed ==
  ASSUME TypeOK, SoloInv, NEW c \in Caller,
         UNCHANGED <<file, fd, solo, format>>,
         pc[c] \notin Writing,
         \E at \in {"idle", "replace", "snapshot", "create"} :
            pc' = [pc EXCEPT ![c] = at],
         \A d \in Caller \ {c} : snap'[d] = snap[d]
  PROVE  SoloInv'
<1>1. PICK at \in {"idle", "replace", "snapshot", "create"} :
         pc' = [pc EXCEPT ![c] = at]
  OBVIOUS
<1>2. pc \in [Caller -> {"idle", "replace"} \cup Flushing]
  BY Zenon DEF TypeOK
<1>3. pc'[c] \notin Writing /\ \A d \in Caller \ {c} : pc'[d] = pc[d]
  BY <1>1, <1>2 DEF Writing
<1>4. fd[c] = "tmp" /\ pc[c] # "write" /\ pc'[c] # "write"
  BY <1>3 DEF SoloInv, Writing
<1> SUFFICES ASSUME NEW e \in Caller
    PROVE  /\ pc'[e] # "write" => fd[e] = "tmp"
           /\ pc'[e] \in Writing /\ solo[e] =>
                 \A d \in Caller \ {e} : pc'[d] \notin Writing
           /\ pc'[e] = "write" /\ solo[e] => fd[e] = "tmp" /\ file["tmp"] = Blank
           /\ pc'[e] = "rename" /\ solo[e] =>
                 file["tmp"] = [doc |-> snap'[e], format |-> format]
  BY Zenon DEF SoloInv
<1>5. CASE e = c
  BY <1>3, <1>4, <1>5 DEF Writing
<1>6. CASE e # c
  <2>1. pc'[e] = pc[e] /\ snap'[e] = snap[e]
    BY <1>3, <1>6
  <2>2. \A d \in Caller \ {e} : pc[d] \notin Writing => pc'[d] \notin Writing
    BY <1>3
  <2> QED
    BY <2>1, <2>2, Zenon DEF SoloInv
<1> QED
  BY <1>5, <1>6

(* A caller that leaves the file window, in whatever state it leaves the    *)
(* files: a flush alone in the window is not another one.                   *)
LEMMA SoloLeaves ==
  ASSUME TypeOK, SoloInv, NEW c \in Caller, NEW a, Return(c, a),
         pc[c] \in Writing, format' = format,
         fd' \in [Caller -> {"tmp", "target", "unlinked"}],
         fd'[c] = "tmp",
         \A d \in Caller \ {c} : pc[d] # "write" => fd'[d] = fd[d]
  PROVE  SoloInv'
<1> SUFFICES ASSUME NEW e \in Caller
    PROVE  /\ pc'[e] # "write" => fd'[e] = "tmp"
           /\ pc'[e] \notin Writing \/ ~solo'[e]
  BY DEF SoloInv, Writing
<1>1. CASE e = c
  BY <1>1 DEF Return, TypeOK, Writing
<1>2. CASE e # c
  BY <1>2 DEF Return, TypeOK, SoloInv
<1> QED
  BY <1>1, <1>2

(* A caller that returns from outside the file window.                      *)
LEMMA SoloReturns ==
  ASSUME TypeOK, SoloInv, NEW c \in Caller, NEW a, Return(c, a),
         pc[c] \notin Writing, UNCHANGED <<file, fd, format>>
  PROVE  SoloInv'
<1> SUFFICES ASSUME NEW e \in Caller
    PROVE  /\ pc'[e] # "write" => fd'[e] = "tmp"
           /\ pc'[e] \in Writing /\ solo'[e] =>
                 \A d \in Caller \ {e} : pc'[d] \notin Writing
           /\ pc'[e] = "write" /\ solo'[e] =>
                 fd'[e] = "tmp" /\ file'["tmp"] = Blank
           /\ pc'[e] = "rename" /\ solo'[e] =>
                 file'["tmp"] = [doc |-> snap'[e], format |-> format']
  BY DEF SoloInv
<1>1. pc'[c] = "idle" /\ fd[c] = "tmp"
  BY DEF Return, TypeOK, SoloInv, Writing
<1>2. \A d \in Caller \ {c} :
         pc'[d] = pc[d] /\ snap'[d] = snap[d] /\ solo'[d] = solo[d]
  BY DEF Return, TypeOK
<1>3. CASE e = c
  BY <1>1, <1>3 DEF Writing
<1>4. CASE e # c
  BY <1>1, <1>2, <1>4 DEF SoloInv, Writing
<1> QED
  BY <1>3, <1>4

(* The steps of flush() preserve it.                                        *)
LEMMA SoloFlushStep ==
  ASSUME TypeOK, SoloInv, NEW c \in Caller, FlushStep(c)
  PROVE  SoloInv'
<1>1. CASE Snapshot(c)
  BY <1>1, SoloUndisturbed DEF Snapshot, Writing, TypeOK
<1>2. CASE CreateTmp(c)
  BY <1>2 DEF CreateTmp, TmpName, Truncated, TypeOK, SoloInv, Writing, Name
<1>3. CASE FlushFails(c) /\ pc[c] \notin Writing
  BY <1>3, SoloReturns DEF FlushFails
<1>4. CASE WriteTmp(c)
  <2> SUFFICES ASSUME NEW e \in Caller
      PROVE  /\ pc'[e] # "write" => fd'[e] = "tmp"
             /\ pc'[e] \in Writing /\ solo'[e] =>
                   \A d \in Caller \ {e} : pc'[d] \notin Writing
             /\ pc'[e] = "write" /\ solo'[e] =>
                   fd'[e] = "tmp" /\ file'["tmp"] = Blank
             /\ pc'[e] = "rename" /\ solo'[e] =>
                   file'["tmp"] = [doc |-> snap'[e], format |-> format']
    BY DEF SoloInv
  <2>1. CASE e # c
    BY <1>4, <2>1 DEF WriteTmp, TypeOK, SoloInv, Writing
  <2>2. CASE e = c
    <3>1. solo[c] => file'["tmp"] = [doc |-> snap[c], format |-> format]
      BY <1>4 DEF WriteTmp, Written, Overwritten, TypeOK, SoloInv, Name
    <3> QED
      BY <1>4, <2>2, <3>1 DEF WriteTmp, TypeOK, SoloInv, Writing
  <2> QED
    BY <2>1, <2>2
<1>5. CASE WriteFails(c)
  BY <1>5, SoloLeaves DEF WriteFails, TypeOK, Writing
<1>6. CASE Rename(c)
  BY <1>6, SoloLeaves DEF Rename, TypeOK, Writing, SoloInv
<1>7. CASE FlushFails(c) /\ pc[c] \in Writing
  BY <1>7, SoloLeaves DEF FlushFails, TypeOK, Writing, SoloInv
<1> QED
  BY <1>1, <1>2, <1>3, <1>4, <1>5, <1>6, <1>7 DEF FlushStep

(* A call that begins is not in the file window.                            *)
LEMMA SoloCall ==
  ASSUME TypeOK, SoloInv, NEW c \in Caller, Call(c)
  PROVE  SoloInv'
<1> USE DEF Idle, Start, Writing
<1>1. ASSUME NEW m \in Mutations, Mutate(c, m) PROVE SoloInv'
  BY <1>1, SoloUndisturbed DEF Mutate
<1>2. ASSUME NEW k \in PreAuthKeyId, Consume(c, k) PROVE SoloInv'
  <2>1. CASE Consumable(mem, k, now)
    BY <1>2, <2>1, SoloUndisturbed DEF Consume
  <2>2. CASE ~Consumable(mem, k, now)
    BY <1>2, <2>2 DEF Consume, SoloInv
  <2> QED
    BY <2>1, <2>2
<1>3. CASE Flush(c)
  BY <1>3, SoloUndisturbed DEF Flush
<1>4. CASE LoadMissing(c) \/ LoadFails(c)
  BY <1>4 DEF LoadMissing, LoadFails, SoloInv
<1>5. CASE LoadReads(c)
  BY <1>5, SoloUndisturbed DEF LoadReads, TypeOK
<1> QED
  BY <1>1, <1>2, <1>3, <1>4, <1>5 DEF Call

(* Nothing but flush() touches the file window, and a crash empties it.     *)
LEMMA SoloNext ==
  TypeOK /\ ClosedIdle /\ SoloInv /\ [Next]_vars => SoloInv'
<1> SUFFICES ASSUME TypeOK, ClosedIdle, SoloInv, [Next]_vars PROVE SoloInv'
  OBVIOUS
<1>1. ASSUME NEW c \in Caller, Call(c) PROVE SoloInv'
  BY <1>1, SoloCall
<1>2. ASSUME NEW c \in Caller, FlushStep(c) PROVE SoloInv'
  BY <1>2, SoloFlushStep
<1>3. ASSUME NEW c \in Caller, Replace(c) \/ Cancel(c) PROVE SoloInv'
  BY <1>3, SoloReturns DEF Replace, Cancel, Writing
<1>4. CASE Open
  BY <1>4 DEF Open, calls, ClosedIdle, SoloInv, Writing
<1>5. CASE OpenFails \/ Tick \/ UNCHANGED vars
  BY <1>5 DEF OpenFails, Tick, calls, vars, SoloInv
<1>6. CASE Crash
  BY <1>6 DEF Crash, SoloInv, Writing
<1> QED
  BY <1>1, <1>2, <1>3, <1>4, <1>5, <1>6 DEF Next

(* For any number of callers, with failures, crashes and loads, a flush     *)
(* that overlapped no other one renames its own complete snapshot.          *)
THEOREM SoloFlushPublishesSnapshot == Spec => []SoloFlushIntact
<1>1. Init => SoloInv
  BY DEF Init, SoloInv, Writing
<1>2. SoloInv => SoloFlushIntact
  BY DEF SoloInv, SoloFlushIntact
<1> QED
  BY <1>1, <1>2, SoloNext, TypeCorrect, ClosedIsIdle, PTL DEF Spec

-----------------------------------------------------------------------------
(* A single-use key has one winner.                                         *)

(* The keys granted to a running call or redeemed by a finished one.        *)
Spent == redeemed \cup {grant[c] : c \in Caller}

(* RedeemedStaysUsed is inductive together with SingleWinner, and with what *)
(* holds before the store is first opened. No load runs.                    *)
WinnerInv ==
    /\ RedeemedStaysUsed
    /\ SingleWinner
    /\ store # "open" =>
          redeemed = {} /\ \A c \in Caller : grant[c] = None
    /\ \A c \in Caller : pc[c] # "replace"

(* What an answered or dropped call leaves of the spent keys: all of them,  *)
(* or all but the one it was granted.                                       *)
LEMMA WinnerReturns ==
  ASSUME TypeOK, WinnerInv, NEW c \in Caller, NEW a, Return(c, a),
         UNCHANGED <<mem, store>>
  PROVE  WinnerInv'
<1>1. grant'[c] = None /\ \A d \in Caller \ {c} : grant'[d] = grant[d]
  BY DEF Return, TypeOK
<1>2. redeemed' \in {redeemed, redeemed \cup {grant[c]}}
  BY DEF Return
<1>3. \A k : k # None /\ k \in Spent' => k \in Spent
  BY <1>1, <1>2 DEF Spent
<1>4. RedeemedStaysUsed'
  BY <1>3 DEF WinnerInv, RedeemedStaysUsed, Spent
<1>5. SingleWinner'
  BY <1>1, <1>2 DEF WinnerInv, SingleWinner
<1>6. (store # "open" =>
         redeemed = {} /\ \A d \in Caller : grant[d] = None)'
  BY <1>1 DEF WinnerInv, Return
<1>7. \A d \in Caller : pc'[d] # "replace"
  BY DEF WinnerInv, Return, TypeOK
<1> QED
  BY <1>4, <1>5, <1>6, <1>7 DEF WinnerInv

(* Issuing a key takes it out of the spent ones; no other mutation touches  *)
(* a key.                                                                   *)
LEMMA WinnerMutate ==
  ASSUME TypeOK, WinnerInv, NEW c \in Caller, NEW m \in Mutations, Mutate(c, m)
  PROVE  WinnerInv'
<1>1. m \in Mutation
  BY MutationsAssumption
<1>2. \A d \in Caller : pc'[d] # "replace"
  BY DEF WinnerInv, Mutate, Start, TypeOK
<1>3. CASE m.op = "upsert_preauth_key"
  <2>1. /\ redeemed' = redeemed \ {m.id}
        /\ \A d \in Caller :
              grant'[d] = IF grant[d] = m.id THEN None ELSE grant[d]
    BY <1>3 DEF Mutate
  <2>2. \A k \in PreAuthKeyId \ {m.id} :
           mem'.preauth_keys[k] = mem.preauth_keys[k]
    BY <1>3 DEF Mutate, Apply, TypeOK, Document, Table
  <2>3. \A k : k # None /\ k \in Spent' => k \in Spent \ {m.id}
    BY <2>1 DEF Spent
  <2>4. \A k : k # None /\ k \in Spent' => k \in PreAuthKeyId
    BY <2>3 DEF Spent, TypeOK
  <2>5. RedeemedStaysUsed'
    BY <2>2, <2>3, <2>4 DEF WinnerInv, RedeemedStaysUsed, Spent, Mutate, Idle
  <2>6. SingleWinner'
    BY <2>1 DEF WinnerInv, SingleWinner
  <2> QED
    BY <1>2, <2>5, <2>6 DEF WinnerInv, Mutate, Idle
<1>4. CASE m.op # "upsert_preauth_key"
  <2>1. UNCHANGED <<store, grant, redeemed>>
    BY <1>4 DEF Mutate, history
  <2>2. mem'.preauth_keys = mem.preauth_keys
    BY <1>1, <1>4 DEF Mutate, Apply, TypeOK, Document, Mutation, RowMutation
  <2> QED
    BY <1>2, <2>1, <2>2 DEF WinnerInv, RedeemedStaysUsed, SingleWinner
<1> QED
  BY <1>3, <1>4

(* A key is granted only when it is unused: then nobody was granted it, nor *)
(* has anybody redeemed it.                                                 *)
LEMMA WinnerConsume ==
  ASSUME TypeOK, WinnerInv, NEW c \in Caller, NEW k \in PreAuthKeyId,
         Consume(c, k)
  PROVE  WinnerInv'
<1>1. CASE ~Consumable(mem, k, now)
  BY <1>1 DEF Consume, WinnerInv, RedeemedStaysUsed, SingleWinner
<1>2. CASE Consumable(mem, k, now)
  <2>1. \A d \in Caller : pc'[d] # "replace"
    BY <1>2 DEF WinnerInv, Consume, Start, TypeOK
  <2>2. /\ store = "open" /\ UNCHANGED <<store, redeemed>>
        /\ \A d \in Caller \ {c} : grant'[d] = grant[d]
        /\ grant'[c] = IF mem.preauth_keys[k].reusable THEN None ELSE k
    BY <1>2 DEF Consume, Idle, TypeOK
  <2>3. mem.preauth_keys[k] \in PreAuthKey /\ mem.preauth_keys[k] # None
    BY <1>2 DEF Consumable, TypeOK, Document, Table
  <2>4. CASE mem.preauth_keys[k].reusable
    <3>1. mem' = mem
      BY <1>2, <2>4 DEF Consume, Consumed
    <3>2. \A x : x # None /\ x \in Spent' => x \in Spent
      BY <2>2, <2>4 DEF Spent
    <3>3. RedeemedStaysUsed'
      BY <2>2, <3>1, <3>2 DEF WinnerInv, RedeemedStaysUsed, Spent
    <3>4. SingleWinner'
      BY <2>2, <2>4 DEF WinnerInv, SingleWinner
    <3> QED
      BY <2>1, <2>2, <3>3, <3>4 DEF WinnerInv
  <2>5. CASE ~mem.preauth_keys[k].reusable
    <3>1. ~mem.preauth_keys[k].used
      BY <1>2, <2>5 DEF Consumable
    <3>2. k # None => k \notin Spent
      BY <2>2, <3>1 DEF WinnerInv, RedeemedStaysUsed, Spent
    <3>3. [mem.preauth_keys[k] EXCEPT !.used = TRUE] \in PreAuthKey
      BY <2>3 DEF PreAuthKey
    <3>4. /\ mem'.preauth_keys[k] = [mem.preauth_keys[k] EXCEPT !.used = TRUE]
          /\ \A x \in PreAuthKeyId \ {k} :
                mem'.preauth_keys[x] = mem.preauth_keys[x]
      <4>1. mem' = [mem EXCEPT !.preauth_keys[k].used = TRUE]
        BY <1>2, <2>5 DEF Consume, Consumed
      <4>2. mem'.preauth_keys =
              [mem.preauth_keys EXCEPT
                 ![k] = [mem.preauth_keys[k] EXCEPT !.used = TRUE]]
        BY <4>1 DEF TypeOK, Document
      <4>3. mem.preauth_keys \in Table(PreAuthKeyId, PreAuthKey)
        BY DEF TypeOK, Document
      <4> QED
        BY <4>2, <4>3 DEF Table
    <3>5. mem'.preauth_keys[k] # None /\ mem'.preauth_keys[k].used
      BY <2>3, <3>3, <3>4, RowAssumption DEF PreAuthKey
    <3>6. \A x : x # None /\ x \in Spent' => x \in Spent \cup {k}
      BY <2>2 DEF Spent
    <3>7. \A x : x # None /\ x \in Spent' => x \in PreAuthKeyId
      BY <3>6 DEF Spent, TypeOK
    <3>8. RedeemedStaysUsed'
      BY <2>2, <3>4, <3>5, <3>6, <3>7 DEF WinnerInv, RedeemedStaysUsed, Spent
    <3>9. SingleWinner'
      BY <2>2, <2>5, <3>2 DEF WinnerInv, SingleWinner, Spent
    <3> QED
      BY <2>1, <2>2, <3>8, <3>9 DEF WinnerInv
  <2> QED
    BY <2>4, <2>5
<1> QED
  BY <1>1, <1>2

(* Without crashes and loads every step preserves it.                       *)
LEMMA WinnerNext ==
  ASSUME TypeOK, ClosedIdle, WinnerInv, [Next]_vars,
         "crash" \notin Environment, "load" \notin Environment
  PROVE  WinnerInv'
<1> USE DEF WinnerInv, RedeemedStaysUsed, SingleWinner
<1>1. ASSUME NEW c \in Caller, Call(c) PROVE WinnerInv'
  <2>1. CASE Flush(c)
    BY <2>1 DEF Flush, Start, memory, history, TypeOK
  <2> QED
    BY <1>1, <2>1, WinnerMutate, WinnerConsume
    DEF Call, LoadMissing, LoadReads, LoadFails
<1>2. ASSUME NEW c \in Caller, FlushStep(c) PROVE WinnerInv'
  <2>1. CASE WriteFails(c) \/ Rename(c) \/ FlushFails(c)
    BY <2>1, WinnerReturns DEF WriteFails, Rename, FlushFails, memory
  <2>2. CASE Snapshot(c) \/ CreateTmp(c) \/ WriteTmp(c)
    <3>1. UNCHANGED <<mem, store, grant, redeemed>>
      BY <2>2 DEF Snapshot, CreateTmp, WriteTmp, memory, history
    <3>2. \A d \in Caller : pc'[d] # "replace"
      <4>1. \E at \in {"create", "write", "rename"} : pc' = [pc EXCEPT ![c] = at]
        BY <2>2 DEF Snapshot, CreateTmp, WriteTmp
      <4>2. pc \in [Caller -> {"idle", "replace"} \cup Flushing]
        BY Zenon DEF TypeOK
      <4> QED
        BY <4>1, <4>2
    <3> QED
      BY <3>1, <3>2
  <2> QED
    BY <1>2, <2>1, <2>2 DEF FlushStep
<1>3. ASSUME NEW c \in Caller, Replace(c) \/ Cancel(c) PROVE WinnerInv'
  BY <1>3, WinnerReturns DEF Replace, Cancel, memory
<1>4. CASE Open
  BY <1>4 DEF Open, calls, history
<1>5. CASE OpenFails \/ Tick \/ UNCHANGED vars
  BY <1>5 DEF OpenFails, Tick, calls, memory, history, vars
<1>6. CASE Crash
  BY <1>6 DEF Crash
<1> QED
  BY <1>1, <1>2, <1>3, <1>4, <1>5, <1>6 DEF Next

(* As long as the process lives and no load runs, no two of any number of   *)
(* concurrent calls are granted the same issue of a single-use key.         *)
THEOREM SingleUseKeysHaveOneWinner ==
  ASSUME "crash" \notin Environment, "load" \notin Environment
  PROVE  Spec => [](RedeemedStaysUsed /\ SingleWinner)
<1>1. Init => WinnerInv
  BY DEF Init, WinnerInv, RedeemedStaysUsed, SingleWinner
<1>2. TypeOK /\ ClosedIdle /\ WinnerInv /\ [Next]_vars => WinnerInv'
  BY WinnerNext
<1>3. WinnerInv => RedeemedStaysUsed /\ SingleWinner
  BY DEF WinnerInv
<1> QED
  BY <1>1, <1>2, <1>3, TypeCorrect, ClosedIsIdle, PTL DEF Spec

-----------------------------------------------------------------------------
(* What changes the target.                                                 *)

(* A flush whose descriptor has followed a rename to the target was not     *)
(* alone in its file window.                                                *)
LEMMA StrayNotSolo ==
  ASSUME SoloInv, NEW c \in Caller, pc[c] = "write", fd[c] = "target"
  PROVE  ~solo[c]
<1> QED
  BY DEF SoloInv

(* The steps of a flush.                                                    *)
LEMMA FlushChangesTarget ==
  ASSUME TypeOK, SoloInv, NEW c \in Caller, FlushStep(c),
         file'["target"] # file["target"]
  PROVE  TargetChanges(c)
<1>1. CASE Snapshot(c) \/ CreateTmp(c) \/ FlushFails(c)
  <2>1. file'["target"] = file["target"]
    BY <1>1 DEF Snapshot, CreateTmp, TmpName, FlushFails, TypeOK, Name
  <2> QED
    BY <2>1
<1>2. CASE WriteTmp(c) \/ WriteFails(c)
  <2>1. pc[c] = "write" /\ fd[c] = "target"
    BY <1>2 DEF WriteTmp, WriteFails, Written, TypeOK, Name
  <2> QED
    BY <2>1, StrayNotSolo DEF TargetChanges, Writing
<1>3. CASE Rename(c)
  <2>1. pc[c] = "rename" /\ file'["target"] = file["tmp"]
    BY <1>3 DEF Rename, TypeOK, Name
  <2>2. solo[c] => file["tmp"] = [doc |-> snap[c], format |-> format]
    BY <2>1 DEF SoloInv
  <2> QED
    BY <2>1, <2>2 DEF TargetChanges, Writing
<1> QED
  BY <1>1, <1>2, <1>3 DEF FlushStep

(* Every step; a crash cuts what is being written.                          *)
LEMMA StepChangesTarget ==
  ASSUME TypeOK, SoloInv, [Next]_vars, file'["target"] # file["target"]
  PROVE  \E c \in Caller : TargetChanges(c)
<1>1. ASSUME NEW c \in Caller, FlushStep(c)
      PROVE  \E d \in Caller : TargetChanges(d)
  BY <1>1, FlushChangesTarget
<1>2. CASE Crash
  <2>1. PICK c \in Caller : pc[c] = "write" /\ fd[c] = "target"
    BY <1>2 DEF Crash, Name
  <2> QED
    BY <2>1, StrayNotSolo DEF TargetChanges, Writing
<1>3. ASSUME file' = file PROVE FALSE
  BY <1>3
<1>4. ASSUME NEW c \in Caller, Call(c) \/ Replace(c) \/ Cancel(c) PROVE FALSE
  BY <1>3, <1>4
  DEF Call, Mutate, Consume, Flush, LoadMissing, LoadReads, LoadFails, Replace,
      Cancel
<1>5. CASE Open \/ OpenFails \/ Tick \/ UNCHANGED vars
  BY <1>3, <1>5 DEF Open, OpenFails, Tick, vars
<1> QED
  BY <1>1, <1>2, <1>4, <1>5 DEF Next

(* For any number of callers, and whatever fails or dies, the target changes*)
(* only when a flush publishes its own whole snapshot, or when flushes have *)
(* overlapped in their file window (flush, file.rs).                        *)
THEOREM TargetChangesAreWhole == Spec => SoloChangesAreWhole
<1>1. TypeOK /\ SoloInv /\ [Next]_vars
         => [file'["target"] # file["target"]
                => \E c \in Caller : TargetChanges(c)]_vars
  BY StepChangesTarget
<1>2. Init => SoloInv
  BY DEF Init, SoloInv, Writing
<1> QED
  BY <1>1, <1>2, SoloNext, TypeCorrect, ClosedIsIdle, PTL
  DEF Spec, SoloChangesAreWhole

(* One caller never overlaps itself, ...                                    *)
AlwaysSolo == \A c \in Caller : pc[c] \in Writing => solo[c]

LEMMA AlwaysSoloNext ==
  ASSUME NEW o, Caller = {o}, TypeOK, AlwaysSolo, [Next]_vars
  PROVE  AlwaysSolo'
<1> USE DEF AlwaysSolo
<1>1. CASE Call(o)
  <2>1. solo' = solo
    BY <1>1 DEF Call, Mutate, Consume, Flush, LoadMissing, LoadReads, LoadFails
  <2>2. \/ pc' = pc
        \/ \E at \in {"snapshot", "replace"} : pc' = [pc EXCEPT ![o] = at]
    BY <1>1
    DEF Call, Mutate, Consume, Flush, LoadMissing, LoadReads, LoadFails, Start
  <2> QED
    BY <2>1, <2>2 DEF TypeOK, Writing
<1>2. CASE CreateTmp(o)
  BY <1>2 DEF CreateTmp, TypeOK
<1>3. CASE Snapshot(o) \/ WriteTmp(o)
  BY <1>3 DEF Snapshot, WriteTmp, TypeOK, Writing
<1>4. CASE WriteFails(o) \/ FlushFails(o) \/ Rename(o) \/ Replace(o) \/ Cancel(o)
  BY <1>4
  DEF WriteFails, FlushFails, Rename, Replace, Cancel, Return, TypeOK, Writing
<1>5. CASE Open \/ OpenFails \/ Crash \/ Tick \/ UNCHANGED vars
  BY <1>5 DEF Open, OpenFails, Crash, Tick, calls, vars, Writing
<1> QED
  BY <1>1, <1>2, <1>3, <1>4, <1>5 DEF Next, FlushStep

(* ... so that with one caller the target is missing or a whole snapshot,   *)
(* whatever fails or dies (flush, file.rs), if the first file was no wreck. *)
THEOREM SerialTargetIntact ==
  ASSUME NEW c, Caller = {c}, InitialFiles \cap {Blank, Torn} = {}
  PROVE  Spec => []TargetIntact
<1>1. Init => TargetIntact /\ SoloInv /\ AlwaysSolo
  BY FileAssumption
  DEF Init, TargetIntact, SoloInv, AlwaysSolo, Writing, Name
<1>2. TypeOK /\ SoloInv /\ AlwaysSolo /\ TargetIntact /\ [Next]_vars
         => TargetIntact'
  <2> SUFFICES ASSUME TypeOK, SoloInv, AlwaysSolo, TargetIntact, [Next]_vars,
                      file'["target"] # file["target"]
               PROVE  TargetIntact'
    BY DEF TargetIntact
  <2>1. PICK d \in Caller : TargetChanges(d)
    BY StepChangesTarget
  <2>2. file'["target"] \in Image
    BY <2>1 DEF TargetChanges, AlwaysSolo, Image, TypeOK
  <2> QED
    BY <2>2, FileAssumption DEF TargetIntact
<1>3. TypeOK /\ AlwaysSolo /\ [Next]_vars => AlwaysSolo'
  BY AlwaysSoloNext
<1> QED
  BY <1>1, <1>2, <1>3, SoloNext, TypeCorrect, ClosedIsIdle, PTL DEF Spec
================================================================================
