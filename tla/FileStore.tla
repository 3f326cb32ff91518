-------------------------------- MODULE FileStore --------------------------------
(***************************************************************************)
(* FileStore (control-core/src/store/file.rs): a MemoryStore whose         *)
(* mutators end in flush(), which writes the whole document to a temporary *)
(* file and renames it over the target. Callers are tasks of a             *)
(* multi-threaded runtime: each await and each system call is a step, and  *)
(* the steps of different callers interleave. Only the memory is behind a  *)
(* lock; flush() and load() are behind none.                               *)
(*                                                                         *)
(* The reads return part of `mem` and change nothing: see MemoryStore.     *)
(*                                                                         *)
(* Definitions marked `faulty` are plausible mistakes in the definition    *)
(* they precede. No action uses them: they show what the properties catch. *)
(***************************************************************************)
EXTENDS StoreDocument

CONSTANTS
    Caller,       \* concurrent tasks that hold the store
    Mutations,    \* the mutations the host calls
    Extension,    \* Format::from_path of the store's path
    WithFormat,   \* the formats the host leaves the store with after open
    InitialFiles, \* what may be at the path before the store is first opened
    Environment,  \* what else may happen: see EnvironmentAssumption
    Blank,        \* a file of length zero
    Torn          \* bytes that are no complete snapshot

Format == {"json", "yaml", "toml"}
Image == [doc : Document, format : Format]
Name == {"tmp", "target"}
File == Image \cup {None, Blank, Torn}

ASSUME CallerAssumption == None \notin Caller
ASSUME MutationsAssumption == Mutations \subseteq Mutation
ASSUME FormatAssumption == Extension \in Format /\ WithFormat \subseteq Format
ASSUME FileAssumption ==
    /\ InitialFiles \subseteq File
    /\ None \notin Image /\ Blank \notin Image /\ Torn \notin Image
    /\ None \notin {Blank, Torn}
ASSUME EnvironmentAssumption ==
    Environment \subseteq {"load", "crash", "cancel", "io_error"}

VARIABLES
    (* implementation *)
    mem,     \* the document behind MemoryStore's lock
    now,     \* Utc::now()
    store,   \* "closed", "open", or "failed" when open() returned Err
    format,  \* FileStore::format
    file,    \* the two names in the directory: path and path.with_extension("tmp")
    pc,      \* where each caller's call stands
    answer,  \* what its last call returned; while a call runs, what it will
             \* return if no step fails
    snap,    \* the document a flush writes, or a load installs
    fd,      \* in "write": where the inode opened by fs::write is by now
    (* history *)
    solo,     \* in "write" and "rename": no other flush was in either since
    grant,    \* the single-use key the running call flipped, or None
    redeemed  \* single-use keys a call returned Ok(true) for since the last
              \* upsert of the key

memory == <<mem, now>>
calls == <<pc, answer, snap>>
history == <<grant, redeemed>>
vars == <<mem, now, store, format, file, pc, answer, snap, fd, solo,
          grant, redeemed>>

Writing == {"write", "rename"}
Flushing == {"snapshot", "create"} \cup Writing

TypeOK ==
    /\ mem \in Document
    /\ now \in Time
    /\ store \in {"closed", "open", "failed"}
    /\ format \in Format
    /\ file \in [Name -> File]
    /\ pc \in [Caller -> {"idle", "replace"} \cup Flushing]
    /\ answer \in [Caller -> {"none", "ok", "true", "false", "err"}]
    /\ snap \in [Caller -> Document]
    /\ fd \in [Caller -> {"tmp", "target", "unlinked"}]
    /\ solo \in [Caller -> BOOLEAN]
    /\ grant \in [Caller -> PreAuthKeyId \cup {None}]
    /\ redeemed \subseteq PreAuthKeyId

Init ==
    /\ mem = NewDocument
    /\ now \in Time
    /\ store = "closed"
    /\ format = Extension
    /\ \E f \in InitialFiles :
          file = [n \in Name |-> IF n = "target" THEN f ELSE None]
    /\ pc = [c \in Caller |-> "idle"]
    /\ answer = [c \in Caller |-> "none"]
    /\ snap = [c \in Caller |-> NewDocument]
    /\ fd = [c \in Caller |-> "tmp"]
    /\ solo = [c \in Caller |-> TRUE]
    /\ grant = [c \in Caller |-> None]
    /\ redeemed = {}

-----------------------------------------------------------------------------
(* Bytes and files.                                                         *)

(* deserialize: a snapshot is read in the format it was written in. JSON is *)
(* YAML too, except that YAML takes the quoted keys of the policies map for *)
(* strings and no NetworkId.                                                *)
Parses(f, content) ==
    /\ content \in Image
    /\ \/ content.format = f
       \/ /\ f = "yaml"
          /\ content.format = "json"
          /\ \A n \in NetworkId : content.doc.policies[n] = None

(* write_all of `new` at offset zero of a file holding `old`: the tail of a *)
(* longer old content stays.                                                *)
OverwrittenBare(old, new) == {new.doc} \* faulty: not serialized

Overwritten(old, new) == IF old \in {Blank, new} THEN {new} ELSE {new, Torn}

Failing == "io_error" \in Environment

-----------------------------------------------------------------------------
(* Starting and ending a call.                                              *)

Idle(c) == store = "open" /\ pc[c] = "idle"

Start(c, at, a) ==
    /\ pc' = [pc EXCEPT ![c] = at]
    /\ answer' = [answer EXCEPT ![c] = a]

(* The call returns `a`; Ok(true) for a key it flipped redeems the key.     *)
Return(c, a) ==
    /\ pc' = [pc EXCEPT ![c] = "idle"]
    /\ answer' = [answer EXCEPT ![c] = a]
    /\ snap' = [snap EXCEPT ![c] = NewDocument]
    /\ solo' = [solo EXCEPT ![c] = TRUE]
    /\ grant' = [grant EXCEPT ![c] = None]
    /\ redeemed' = IF a = "true" /\ grant[c] # None
                   THEN redeemed \cup {grant[c]}
                   ELSE redeemed

(* `?` on an error of serialize, fs::write or fs::rename.                   *)
FailureIgnored(c) == answer[c] \* faulty: the error is dropped

Failure(c) == "err"

(* A mutator: the memory is changed under its lock, the flush is still to   *)
(* come. Upserting a key issues it anew, whoever redeemed it before.        *)
Mutate(c, m) ==
    /\ Idle(c)
    /\ mem' = Apply(mem, m)
    /\ Start(c, "snapshot", "ok")
    /\ IF m.op = "upsert_preauth_key"
       THEN /\ redeemed' = redeemed \ {m.id}
            /\ grant' = [d \in Caller |->
                            IF grant[d] = m.id THEN None ELSE grant[d]]
       ELSE UNCHANGED history
    /\ UNCHANGED <<now, store, format, file, snap, fd, solo>>

(* consume_preauth_key: only an answer of true is flushed.                  *)
Consume(c, k) ==
    /\ Idle(c)
    /\ IF Consumable(mem, k, now)
       THEN /\ mem' = Consumed(mem, k)
            /\ grant' = [grant EXCEPT ![c] =
                            IF mem.preauth_keys[k].reusable THEN None ELSE k]
            /\ Start(c, "snapshot", "true")
       ELSE /\ answer' = [answer EXCEPT ![c] = "false"]
            /\ UNCHANGED <<mem, grant, pc>>
    /\ UNCHANGED <<now, store, format, file, snap, fd, solo, redeemed>>

(* flush() called by itself: it is public.                                  *)
Flush(c) ==
    /\ Idle(c)
    /\ Start(c, "snapshot", "ok")
    /\ UNCHANGED <<memory, store, format, file, snap, fd, solo, history>>

-----------------------------------------------------------------------------
(* flush(), from the snapshot on.                                           *)

(* snapshot().await and serialize.                                          *)
Snapshot(c) ==
    /\ pc[c] = "snapshot"
    /\ snap' = [snap EXCEPT ![c] = mem]
    /\ pc' = [pc EXCEPT ![c] = "create"]
    /\ UNCHANGED <<memory, store, format, file, answer, fd, solo, history>>

(* path.with_extension("tmp"): every flush of the store uses the same name. *)
TmpNameTarget == "target" \* faulty: written in place

TmpName == "tmp"

(* fs::write opens it, truncating what another flush may have there.        *)
TruncatedNot(old) == IF old = None THEN Blank ELSE old \* faulty: no O_TRUNC

Truncated(old) == Blank

CreateTmp(c) ==
    /\ pc[c] = "create"
    /\ file' = [file EXCEPT ![TmpName] = Truncated(@)]
    /\ fd' = [fd EXCEPT ![c] = TmpName]
    /\ solo' = [d \in Caller |->
                    IF d = c
                    THEN \A e \in Caller \ {c} : pc[e] \notin Writing
                    ELSE solo[d] /\ pc[d] \notin Writing]
    /\ pc' = [pc EXCEPT ![c] = "write"]
    /\ UNCHANGED <<memory, store, format, answer, snap, history>>

(* It writes the snapshot to the inode it opened, wherever the renames of   *)
(* other flushes have moved it since. The write(2)s of a write_all are one  *)
(* step: a mix of two writers' bytes is Torn, which Overwritten allows.     *)
Written(c, contents) ==
    IF fd[c] = "unlinked"
    THEN UNCHANGED file
    ELSE \E f \in contents : file' = [file EXCEPT ![fd[c]] = f]

WriteTmp(c) ==
    /\ pc[c] = "write"
    /\ Written(c, Overwritten(file[fd[c]], [doc |-> snap[c], format |-> format]))
    /\ fd' = [fd EXCEPT ![c] = "tmp"]
    /\ pc' = [pc EXCEPT ![c] = "rename"]
    /\ UNCHANGED <<memory, store, format, answer, snap, solo, history>>

WriteFails(c) ==
    /\ Failing
    /\ pc[c] = "write"
    /\ Written(c, {file[fd[c]], Torn})
    /\ Return(c, Failure(c))
    /\ fd' = [fd EXCEPT ![c] = "tmp"]
    /\ UNCHANGED <<memory, store, format>>

(* fs::rename: the temporary file, as it is by now, becomes the target, and *)
(* whoever has it open goes on writing to the target.                       *)
Rename(c) ==
    /\ pc[c] = "rename"
    /\ file["tmp"] # None
    /\ file' = [file EXCEPT !["target"] = file["tmp"], !["tmp"] = None]
    /\ fd' = [d \in Caller |->
                  IF pc[d] # "write" THEN fd[d]
                  ELSE IF fd[d] = "tmp" THEN "target" ELSE "unlinked"]
    /\ Return(c, answer[c])
    /\ UNCHANGED <<memory, store, format>>

(* serialize fails for TOML when the document has an integer above i64::MAX *)
(* or a key that is no string, which the rows of the model do not tell: any *)
(* TOML snapshot may fail. rename does when another flush took the temporary*)
(* file away; and any system call may.                                      *)
RenameMayFailRetried == Failing \* faulty: waits for the file to be there

RenameMayFail == Failing \/ file["tmp"] = None

FlushFails(c) ==
    /\ \/ pc[c] = "snapshot" /\ format = "toml"
       \/ pc[c] = "create" /\ Failing
       \/ pc[c] = "rename" /\ RenameMayFail
    /\ Return(c, Failure(c))
    /\ UNCHANGED <<memory, store, format, file, fd>>

-----------------------------------------------------------------------------
(* load().                                                                  *)

(* A missing file leaves the memory alone and is no error.                  *)
LoadMissing(c) ==
    /\ "load" \in Environment
    /\ Idle(c)
    /\ file["target"] = None
    /\ answer' = [answer EXCEPT ![c] = "ok"]
    /\ UNCHANGED <<memory, store, format, file, pc, snap, fd, solo, history>>

LoadReads(c) ==
    /\ "load" \in Environment
    /\ Idle(c)
    /\ Parses(format, file["target"])
    /\ snap' = [snap EXCEPT ![c] = file["target"].doc]
    /\ Start(c, "replace", "ok")
    /\ UNCHANGED <<memory, store, format, file, fd, solo, history>>

LoadFails(c) ==
    /\ "load" \in Environment
    /\ Idle(c)
    /\ Failing \/ (file["target"] # None /\ ~Parses(format, file["target"]))
    /\ answer' = [answer EXCEPT ![c] = "err"]
    /\ UNCHANGED <<memory, store, format, file, pc, snap, fd, solo, history>>

(* replace().await: what was mutated since the file was read is gone.       *)
Replace(c) ==
    /\ pc[c] = "replace"
    /\ mem' = snap[c]
    /\ Return(c, answer[c])
    /\ UNCHANGED <<now, store, format, file, fd>>

-----------------------------------------------------------------------------
(* The process.                                                             *)

(* FileStore::open, and with_format on what it returns.                     *)
Open ==
    /\ store # "open"
    /\ \/ /\ file["target"] = None
          /\ mem' = NewDocument
       \/ /\ Parses(Extension, file["target"])
          /\ mem' = file["target"].doc
    /\ store' = "open"
    /\ format' \in WithFormat
    /\ UNCHANGED <<now, file, calls, fd, solo, history>>

OpenFails ==
    /\ store # "open"
    /\ \/ Failing
       \/ file["target"] # None /\ ~Parses(Extension, file["target"])
    /\ store' = "failed"
    /\ UNCHANGED <<memory, format, file, calls, fd, solo, history>>

(* A future is dropped at an await that waits for the memory's lock.        *)
Cancel(c) ==
    /\ "cancel" \in Environment
    /\ pc[c] \in {"snapshot", "replace"}
    /\ Return(c, "none")
    /\ UNCHANGED <<memory, store, format, file, fd>>

(* The process dies. What system calls wrote stays, of those it dies in     *)
(* part or nothing.                                                         *)
Crash ==
    /\ "crash" \in Environment
    /\ store = "open"
    /\ \E cut \in SUBSET {c \in Caller : pc[c] = "write"} :
          file' = [n \in Name |->
                      IF \E c \in cut : fd[c] = n THEN Torn ELSE file[n]]
    /\ store' = "closed"
    /\ mem' = NewDocument
    /\ format' = Extension
    /\ pc' = [c \in Caller |-> "idle"]
    /\ answer' = [c \in Caller |-> "none"]
    /\ snap' = [c \in Caller |-> NewDocument]
    /\ fd' = [c \in Caller |-> "tmp"]
    /\ solo' = [c \in Caller |-> TRUE]
    /\ grant' = [c \in Caller |-> None]
    /\ UNCHANGED <<now, redeemed>>

(* Utc::now() is the wall clock: it may be set back.                        *)
Tick ==
    /\ now' \in Time \ {now}
    /\ UNCHANGED <<mem, store, format, file, calls, fd, solo, history>>

-----------------------------------------------------------------------------

FlushStep(c) ==
    \/ Snapshot(c) \/ CreateTmp(c) \/ WriteTmp(c) \/ Rename(c)
    \/ WriteFails(c) \/ FlushFails(c)

Call(c) ==
    \/ \E m \in Mutations : Mutate(c, m)
    \/ \E k \in PreAuthKeyId : Consume(c, k)
    \/ Flush(c)
    \/ LoadMissing(c) \/ LoadReads(c) \/ LoadFails(c)

Next ==
    \/ \E c \in Caller : Call(c) \/ FlushStep(c) \/ Replace(c) \/ Cancel(c)
    \/ Open \/ OpenFails \/ Crash \/ Tick

Spec == Init /\ [][Next]_vars

(* The runtime polls every task that can go on.                             *)
Fairness == \A c \in Caller : WF_vars(FlushStep(c) \/ Replace(c))
FairSpec == Spec /\ Fairness

-----------------------------------------------------------------------------
(* Properties.                                                              *)

(* A flush (file.rs, flush) whose create, write and rename overlap those of *)
(* no other flush has its whole snapshot in the temporary file when it      *)
(* comes to rename it: however many callers there are and whatever failed   *)
(* or died before, what it publishes is what it took from the memory.       *)
SoloFlushIntact ==
    \A c \in Caller :
        pc[c] = "rename" /\ solo[c] =>
            file["tmp"] = [doc |-> snap[c], format |-> format]

(* Whatever else changes the target: while a flush is alone in its file     *)
(* window, it changes only when that flush renames its own whole snapshot   *)
(* over it. The target is cut, torn or written through a stray descriptor,  *)
(* by a write, a failed write or the death of the process, only when flushes*)
(* have overlapped (file.rs, flush): however many callers there are.        *)
TargetChanges(c) ==
    /\ pc[c] \in Writing
    /\ solo[c] => /\ pc[c] = "rename"
                  /\ file'["target"] = [doc |-> snap[c], format |-> format]

SoloChangesAreWhole ==
    [][file'["target"] # file["target"] => \E c \in Caller : TargetChanges(c)]_vars

(* The target is missing or a complete snapshot, which is what writing to a *)
(* temporary file and renaming it is for (file.rs, flush).                  *)
TargetIntact ==
    file["target"] \notin {Blank, Torn}

(* A single-use key that a call flipped, or was acknowledged for, is used:  *)
(* consume_preauth_key (memory.rs, called by file.rs) cannot grant it       *)
(* again, to whichever caller, before it is upserted anew.                  *)
RedeemedStaysUsed ==
    store = "open" =>
        \A k \in redeemed \cup {grant[c] : c \in Caller} :
            k # None =>
                /\ mem.preauth_keys[k] # None
                /\ mem.preauth_keys[k].used

(* "race-free single-winner": no two running calls were granted the same    *)
(* single-use key, nor one that was redeemed before.                        *)
SingleWinner ==
    \A c \in Caller :
        grant[c] # None =>
            /\ grant[c] \notin redeemed
            /\ \A d \in Caller : grant[d] = grant[c] => d = c

(* When every call has returned and none of them failed, a mutator          *)
(* (file.rs, the Store trait's upserts) that returned Ok(()) is on disk with *)
(* everything before it: a restart reads the memory back.                   *)
QuiescentDurable ==
    (/\ store = "open"
     /\ \A c \in Caller : pc[c] = "idle" /\ answer[c] = "ok")
        => file["target"] = [doc |-> mem, format |-> format]

(* With one caller, and a path that names the format the host stays with,   *)
(* FileStore keeps the promise of DurableStore: its steps between an        *)
(* accepted call and its answer are one Commit, at the rename, or none.     *)
Readable(content) == IF Parses(Extension, content) THEN content.doc ELSE None
Busy(at) == \E c \in Caller : pc[c] \in at
DurablePhase ==
    IF store # "open" THEN "down"
    ELSE IF Busy(Flushing) THEN "saving"
    ELSE IF Busy({"replace"}) THEN "loading"
    ELSE "ready"

Durable ==
    INSTANCE DurableStore WITH
        Initial <- {Readable(f) : f \in InitialFiles},
        view <- mem,
        durable <- Readable(file["target"]),
        phase <- DurablePhase,
        answer <- answer[CHOOSE c \in Caller : TRUE]

ImplementsDurableStore == Durable!Spec

(* "Format chosen by extension or builder" (document.rs:7): open reads back *)
(* a complete snapshot this store has written.                              *)
OwnSnapshotsLoad ==
    file["target"] \in Image => Parses(Extension, file["target"])

(* "The snapshot `version` field ... must be honoured" and upconverted on   *)
(* load: the document in memory has the version the code writes (1).        *)
VersionHonoured ==
    store = "open" => mem.version = NewDocument.version

(* Every call returns, also when the temporary file is gone when it comes   *)
(* to rename it (file.rs, flush).                                           *)
CallsReturn ==
    \A c \in Caller : pc[c] # "idle" ~> pc[c] = "idle"
================================================================================
