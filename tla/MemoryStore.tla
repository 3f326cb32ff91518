------------------------------- MODULE MemoryStore -------------------------------
(***************************************************************************)
(* MemoryStore (control-core/src/store/memory.rs): a StoreDocument of Vecs *)
(* behind one RwLock. Every method of the Store trait takes the lock once, *)
(* so a call is one step, whichever task makes it.                         *)
(*                                                                         *)
(* Definitions marked `faulty` are plausible mistakes in the definition    *)
(* they precede. No action uses them: they show what the properties catch. *)
(***************************************************************************)
EXTENDS StoreDocument, SequencesExt

CONSTANT Mutations \* the mutations the host calls

ASSUME MutationsAssumption == Mutations \subseteq Mutation

VARIABLES
    inner,  \* the document behind the lock
    saved,  \* a clone FileStore took with snapshot(), or is to install
    answer, \* what the last call returned
    now     \* Utc::now()

vars == <<inner, saved, answer, now>>

(* A row in a Vec carries its id.                                           *)
Vec(Id, Row) == Seq([id : Id, row : Row])

Tables == {"networks", "users", "nodes", "preauth_keys"}

TypeOK ==
    /\ {inner.version, saved.version} \subseteq Nat
    /\ \A d \in {inner, saved} :
          /\ d.networks \in Vec(NetworkId, Network)
          /\ d.users \in Vec(UserId, User)
          /\ d.nodes \in Vec(NodeId, Node)
          /\ d.preauth_keys \in Vec(PreAuthKeyId, PreAuthKey)
          /\ d.policies \in Table(NetworkId, Data)
    /\ answer.ok \in BOOLEAN
    /\ now \in Time

(* MemoryStore::new.                                                        *)
New ==
    [version |-> 1, networks |-> <<>>, users |-> <<>>, nodes |-> <<>>,
     preauth_keys |-> <<>>, policies |-> [n \in NetworkId |-> None]]

Init ==
    /\ inner = New
    /\ saved = New
    /\ answer = [ok |-> TRUE, rows |-> <<>>]
    /\ now \in Time

-----------------------------------------------------------------------------
(* Vecs.                                                                    *)

(* iter().find(|r| r.id == id): the index of the first, 0 for None.         *)
Find(vec, id) == SelectInSeq(vec, LAMBDA r : r.id = id)

UpsertedAlways(vec, r) == Append(vec, r) \* faulty: no search first

Upserted(vec, r) ==
    IF Find(vec, r.id) # 0
    THEN [vec EXCEPT ![Find(vec, r.id)] = r]
    ELSE Append(vec, r)

(* Vec::retain and Iterator::filter: the elements in `keep`, in their order *)
(* (SelectSeq with a set for its test).                                     *)
Retained(vec, keep) ==
    LET kept[i \in 0..Len(vec)] ==
            IF i = 0 THEN <<>>
            ELSE IF vec[i] \in keep THEN Append(kept[i - 1], vec[i])
            ELSE kept[i - 1]
    IN  kept[Len(vec)]

Filtered(vec, n) == Retained(vec, {r \in ToSet(vec) : r.row.network_id = n})

-----------------------------------------------------------------------------
(* Calls.                                                                   *)

Answer(ok, rows) == answer' = [ok |-> ok, rows |-> rows]

(* The table each upsert_ method works on.                                  *)
TableOfPasted == \* faulty: a line pasted and half edited
    [upsert_network |-> "users", upsert_user |-> "users",
     upsert_node |-> "nodes", upsert_preauth_key |-> "preauth_keys"]

TableOf ==
    [upsert_network |-> "networks", upsert_user |-> "users",
     upsert_node |-> "nodes", upsert_preauth_key |-> "preauth_keys"]

Upsert(m) ==
    /\ m.op \in DOMAIN TableOf
    /\ inner' = [inner EXCEPT ![TableOf[m.op]] =
                    Upserted(@, [id |-> m.id, row |-> m.row])]
    /\ Answer(TRUE, <<>>)
    /\ UNCHANGED <<saved, now>>

DeleteNode(m) ==
    /\ m.op = "delete_node"
    /\ inner' = [inner EXCEPT
                    !.nodes = Retained(@, {r \in ToSet(@) : r.id # m.id})]
    /\ Answer(TRUE, <<>>)
    /\ UNCHANGED <<saved, now>>

SetPolicy(m) ==
    /\ m.op = "set_policy"
    /\ inner' = [inner EXCEPT !.policies[m.id] = m.row]
    /\ Answer(TRUE, <<>>)
    /\ UNCHANGED <<saved, now>>

(* A missing expiry never expires, an unparseable one always has (fail      *)
(* closed), and the instant itself is already too late.                     *)
preauth_key_expired_late(key) == \* faulty: valid at the instant it expires
    \/ key.expires_at = Malformed
    \/ key.expires_at \in Time /\ key.expires_at < now

preauth_key_expired(key) ==
    \/ key.expires_at = Malformed
    \/ key.expires_at \in Time /\ key.expires_at <= now

(* The ways through consume_preauth_key in their order; only the last flips *)
(* the key.                                                                 *)
ConsumePreauthKey(id) ==
    LET i == Find(inner.preauth_keys, id)
        key == inner.preauth_keys[i].row
        refused == i = 0 \/ preauth_key_expired(key)
        flipped == ~refused /\ ~key.reusable /\ ~key.used
    IN  /\ Answer(~refused /\ (key.reusable \/ flipped), <<>>)
        /\ inner' = IF flipped
                    THEN [inner EXCEPT !.preauth_keys[i].row.used = TRUE]
                    ELSE inner
        /\ UNCHANGED <<saved, now>>

ListNetworks == Answer(TRUE, inner.networks)
ListUsers(n) == Answer(TRUE, Filtered(inner.users, n))
ListNodes(n) == Answer(TRUE, Filtered(inner.nodes, n))
ListPreauthKeys(n) == Answer(TRUE, Filtered(inner.preauth_keys, n))
GetNode(id) ==
    LET i == Find(inner.nodes, id)
    IN  Answer(TRUE, IF i = 0 THEN <<>> ELSE <<inner.nodes[i]>>)
GetPolicy(n) ==
    Answer(TRUE, IF inner.policies[n] = None
                 THEN <<>>
                 ELSE <<[id |-> n, row |-> inner.policies[n]]>>)

Read ==
    /\ \/ ListNetworks
       \/ \E n \in NetworkId :
             ListUsers(n) \/ ListNodes(n) \/ ListPreauthKeys(n) \/ GetPolicy(n)
       \/ \E id \in NodeId : GetNode(id)
    /\ UNCHANGED <<inner, saved, now>>

(* For FileStore: clone the document, install a document.                   *)
Snapshot == saved' = inner /\ UNCHANGED <<inner, answer, now>>
Replace == inner' = saved /\ UNCHANGED <<saved, answer, now>>

Tick ==
    /\ now' \in Time \ {now}
    /\ UNCHANGED <<inner, saved, answer>>

Next ==
    \/ \E m \in Mutations : Upsert(m) \/ DeleteNode(m) \/ SetPolicy(m)
    \/ \E id \in PreAuthKeyId : ConsumePreauthKey(id)
    \/ Read \/ Snapshot \/ Replace \/ Tick

Spec == Init /\ [][Next]_vars

-----------------------------------------------------------------------------
(* Properties.                                                              *)

(* The upsert_ methods (memory.rs) leave no two rows of a Vec with one id,  *)
(* so that the first `find` returns is the only one.                        *)
UniqueIds ==
    \A t \in Tables : \A i, j \in DOMAIN inner[t] :
        inner[t][i].id = inner[t][j].id => i = j

(* What the Vecs say: the table of ids, and the set of rows returned.       *)
RowOf(vec, id) == IF Find(vec, id) = 0 THEN None ELSE vec[Find(vec, id)].row

AsTables(d) ==
    [version |-> d.version,
     networks |-> [x \in NetworkId |-> RowOf(d.networks, x)],
     users |-> [x \in UserId |-> RowOf(d.users, x)],
     nodes |-> [x \in NodeId |-> RowOf(d.nodes, x)],
     preauth_keys |-> [x \in PreAuthKeyId |-> RowOf(d.preauth_keys, x)],
     policies |-> d.policies]

Keyed ==
    INSTANCE KeyedStore WITH
        doc <- AsTables(inner),
        saved <- AsTables(saved),
        answer <- [ok |-> answer.ok,
                   rows |-> {<<r.id, r.row>> : r \in ToSet(answer.rows)}]

(* The Vecs behave as tables of ids in every call and every read: the       *)
(* upserts, delete_node, consume_preauth_key, list_ and get_ of memory.rs   *)
(* together implement KeyedStore.                                           *)
ImplementsKeyedStore == Keyed!Spec
================================================================================
