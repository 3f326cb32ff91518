------------------------------ MODULE StoreDocument ------------------------------
(***************************************************************************)
(* The document every backend keeps (store/document.rs, store/types.rs)    *)
(* and the operations of the Store trait on it (store/traits.rs), as       *)
(* operators: the modules MemoryStore, KeyedStore, FileStore and           *)
(* DurableStore give them a state.                                         *)
(*                                                                         *)
(* A table of the document (a Vec searched by id) is the function from ids *)
(* to rows that `find` computes on it: None where no row has the id.       *)
(* MemoryStore has the Vec itself and is shown to implement this view.     *)
(***************************************************************************)
EXTENDS Integers

CONSTANTS
    NetworkId, UserId, NodeId, PreAuthKeyId, \* the ids the host uses
    Data,      \* what a row holds besides the fields some code looks at
    Time,      \* the instants the wall clock may show
    None,      \* Option::None, and the absence of a row
    Malformed  \* an `expires_at` that is no RFC 3339 timestamp

ASSUME NoneAssumption ==
    /\ Time \subseteq Int
    /\ None \notin Data
    /\ None \notin Time
    /\ Malformed \notin Time
    /\ None # Malformed

-----------------------------------------------------------------------------
(* Rows. `ephemeral`, `tags`, names, addresses and keys are carried around  *)
(* and never looked at: they are `data`.                                    *)

Network == [data : Data]
User == [network_id : NetworkId, data : Data]
Node == [network_id : NetworkId, data : Data]
PreAuthKey ==
    [network_id : NetworkId, reusable : BOOLEAN, used : BOOLEAN,
     expires_at : Time \cup {None, Malformed}]

ASSUME RowAssumption == None \notin Network \cup User \cup Node \cup PreAuthKey

Table(Id, Row) == [Id -> Row \cup {None}]

Document ==
    [version : Nat,
     networks : Table(NetworkId, Network),
     users : Table(UserId, User),
     nodes : Table(NodeId, Node),
     preauth_keys : Table(PreAuthKeyId, PreAuthKey),
     policies : Table(NetworkId, Data)]

ASSUME DocumentAssumption == None \notin Document

(* The empty document of MemoryStore::new.                                  *)
NewDocument ==
    [version |-> 1,
     networks |-> [n \in NetworkId |-> None],
     users |-> [u \in UserId |-> None],
     nodes |-> [n \in NodeId |-> None],
     preauth_keys |-> [k \in PreAuthKeyId |-> None],
     policies |-> [n \in NetworkId |-> None]]

-----------------------------------------------------------------------------
(* Mutations, as the host calls them: `op` is the trait's method.           *)

RowMutation(op, Id, Row) == [op : {op}, id : Id, row : Row]

Mutation ==
    RowMutation("upsert_network", NetworkId, Network)
        \cup RowMutation("upsert_user", UserId, User)
        \cup RowMutation("upsert_node", NodeId, Node)
        \cup RowMutation("delete_node", NodeId, {None})
        \cup RowMutation("upsert_preauth_key", PreAuthKeyId, PreAuthKey)
        \cup RowMutation("set_policy", NetworkId, Data)

Apply(doc, m) ==
    CASE m.op = "upsert_network" -> [doc EXCEPT !.networks[m.id] = m.row]
      [] m.op = "upsert_user" -> [doc EXCEPT !.users[m.id] = m.row]
      [] m.op \in {"upsert_node", "delete_node"} ->
            [doc EXCEPT !.nodes[m.id] = m.row]
      [] m.op = "upsert_preauth_key" ->
            [doc EXCEPT !.preauth_keys[m.id] = m.row]
      [] m.op = "set_policy" -> [doc EXCEPT !.policies[m.id] = m.row]

-----------------------------------------------------------------------------
(* Redeeming a pre-auth key.                                                *)

(* Good until the instant it expires; forever without one, never with a     *)
(* malformed one.                                                           *)
Unexpired(key, now) ==
    \/ key.expires_at = None
    \/ key.expires_at \in Time /\ now < key.expires_at

(* consume_preauth_key answers true exactly when ...                        *)
ConsumableAgain(doc, k, now) == \* faulty: `used` is not looked at
    doc.preauth_keys[k] # None /\ Unexpired(doc.preauth_keys[k], now)

Consumable(doc, k, now) ==
    LET key == doc.preauth_keys[k]
    IN  key # None /\ Unexpired(key, now) /\ (key.reusable \/ ~key.used)

(* ... and a single-use key is flipped when it does, a reusable one is not. *)
ConsumedUnflipped(doc, k) == doc \* faulty: the flip is made on a copy

Consumed(doc, k) ==
    IF doc.preauth_keys[k].reusable
    THEN doc
    ELSE [doc EXCEPT !.preauth_keys[k].used = TRUE]
================================================================================
