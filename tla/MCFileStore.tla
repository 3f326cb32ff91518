------------------------------- MODULE MCFileStore -------------------------------
(* Small instances of FileStore: one network, one pre-auth key, at most two *)
(* nodes, and the mutations a registration makes.                           *)
EXTENDS FileStore

CONSTANTS n1, k1, d1, a

(* Rows as the host writes them.                                            *)
IssueKey(reusable, expires_at) ==
    [op |-> "upsert_preauth_key", id |-> k1,
     row |-> [network_id |-> n1, reusable |-> reusable, used |-> FALSE,
              expires_at |-> expires_at]]
UpsertNode ==
    [op |-> "upsert_node", id |-> d1, row |-> [network_id |-> n1, data |-> a]]
DeleteNode == [op |-> "delete_node", id |-> d1, row |-> None]

Clock == {0, 1}

(* Issuing a single-use key that expires, and writing and removing a node.  *)
SerialMutations == {IssueKey(FALSE, 1), UpsertNode, DeleteNode}
KeyMutations == {IssueKey(FALSE, None), IssueKey(TRUE, None)}
IssueMutations == {IssueKey(FALSE, None)}
NodeMutations == {UpsertNode, DeleteNode}

FreshFile == {None}

(* The key is on disk, unused, from an earlier run of the server.           *)
IssuedDocument == Apply(NewDocument, IssueKey(FALSE, None))
IssuedFile == {[doc |-> IssuedDocument, format |-> Extension]}
UsedFiles == {None} \cup IssuedFile

(* A snapshot a later release of the code wrote.                            *)
NewerFile == {[doc |-> [NewDocument EXCEPT !.version = 2], format |-> Extension]}
================================================================================
