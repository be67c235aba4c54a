------------------------------ MODULE MCKvStore ------------------------------
(* KvStore with every operation, each with the fields that make it differ. *)
EXTENDS KvStore

Request(op) == [op |-> op, version |-> Omitted, cas |-> Omitted, versions |-> Omitted]

Writes == {[Request("write") EXCEPT !.cas = c] : c \in {Omitted, 0, 1}}
Reads == {[Request("read") EXCEPT !.version = v] : v \in {Omitted, 1}}
Deletes == {[Request("delete") EXCEPT !.versions = s] : s \in {{}, {1}}}

AllRequests == Writes \union Reads \union Deletes
                 \union {Request(op) : op \in {"versions", "metadata_read", "metadata_write"}}
=============================================================================
