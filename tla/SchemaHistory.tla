--------------------------- MODULE SchemaHistory ---------------------------
(***************************************************************************)
(* What the schema store of one provider promises its readers: each        *)
(* endpoint has at most one current schema per kind, and the changes feed  *)
(* tells that story exactly - one event per change, each naming the hash   *)
(* it replaces.  SpecSync implements this as long as its runs do not       *)
(* overlap.                                                                *)
(***************************************************************************)
EXTENDS Naturals, Sequences

CONSTANTS
    Endpoints,  \* endpoint ids
    Kinds,      \* schema kinds: input, output, stream
    Announced,  \* the kinds whose changes are written to the feed
    Hashes,     \* content hashes
    NoHash      \* no version (SpecSync assumes it is no hash)

VARIABLES
    listed,     \* endpoints that have a row
    current,    \* current[d]: hash of the current version of document d
    feed        \* feed[e]: the changes rows about endpoint e, oldest first

historyVars == <<listed, current, feed>>

Docs == Endpoints \X Kinds

Event == [type: {"endpoint.added", "endpoint.removed",
                 "schema.added", "schema.updated"},
          kind: Kinds \cup {"none"},
          hash: Hashes \cup {NoHash},
          previousHash: Hashes \cup {NoHash}]

EndpointEvent(type) ==
    [type |-> type, kind |-> "none", hash |-> NoHash, previousHash |-> NoHash]

SchemaEvent(kind, new, old) ==
    [type |-> IF old = NoHash THEN "schema.added" ELSE "schema.updated",
     kind |-> kind, hash |-> new, previousHash |-> old]

HasEvent(e, type) == \E i \in DOMAIN feed[e] : feed[e][i].type = type

HistoryInit ==
    /\ listed = {}
    /\ current = [d \in Docs |-> NoHash]
    /\ feed = [e \in Endpoints |-> <<>>]

AddEndpoint(e) ==
    /\ e \notin listed
    /\ listed' = listed \cup {e}
    /\ feed' = [feed EXCEPT ![e] = Append(@, EndpointEvent("endpoint.added"))]
    /\ UNCHANGED current

(* A removal is told once; the endpoint keeps its row and its schemas.      *)
RemoveEndpoint(e) ==
    /\ e \in listed
    /\ ~ HasEvent(e, "endpoint.removed")
    /\ feed' = [feed EXCEPT ![e] = Append(@, EndpointEvent("endpoint.removed"))]
    /\ UNCHANGED <<listed, current>>

Publish(d, h) ==
    /\ d[1] \in listed
    /\ h # current[d]
    /\ current' = [current EXCEPT ![d] = h]
    /\ feed' = IF d[2] \in Announced
               THEN [feed EXCEPT ![d[1]] =
                        Append(@, SchemaEvent(d[2], h, current[d]))]
               ELSE feed
    /\ UNCHANGED listed

(* Schemas from a source the provider rejected are withdrawn without an     *)
(* event.                                                                   *)
Withdraw(D) ==
    /\ current' = [d \in Docs |-> IF d \in D THEN NoHash ELSE current[d]]
    /\ UNCHANGED <<listed, feed>>

HistoryNext ==
    \/ \E e \in Endpoints : AddEndpoint(e) \/ RemoveEndpoint(e)
    \/ \E d \in Docs, h \in Hashes : Publish(d, h)
    \/ \E D \in SUBSET Docs : Withdraw(D)

HistorySpec == HistoryInit /\ [][HistoryNext]_historyVars

=============================================================================
