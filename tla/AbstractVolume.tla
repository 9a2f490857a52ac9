--------------------------- MODULE AbstractVolume ---------------------------
(***************************************************************************)
(* What vfs_create and vfs_remove promise on one volume, with faults: the  *)
(* directory is a set of names with sizes; a call changes it at one moment *)
(* or not at all, and reports success only after it has.  Opening, reading *)
(* and writing never change it.  When a call is cut short in the middle of *)
(* its writes nothing is promised any more: the volume is torn.            *)
(***************************************************************************)
EXTENDS Integers

CONSTANTS Threads, Names, NoName, Sizes

VARIABLES
    listing,    \* the files: names with sizes
    torn,       \* a fault has torn the disk
    request     \* the vfs_create or vfs_remove that thread t is in

vars == <<listing, torn, request>>

\* stage: "asked", "done" when the listing is changed, "answered" when the result
\* is known.  arg: the size of the file that is created, and then the result.
Asked == [op : {"create"}, name : Names, arg : Sizes, stage : {"asked"}]
         \cup [op : {"remove"}, name : Names, arg : {0}, stage : {"asked"}]
Nothing == [op |-> "none", name |-> NoName, arg |-> 0, stage |-> "none"]
NoRequests == [t \in Threads |-> Nothing]

Init == listing = {} /\ torn = FALSE /\ request = NoRequests

At(t, op, stage) == request[t].op = op /\ request[t].stage = stage
Becomes(t, r) == request' = [request EXCEPT ![t] = r]
Answered(r, result) ==
    [op |-> r.op, name |-> r.name, arg |-> result, stage |-> "answered"]
Done(r) == [op |-> r.op, name |-> r.name, arg |-> r.arg, stage |-> "done"]

Ask(t) ==
    /\ request[t] = Nothing
    /\ \E r \in Asked : Becomes(t, r)
    /\ UNCHANGED listing

\* The file is there, at once; that the call returns may take longer.
Create(t) ==
    LET r == request[t]
    IN /\ At(t, "create", "asked")
       /\ \A e \in listing : e.name # r.name
       /\ listing' = listing \cup {[name |-> r.name, size |-> r.arg]}
       /\ Becomes(t, Done(r)) \/ Becomes(t, Answered(r, 0))

Remove(t) ==
    LET r == request[t]
    IN /\ At(t, "remove", "asked")
       /\ \E e \in listing : e.name = r.name
       /\ listing' = {e \in listing : e.name # r.name}
       /\ Becomes(t, Done(r))

\* A call that did nothing reports an error; one that did what it was asked, success,
\* but for a new file whose blocks could not be cleared.
Answer(t) ==
    LET r == request[t]
    IN /\ \/ r.stage = "asked" /\ Becomes(t, Answered(r, -1))
          \/ r.stage = "done" /\ Becomes(t, Answered(r, 0))
          \/ At(t, "create", "done") /\ Becomes(t, Answered(r, -1))
       /\ UNCHANGED listing

\* The call returns, or is turned away when no volume is mounted.
Leave(t) ==
    /\ request[t].stage \in {"asked", "answered"}
    /\ Becomes(t, Nothing)
    /\ UNCHANGED listing

\* The power fails: what is done is kept, and what is not has left no trace...
Stop == request' = NoRequests /\ UNCHANGED listing

\* ... but for a fault between the first and the last write that a change needs.
Tear ==
    /\ \E t \in Threads : At(t, "create", "asked") \/ At(t, "remove", "done")
    /\ torn' = TRUE /\ listing' = {} /\ request' = NoRequests

Next ==
    /\ ~torn
    /\ \/ /\ \/ \E t \in Threads : Ask(t) \/ Create(t) \/ Remove(t) \/ Answer(t) \/ Leave(t)
             \/ Stop
          /\ UNCHANGED torn
       \/ Tear

Spec == Init /\ [][Next]_vars
=============================================================================
