----------------------------- MODULE Authority -----------------------------
(***************************************************************************)
(* The list of block proposers that the Authority contract keeps in its    *)
(* storage (builtin/authority): a doubly linked list of entries with a     *)
(* head and a tail.  A storage is a value here, so that every block can    *)
(* have its own.  The endorsor and the identity given to Add only tell     *)
(* that the entry is in use: a node master is never added again.           *)
(***************************************************************************)
EXTENDS Integers, Sequences, FiniteSets

CONSTANTS
    Master,     \* addresses of node masters
    Nil         \* no pointer

ASSUME NilAssumption == Nil \notin Master

Entry == [known : BOOLEAN, active : BOOLEAN, prev : Master \cup {Nil}, next : Master \cup {Nil}]
Storage == [head : Master \cup {Nil}, tail : Master \cup {Nil}, entry : [Master -> Entry]]

IsEmpty(e) == ~e.known /\ ~e.active /\ e.prev = Nil /\ e.next = Nil
IsLinked(e) == e.prev # Nil \/ e.next # Nil

NoEntry == [known |-> FALSE, active |-> FALSE, prev |-> Nil, next |-> Nil]
NoStorage == [head |-> Nil, tail |-> Nil, entry |-> [m \in Master |-> NoEntry]]

\* Authority.Get: the only entry of a list has no links, but is the head.
Listed(au, m) == IsLinked(au.entry[m]) \/ au.head = m

\* Authority.Add: at the tail, active; an entry that was ever added is refused.
Add(au, m) ==
    LET linked == IF au.tail = Nil THEN au.entry ELSE [au.entry EXCEPT ![au.tail].next = m]
    IN  IF ~IsEmpty(au.entry[m]) THEN au
        ELSE [head  |-> IF au.tail = Nil THEN m ELSE au.head,
              tail  |-> m,
              entry |-> [linked EXCEPT ![m] =
                            [known |-> TRUE, active |-> TRUE, prev |-> au.tail, next |-> Nil]]]

\* Mutant: the tail stays when the last entry is revoked.
RevokeKeepTail(au, m) ==
    LET e == au.entry[m]
        f == IF e.prev = Nil THEN au.entry ELSE [au.entry EXCEPT ![e.prev].next = e.next]
        g == IF e.next = Nil THEN f ELSE [f EXCEPT ![e.next].prev = e.prev]
    IN  IF ~IsLinked(e) THEN au
        ELSE [head  |-> IF e.prev = Nil THEN e.next ELSE au.head,
              tail  |-> au.tail,
              entry |-> [g EXCEPT ![m] = [known |-> e.known, active |-> FALSE, prev |-> Nil, next |-> Nil]]]

\* Authority.Revoke: unlisted and inactive, but still known.  The only entry
\* of a list has no links and is not revoked.
Revoke(au, m) ==
    LET e == au.entry[m]
        f == IF e.prev = Nil THEN au.entry ELSE [au.entry EXCEPT ![e.prev].next = e.next]
        g == IF e.next = Nil THEN f ELSE [f EXCEPT ![e.next].prev = e.prev]
    IN  IF ~IsLinked(e) THEN au
        ELSE [head  |-> IF e.prev = Nil THEN e.next ELSE au.head,
              tail  |-> IF e.next = Nil THEN e.prev ELSE au.tail,
              entry |-> [g EXCEPT ![m] = [known |-> e.known, active |-> FALSE, prev |-> Nil, next |-> Nil]]]

\* Authority.Update; here too the only entry of a list is left as it is.
Update(au, m, active) ==
    IF IsLinked(au.entry[m]) THEN [au EXCEPT !.entry[m].active = active] ELSE au

\* The pointer after n steps from the head.
Walk(au) ==
    LET ptr[n \in 0 .. Cardinality(Master)] ==
            IF n = 0 THEN au.head
            ELSE LET m == ptr[n - 1] IN IF m = Nil THEN Nil ELSE au.entry[m].next
    IN  ptr

\* Authority.AllCandidates: from the head, until there is no next one.
AllCandidates(au) ==
    LET ptr == Walk(au)
        len == Cardinality({n \in 0 .. Cardinality(Master) : ptr[n] # Nil})
    IN  [i \in 1 .. len |-> LET m == ptr[i - 1] IN [master |-> m, active |-> au.entry[m].active]]
=============================================================================
