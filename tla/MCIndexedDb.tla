---------------------------- MODULE MCIndexedDb ----------------------------
EXTENDS IndexedDb, TLC

CONSTANTS o1, o2, d1, t1, t2, s1, s2, p, q

\* A page that opens whatever is there, and a worker that upgrades and deletes,
\* each on its own thread with a transaction of its own.
MCRealmOf == [x \in Requests \cup Made |-> IF x \in {o1, t1} THEN p ELSE q]
MCThreadOf == [r \in Realms |-> r]
MCVersionOf == [r \in Opens |-> IF r = o2 THEN 2 ELSE None]
MCPlanOf == [t \in Made |-> [mode |-> IF t = t1 THEN "readwrite" ELSE "readonly", scope |-> {s1}]]
MCMaxOps == [t \in Transactions |-> IF t \in Made THEN 2 ELSE 1]
MCDatabases == {Nothing, [version |-> 1, stores |-> [s \in Stores |-> <<None, 1>>]]}

\* One page, whose two writers share no store.
MCOnePage == [x \in Requests \cup Made |-> p]
MCApart == [t \in Made |-> [mode |-> "readwrite", scope |-> {IF t = t1 THEN s1 ELSE s2}]]
=============================================================================
