---------------------------- MODULE GrantRegistry ----------------------------
(***************************************************************************)
(* What the grant authority promises to its callers: one table, shared by  *)
(* all processes, that changes by one whole operation at a time, and never *)
(* under a lease (README.md:52-58, docs/ARCHITECTURE.md:94-106).           *)
(***************************************************************************)
EXTENDS Naturals

CONSTANTS
  Procs,    \* API server processes
  Grants,   \* grant ids
  Seeds,    \* the grants of the first boot in demo mode
  NoGrant   \* what a process without a lease leases

VARIABLES
  table,    \* the status of each grant there is
  leases,   \* the grant that each process has in use
  denied,   \* grants that an answer has shown no longer active
  issued,   \* grants whose issue was answered
  outages,  \* power losses
  losses    \* removals of the store by hand

lost == <<outages, losses>>
vars == <<table, leases, denied, issued, lost>>

Active == {g \in DOMAIN table : table[g] = "ACTIVE"}
Nothing == [p \in Procs |-> NoGrant]

Init ==
  /\ DOMAIN table = {} /\ leases = Nothing
  /\ denied = {} /\ issued = {} /\ outages = 0 /\ losses = 0

(***************************************************************************)
(* One operation: grants are added as active, and never again; what is not *)
(* active never becomes active.                                            *)
(***************************************************************************)
Issue ==
  \E g \in Grants \ DOMAIN table :
    table' = [h \in DOMAIN table \cup {g} |-> IF h = g THEN "ACTIVE" ELSE table[h]]

Provision == DOMAIN table = {} /\ table' = [g \in Seeds |-> "ACTIVE"]

Revoke ==
  \E g \in DOMAIN table : /\ table[g] \in {"ACTIVE", "SUSPENDED"}
                          /\ table' = [table EXCEPT ![g] = "REVOKED"]

Expire == \E g \in Active : table' = [table EXCEPT ![g] = "EXPIRED"]

SuspendAll ==
  table' = [g \in DOMAIN table |-> IF g \in Active THEN "SUSPENDED" ELSE table[g]]

Change ==
  /\ leases = Nothing
  /\ Issue \/ Provision \/ Revoke \/ Expire \/ SuspendAll
  /\ UNCHANGED <<leases, denied, issued, lost>>

(***************************************************************************)
(* What callers get.                                                       *)
(***************************************************************************)
Lease(p) ==
  /\ \E g \in Active : leases' = [leases EXCEPT ![p] = g]
  /\ UNCHANGED <<table, denied, issued, lost>>

Drop(p) ==
  /\ leases' = [leases EXCEPT ![p] = NoGrant]
  /\ UNCHANGED <<table, denied, issued, lost>>

\* An answer is about the table as it stands.
Answer(p) ==
  /\ denied' = denied \cup (DOMAIN table \ Active)
  /\ issued' = issued \/ \E g \in DOMAIN table : issued' = issued \cup {g}
  /\ leases' = [leases EXCEPT ![p] = NoGrant]
  /\ UNCHANGED <<table, lost>>

\* A power loss may take back or bring back what no answer was about.
Outage ==
  /\ outages' = outages + 1
  /\ losses = 0 => /\ issued \cup denied \subseteq DOMAIN table'
                   /\ \A g \in denied : table'[g] # "ACTIVE"
  /\ leases' = Nothing
  /\ UNCHANGED <<denied, issued, losses>>

\* Somebody removes the store: no grant is left, whatever was answered.
Removal ==
  /\ losses' = losses + 1
  /\ leases = Nothing /\ DOMAIN table' = {}
  /\ UNCHANGED <<leases, denied, issued, outages>>

Next == Change \/ Outage \/ Removal \/ \E p \in Procs : Lease(p) \/ Drop(p) \/ Answer(p)

Spec == Init /\ [][Next]_vars
=============================================================================
