-------------------------- MODULE HousefileRegister --------------------------
(***************************************************************************)
(* What the housefile's store and its reviews promise together, to those   *)
(* that ask: one register that is read whole, and compared and swapped at  *)
(* one instant (docs/ARCHITECTURE.md:176-181).                             *)
(***************************************************************************)
EXTENDS Naturals, Sequences

CONSTANTS
  Originals,  \* the documents it may start with
  Required    \* the zones that every review has to bring

VARIABLES
  doc,       \* the document
  receipts,  \* the receipts returned, in order
  seen,      \* the versions that were loaded or received
  failures,  \* calls that failed and callers that stopped
  outages    \* power losses

vars == <<doc, receipts, seen, failures, outages>>

Version(d) == [rev |-> d.rev, zones |-> d.zones, by |-> d.by]
History(d) == d.past \cup {Version(d)}

Init ==
  /\ doc \in Originals
  /\ receipts = <<>> /\ seen = {} /\ failures = 0 /\ outages = 0

\* The document is replaced by one that follows it, under a revision of its own.
Swap ==
  /\ doc'.past = History(doc)
  /\ \A v \in History(doc) : v.rev # doc'.rev
  /\ Required \subseteq doc'.zones

\* The receipt is returned: it names the revision that was replaced.
Receive ==
  /\ Swap
  /\ receipts' = Append(receipts, [previous |-> doc.rev, new |-> Version(doc')])
  /\ seen' = seen \cup {Version(doc')}
  /\ UNCHANGED <<failures, outages>>

Load ==
  /\ seen' = seen \cup {Version(doc)}
  /\ UNCHANGED <<doc, receipts, failures, outages>>

\* A call fails or a caller stops: its review is applied unanswered, or not.
Fail ==
  /\ failures' = failures + 1
  /\ Swap \/ doc' = doc
  /\ UNCHANGED <<receipts, seen, outages>>

\* A power loss may take back or bring back whatever was not received.
Outage ==
  /\ outages' = outages + 1
  /\ \A i \in DOMAIN receipts : receipts[i].new \in History(doc')
  /\ UNCHANGED <<receipts, seen, failures>>

Next == Receive \/ Load \/ Fail \/ Outage

Spec == Init /\ [][Next]_vars
=============================================================================
