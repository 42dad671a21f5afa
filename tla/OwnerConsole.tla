---------------------------- MODULE OwnerConsole ----------------------------
(***************************************************************************)
(* The owner's page (console/src/App.tsx) and the requests it has on the   *)
(* way to the node.  Every `load` and `runAction` is a call, known by the  *)
(* generation it was given; a call that was superseded goes on until its   *)
(* promises settle.  A request that was aborted, or whose connection broke,*)
(* may still reach the node later and take effect there.                   *)
(*                                                                         *)
(* What the node holds is a version, which each change of it makes larger; *)
(* a snapshot is the version it was read from.                             *)
(***************************************************************************)
EXTENDS Integers

CONSTANTS
  Tokens,         \* what the owner may enter
  OwnerToken,     \* the one the node accepts
  MaxGenerations, \* bound on the calls and the locks between them
  MaxChanges,     \* bound on what others change at the node
  None

ASSUME OwnerConsoleAssumption ==
  /\ OwnerToken \in Tokens /\ None \notin Tokens
  /\ MaxGenerations \in Nat \ {0} /\ MaxChanges \in Nat
  /\ None \notin Nat /\ None \notin {"action", "snapshot"}

VARIABLES
  phase,      \* what the page shows
  ownerToken, \* in page memory
  snapshot,   \* the version shown
  actionBusy,
  newGrantToken, \* whether one is in page memory
  generation, \* requestGeneration
  controller, \* activeController: the call it belongs to
  calls,      \* the calls made so far
  wire,       \* what each call has on the way to the node, and its answer
  node,       \* the version the node is at
  begun,      \* history: the version at which the latest call began
  effect,     \* history: the version which the latest call's action led to
  changes     \* what others changed so far

page == <<phase, ownerToken, snapshot, actionBusy, newGrantToken, generation, controller>>
history == <<begun, effect>>
vars == <<page, calls, wire, node, history, changes>>

Calls == 1 .. MaxGenerations
NoCall == [kind |-> None, token |-> None, at |-> "none", answer |-> None, visible |-> FALSE]
Idle == [asks |-> None, answer |-> None]

\* An answer that the page takes: the version it tells of, or an error.
Fine(v) == [fine |-> TRUE, version |-> v]
Failed == [fine |-> FALSE, version |-> 0]

Init ==
  /\ phase = "locked" /\ ownerToken = None /\ snapshot = None
  /\ actionBusy = FALSE /\ newGrantToken = FALSE
  /\ generation = 0 /\ controller = None
  /\ calls = [g \in Calls |-> NoCall]
  /\ wire = [g \in Calls |-> Idle]
  /\ node = 0
  /\ begun = 0 /\ effect = None
  /\ changes = 0

(***************************************************************************)
(* The owner.                                                              *)
(***************************************************************************)
\* controller.abort() ends the wait for the loading surface, and fetch rejects.
Aborting == [g \in Calls |-> IF g = controller THEN [calls[g] EXCEPT !.visible = TRUE]
                                              ELSE calls[g]]

\* beginRequest, and what load and runAction do before their first await.
Begin(kind, token) ==
  LET g == generation + 1 IN
  /\ generation < MaxGenerations
  /\ generation' = g /\ controller' = g
  /\ snapshot' = None /\ phase' = "loading"
  /\ calls' = [Aborting EXCEPT ![g] =
                 [NoCall EXCEPT !.kind = kind, !.token = token,
                                !.at = IF kind = "action" THEN "acting" ELSE "fetching"]]
  /\ wire' = [wire EXCEPT ![g].asks = IF kind = "action" THEN "action" ELSE "snapshot"]
  /\ begun' = node /\ effect' = None
  /\ UNCHANGED <<node, changes>>

Connect(token) ==
  /\ phase = "locked"
  /\ ownerToken' = token
  /\ Begin("load", token)
  /\ UNCHANGED <<actionBusy, newGrantToken>>

\* The refresh button, and Retry on the error page.
Refresh ==
  /\ phase \in {"ready", "error"}
  /\ Begin("load", ownerToken)
  /\ UNCHANGED <<ownerToken, actionBusy, newGrantToken>>

TypeNewGrantToken ==
  /\ phase = "ready"
  /\ newGrantToken' = TRUE
  /\ UNCHANGED <<phase, ownerToken, snapshot, actionBusy, generation, controller, calls, wire,
                 node, history, changes>>

\* runAction: trip, re-arm or revoke, or an issue, which sends the new token.
Act ==
  /\ phase = "ready" /\ ~actionBusy
  /\ actionBusy' = TRUE
  /\ newGrantToken' \in {newGrantToken, FALSE}
  /\ Begin("action", ownerToken)
  /\ UNCHANGED ownerToken

\* Lock, "Cancel and lock" and "Use another token".
Lock ==
  /\ phase # "locked"
  /\ generation' = generation + 1
  /\ calls' = Aborting
  /\ controller' = None
  /\ phase' = "locked" /\ ownerToken' = None /\ snapshot' = None
  /\ actionBusy' = FALSE /\ newGrantToken' = FALSE
  /\ UNCHANGED <<wire, node, history, changes>>

(***************************************************************************)
(* The node and the network.                                               *)
(***************************************************************************)
Pending(g) == calls[g].at \in {"acting", "fetching"}

\* An answer that nobody waits for any more is dropped.
Reply(g, answer) ==
  wire' = [wire EXCEPT ![g] = IF Pending(g) THEN [asks |-> None, answer |-> answer] ELSE Idle]

\* The node takes an action or refuses it.
ServeAction(g) ==
  /\ wire[g].asks = "action"
  /\ \/ /\ calls[g].token = OwnerToken
        /\ node' = node + 1
        /\ effect' = IF g = generation THEN node + 1 ELSE effect
        /\ Reply(g, Fine(node + 1))
     \/ Reply(g, Failed) /\ UNCHANGED <<node, effect>>
  /\ UNCHANGED <<page, calls, begun, changes>>

ServeSnapshot(g) ==
  /\ wire[g].asks = "snapshot"
  /\ \/ calls[g].token = OwnerToken /\ Reply(g, Fine(node))
     \/ Reply(g, Failed)
  /\ UNCHANGED <<page, calls, node, history, changes>>

\* Robots, clocks and other sessions of the owner.
OthersChange ==
  /\ changes < MaxChanges
  /\ node' = node + 1
  /\ changes' = changes + 1
  /\ UNCHANGED <<page, calls, wire, history>>

(***************************************************************************)
(* The calls: from one await to the next.                                  *)
(***************************************************************************)
Settle(g, answer) ==
  calls' = [calls EXCEPT ![g].at = "settled", ![g].answer = answer]

Returns(g) == calls' = [calls EXCEPT ![g].at = "done", ![g].answer = None]

\* A faulty variant: the snapshot need not be asked for after the action.
ActionArrivesAlone(g) ==
  /\ calls[g].at = "acting" /\ wire[g].answer # None
  /\ wire' = [wire EXCEPT ![g].answer = None]
  /\ Settle(g, IF wire[g].answer.fine THEN Fine(begun) ELSE Failed)
  /\ UNCHANGED <<page, node, history, changes>>

\* After `await action`: a superseded call returns, a current one fetches.
ActionArrives(g) ==
  LET answer == wire[g].answer IN
  /\ calls[g].at = "acting" /\ answer # None
  /\ \/ ~answer.fine /\ Settle(g, Failed) /\ wire' = [wire EXCEPT ![g] = Idle]
     \/ /\ answer.fine /\ generation = g
        /\ calls' = [calls EXCEPT ![g].at = "fetching"]
        /\ wire' = [wire EXCEPT ![g] = [asks |-> "snapshot", answer |-> None]]
     \/ /\ answer.fine /\ generation # g
        /\ Returns(g)
        /\ wire' = [wire EXCEPT ![g] = Idle]
  /\ UNCHANGED <<page, node, history, changes>>

SnapshotArrives(g) ==
  /\ calls[g].at = "fetching" /\ wire[g].answer # None
  /\ Settle(g, wire[g].answer)
  /\ wire' = [wire EXCEPT ![g] = Idle]
  /\ UNCHANGED <<page, node, history, changes>>

\* fetch rejects: it was aborted, the connection broke, or the answer was not
\* one the page accepts.  An action that was sent is lost, or still on its way.
FetchRejects(g) ==
  /\ Pending(g)
  /\ Settle(g, Failed)
  /\ \/ wire' = [wire EXCEPT ![g] = Idle]
     \/ wire[g].asks = "action" /\ UNCHANGED wire
  /\ UNCHANGED <<page, node, history, changes>>

\* The loading surface was visible for MINIMUM_LOADING_VISIBLE_MS.
TimerFires(g) ==
  /\ calls[g].at \notin {"none", "done"} /\ ~calls[g].visible
  /\ calls' = [calls EXCEPT ![g].visible = TRUE]
  /\ UNCHANGED <<page, wire, node, history, changes>>

\* A faulty variant: an error is not caught.
FinishUncaught(g) ==
  LET answer == calls[g].answer IN
  /\ calls[g].at = "settled" /\ calls[g].visible
  /\ Returns(g)
  /\ controller' = IF controller = g THEN None ELSE controller
  /\ IF generation = g /\ answer.fine
     THEN /\ snapshot' = answer.version /\ phase' = "ready" /\ actionBusy' = FALSE
     ELSE UNCHANGED <<snapshot, phase, actionBusy>>
  /\ UNCHANGED <<ownerToken, newGrantToken, generation, wire, node, history, changes>>

\* A faulty variant: the last request is not told apart from a superseded one.
FinishUnchecked(g) ==
  LET answer == calls[g].answer IN
  /\ calls[g].at = "settled" /\ calls[g].visible
  /\ Returns(g)
  /\ controller' = IF controller = g THEN None ELSE controller
  /\ snapshot' = IF answer.fine THEN answer.version ELSE None
  /\ phase' = IF answer.fine THEN "ready" ELSE "error"
  /\ actionBusy' = IF calls[g].kind = "action" THEN FALSE ELSE actionBusy
  /\ UNCHANGED <<ownerToken, newGrantToken, generation, wire, node, history, changes>>

\* A faulty variant: the `finally` clears what may be of a later call.
FinishClearsAll(g) ==
  LET answer == calls[g].answer IN
  /\ calls[g].at = "settled" /\ calls[g].visible
  /\ Returns(g)
  /\ controller' = None
  /\ actionBusy' = IF calls[g].kind = "action" THEN FALSE ELSE actionBusy
  /\ IF generation = g
     THEN /\ snapshot' = IF answer.fine THEN answer.version ELSE None
          /\ phase' = IF answer.fine THEN "ready" ELSE "error"
     ELSE UNCHANGED <<snapshot, phase>>
  /\ UNCHANGED <<ownerToken, newGrantToken, generation, wire, node, history, changes>>

\* A faulty variant: there is no `finally`.
FinishKeepsController(g) ==
  LET answer == calls[g].answer IN
  /\ calls[g].at = "settled" /\ calls[g].visible
  /\ Returns(g)
  /\ IF generation = g
     THEN /\ snapshot' = IF answer.fine THEN answer.version ELSE None
          /\ phase' = IF answer.fine THEN "ready" ELSE "error"
     ELSE UNCHANGED <<snapshot, phase>>
  /\ UNCHANGED <<ownerToken, actionBusy, newGrantToken, generation, controller, wire, node,
                 history, changes>>

\* After `await loadingVisible`, with the `finally`.
Finish(g) ==
  LET answer == calls[g].answer IN
  /\ calls[g].at = "settled" /\ calls[g].visible
  /\ Returns(g)
  /\ controller' = IF controller = g THEN None ELSE controller
  /\ IF generation = g
     THEN /\ snapshot' = IF answer.fine THEN answer.version ELSE None
          /\ phase' = IF answer.fine THEN "ready" ELSE "error"
          /\ actionBusy' = IF calls[g].kind = "action" THEN FALSE ELSE actionBusy
     ELSE UNCHANGED <<snapshot, phase, actionBusy>>
  /\ UNCHANGED <<ownerToken, newGrantToken, generation, wire, node, history, changes>>

CallStep(g) ==
  ActionArrives(g) \/ SnapshotArrives(g) \/ FetchRejects(g) \/ TimerFires(g) \/ Finish(g)

Next ==
  \/ \E t \in Tokens : Connect(t)
  \/ Refresh \/ TypeNewGrantToken \/ Act \/ Lock \/ OthersChange
  \/ \E g \in Calls : ServeAction(g) \/ ServeSnapshot(g) \/ CallStep(g)

Spec == Init /\ [][Next]_vars

\* The node answers or the browser gives up, timers fire, and promises settle.
LiveSpec ==
  Spec /\ \A g \in Calls : WF_vars(ServeAction(g) \/ ServeSnapshot(g) \/ CallStep(g))

(***************************************************************************)
(* Properties.                                                             *)
(***************************************************************************)
Replies == [fine : BOOLEAN, version : Nat]
Answers == Replies \cup {None}
CallRecords ==
  [kind : {"load", "action", None}, token : Tokens \cup {None},
   at : {"none", "acting", "fetching", "settled", "done"},
   answer : Answers, visible : BOOLEAN]
WireRecords == [asks : {"action", "snapshot", None}, answer : Answers]

\* The types of the page, of its calls and of what they have under way; a
\* controller is kept only for a call that has not returned.
TypeOK ==
  /\ phase \in {"locked", "loading", "ready", "error"}
  /\ ownerToken \in Tokens \cup {None}
  /\ snapshot \in Nat \cup {None}
  /\ actionBusy \in BOOLEAN /\ newGrantToken \in BOOLEAN
  /\ generation \in Nat
  /\ controller \in {g \in Calls : calls[g].at \notin {"none", "done"}} \cup {None}
  /\ calls \in [Calls -> CallRecords]
  /\ wire \in [Calls -> WireRecords]
  /\ node \in Nat /\ changes \in Nat
  /\ begun \in Nat /\ effect \in Nat \cup {None}

\* The call the page waits for or whose outcome it shows.
Latest == calls[generation]

\* A locked page stays locked, and keeps no token and no snapshot, whatever
\* answers arrive later; one that is not locked has the owner's token.
LockIsKept ==
  /\ phase = "locked" <=> ownerToken = None
  /\ phase = "locked" => snapshot = None /\ ~actionBusy /\ ~newGrantToken /\ controller = None

\* What the page shows was read with the token it holds, after the last request
\* the owner made had begun and, when that was an action, after it took effect.
ShownIsFresh ==
  /\ snapshot # None <=> phase = "ready"
  /\ phase = "ready" =>
       /\ Latest.token = ownerToken /\ ownerToken = OwnerToken
       /\ snapshot \in begun .. node
       /\ Latest.kind = "action" => effect \in begun + 1 .. snapshot

\* While the page is loading, the owner's cancel reaches the request it waits for,
\* and the buttons are disabled exactly while an action is under way.
LoadingIsLatest ==
  /\ actionBusy <=> phase = "loading" /\ Latest.kind = "action"
  /\ phase = "loading" => controller = generation /\ Latest.at # "done"

\* The page does not stay loading: it comes to show the node, an error or the lock.
LoadingEnds == phase = "loading" ~> phase # "loading"
=============================================================================
