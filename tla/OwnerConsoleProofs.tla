-------------------------- MODULE OwnerConsoleProofs --------------------------
(***************************************************************************)
(* The safety of the owner's page, for any tokens and any number of calls. *)
(* Only the call of the latest generation concerns the page; the invariant *)
(* says what that call and its request can be at each await, and that the  *)
(* generations to come have no call yet.                                   *)
(***************************************************************************)
EXTENDS OwnerConsole, TLAPS

\* A call that was not made: of a generation to come, or of a lock's.
Unborn(g) == g > generation \/ (phase = "locked" /\ g = generation)

\* A call that settled has its answer.
AnsweredInv == \A g \in Calls : calls[g].at = "settled" => calls[g].answer \in Replies

PageInv ==
  /\ \A g \in Calls : Unborn(g) => calls[g] = NoCall /\ wire[g] = Idle
  /\ phase # "locked" => generation \in Calls /\ Latest.token = ownerToken
  /\ phase = "loading" => controller = generation /\ Latest.at \notin {"none", "done"}
  /\ phase # "loading" => controller = None
  /\ phase \in {"ready", "error"} => Latest.at = "done"
  /\ actionBusy <=> phase = "loading" /\ Latest.kind = "action"
  /\ snapshot # None <=> phase = "ready"
  /\ phase = "locked" <=> ownerToken = None
  /\ phase = "locked" => ~newGrantToken

\* A version that the latest call may show.
Good(v) ==
  /\ Latest.token = OwnerToken /\ v \in begun .. node
  /\ Latest.kind = "action" => effect # None /\ effect <= v

NodeInv ==
  /\ begun <= node
  /\ effect # None => effect \in begun + 1 .. node

\* What the latest call has under way, at each of its awaits.
WireInv ==
  phase # "locked" =>
    LET w == wire[generation] IN
    /\ Latest.at = "acting" =>
         /\ w.asks # "snapshot"
         /\ w.answer # None /\ w.answer.fine => effect # None /\ Latest.token = OwnerToken
    /\ Latest.at = "fetching" =>
         /\ w.asks # "action"
         /\ Latest.kind = "action" => effect # None
         /\ w.answer # None /\ w.answer.fine => Good(w.answer.version)
    /\ Latest.at = "settled" /\ Latest.answer.fine =>
         w.asks # "action" /\ Good(Latest.answer.version)
    /\ phase = "ready" => w.asks # "action" /\ Good(snapshot)

ConsoleInv == TypeOK /\ AnsweredInv /\ PageInv /\ NodeInv /\ WireInv

(***************************************************************************)
(* Records.                                                                *)
(***************************************************************************)
LEMMA Values ==
  /\ NoCall \in CallRecords /\ NoCall.at = "none"
  /\ Idle \in WireRecords /\ Idle.asks = None /\ Idle.answer = None
  /\ \A v \in Nat : Fine(v) \in Replies /\ Fine(v).fine /\ Fine(v).version = v
  /\ Failed \in Replies /\ ~Failed.fine
  /\ \A r \in Answers : r # None => r \in Replies
  BY DEF NoCall, Idle, Fine, Failed, CallRecords, WireRecords, Answers, Replies

LEMMA ConsoleInit == Init => ConsoleInv
<1> SUFFICES ASSUME Init PROVE ConsoleInv
  OBVIOUS
<1>1. /\ phase = "locked" /\ ownerToken = None /\ snapshot = None
      /\ actionBusy = FALSE /\ newGrantToken = FALSE
      /\ generation = 0 /\ controller = None
      /\ node = 0 /\ begun = 0 /\ effect = None /\ changes = 0
  BY DEF Init
<1>2. \A g \in Calls : calls[g] = NoCall /\ wire[g] = Idle
  BY DEF Init
<1>3. calls \in [Calls -> CallRecords] /\ wire \in [Calls -> WireRecords]
  BY Values DEF Init
<1>4. TypeOK
  BY <1>1, <1>3 DEF TypeOK
<1>5. AnsweredInv
  BY <1>2, Values DEF AnsweredInv
<1>6. PageInv /\ NodeInv /\ WireInv
  BY <1>1, <1>2 DEF PageInv, NodeInv, WireInv
<1> QED  BY <1>4, <1>5, <1>6 DEF ConsoleInv

(***************************************************************************)
(* What a step does to one call, the others being left alone.              *)
(***************************************************************************)
\* The call of a request that is on its way, or is at an await, was made.
LEMMA Made ==
  ASSUME ConsoleInv, NEW g \in Calls,
         calls[g].at # "none" \/ wire[g].asks \in {"action", "snapshot"}
  PROVE  ~Unborn(g)
  BY Values, OwnerConsoleAssumption DEF ConsoleInv, PageInv

LEMMA PageKept ==
  ASSUME ConsoleInv, UNCHANGED page, NEW g \in Calls, ~Unborn(g),
         \A h \in Calls : h # g => calls'[h] = calls[h] /\ wire'[h] = wire[h],
         calls'[g].kind = calls[g].kind, calls'[g].token = calls[g].token,
         \/ calls'[g].at = calls[g].at
         \/ calls[g].at # "done" /\ calls'[g].at \notin {"none", "done"}
         \/ g # generation
  PROVE  PageInv'
<1>1. \A h \in Calls : Unborn(h)' => Unborn(h) /\ h # g
  BY DEF Unborn, page
<1>2. \A h \in Calls : Unborn(h)' => calls'[h] = NoCall /\ wire'[h] = Idle
  BY <1>1 DEF ConsoleInv, PageInv
<1>3. phase # "locked" => /\ Latest'.token = Latest.token /\ Latest'.kind = Latest.kind
                          /\ \/ Latest'.at = Latest.at
                             \/ Latest.at # "done" /\ Latest'.at \notin {"none", "done"}
  BY DEF ConsoleInv, PageInv, Latest, page
<1> QED  BY <1>2, <1>3 DEF ConsoleInv, PageInv, page

\* The types, when the page keeps to it and no call that it waits for returns.
LEMMA TypesKept ==
  ASSUME ConsoleInv, UNCHANGED page, NEW g \in Calls,
         calls' \in [Calls -> CallRecords], wire' \in [Calls -> WireRecords],
         \A h \in Calls : h # g => calls'[h] = calls[h],
         calls'[g].at = "settled" => calls'[g].answer \in Replies,
         \/ calls'[g].at = calls[g].at
         \/ calls'[g].at \notin {"none", "done"}
         \/ g # generation,
         node' \in Nat, changes' \in Nat, begun' \in Nat, effect' \in Nat \cup {None}
  PROVE  TypeOK' /\ AnsweredInv'
<1>1. AnsweredInv'
  BY DEF ConsoleInv, AnsweredInv
<1>2. controller # None => controller \in Calls /\ controller = generation
  BY DEF ConsoleInv, PageInv, TypeOK
<1>3. controller' \in {h \in Calls : calls'[h].at \notin {"none", "done"}} \cup {None}
  BY <1>2 DEF ConsoleInv, TypeOK, page
<1> QED  BY <1>1, <1>3 DEF ConsoleInv, TypeOK, page

\* A step of another call than the latest leaves what is said of the latest.
LEMMA OtherCall ==
  ASSUME ConsoleInv, UNCHANGED <<page, history>>, NEW g \in Calls, g # generation,
         \A h \in Calls : h # g => calls'[h] = calls[h] /\ wire'[h] = wire[h],
         node' \in Nat, node <= node'
  PROVE  NodeInv' /\ WireInv'
<1>1. phase # "locked" => Latest' = Latest /\ wire'[generation'] = wire[generation]
  BY DEF ConsoleInv, PageInv, Latest, page
<1>2. /\ begun \in Nat /\ node \in Nat /\ effect \in Nat \cup {None}
      /\ begun' = begun /\ effect' = effect /\ phase' = phase /\ snapshot' = snapshot
  BY DEF ConsoleInv, TypeOK, page, history
<1>3. phase # "locked" => \A v : Good(v) => Good(v)'
  BY <1>1, <1>2 DEF Good
<1>4. NodeInv'
  BY <1>2 DEF ConsoleInv, NodeInv
<1>5. WireInv'
  BY <1>1, <1>2, <1>3 DEF ConsoleInv, WireInv
<1> QED  BY <1>4, <1>5

(***************************************************************************)
(* The owner's steps that begin a call or lock the page.                   *)
(***************************************************************************)
LEMMA AbortFacts ==
  ASSUME ConsoleInv
  PROVE  /\ Aborting \in [Calls -> CallRecords]
         /\ \A h \in Calls :
              /\ Aborting[h].kind = calls[h].kind /\ Aborting[h].token = calls[h].token
              /\ Aborting[h].at = calls[h].at /\ Aborting[h].answer = calls[h].answer
              /\ h # controller => Aborting[h] = calls[h]
<1>1. \A h \in Calls : calls[h] \in CallRecords
  BY DEF ConsoleInv, TypeOK
<1>2. \A h \in Calls : [calls[h] EXCEPT !.visible = TRUE] \in CallRecords
  BY <1>1 DEF CallRecords
<1>3. \A h \in Calls :
        LET c == [calls[h] EXCEPT !.visible = TRUE] IN
        c.kind = calls[h].kind /\ c.token = calls[h].token /\ c.at = calls[h].at
          /\ c.answer = calls[h].answer
  BY <1>1 DEF CallRecords
<1> QED  BY <1>1, <1>2, <1>3 DEF Aborting

\* The controller is of a call that was made.
LEMMA UnbornFree ==
  ASSUME ConsoleInv, NEW h \in Calls, Unborn(h)
  PROVE  h # controller
<1>1. calls[h] = NoCall
  BY DEF ConsoleInv, PageInv
<1>2. h # None
  BY OwnerConsoleAssumption DEF Calls
<1>3. controller # None => calls[controller].at \notin {"none", "done"}
  BY DEF ConsoleInv, TypeOK
<1> QED  BY <1>1, <1>2, <1>3, Values

LEMMA BeginStep ==
  ASSUME ConsoleInv, NEW kind \in {"load", "action"}, NEW token \in Tokens, Begin(kind, token),
         ownerToken' = token, newGrantToken' \in BOOLEAN, actionBusy' = (kind = "action")
  PROVE  ConsoleInv'
<1> DEFINE g == generation + 1
           call == [NoCall EXCEPT !.kind = kind, !.token = token,
                                  !.at = IF kind = "action" THEN "acting" ELSE "fetching"]
           asks == IF kind = "action" THEN "action" ELSE "snapshot"
           sent == [wire[g] EXCEPT !.asks = asks]
<1>1. /\ generation' = g /\ controller' = g /\ snapshot' = None /\ phase' = "loading"
      /\ calls' = [Aborting EXCEPT ![g] = call] /\ wire' = [wire EXCEPT ![g].asks = asks]
      /\ begun' = node /\ effect' = None /\ node' = node /\ changes' = changes
      /\ generation < MaxGenerations
  BY DEF Begin
<1>2. generation \in Nat /\ g \in Calls /\ node \in Nat /\ changes \in Nat
  BY <1>1, OwnerConsoleAssumption DEF ConsoleInv, TypeOK, Calls
<1>3. wire[g] = Idle
  BY <1>2 DEF ConsoleInv, PageInv, Unborn
<1>4. /\ sent \in WireRecords /\ sent.asks = asks /\ sent.answer = None
  BY <1>3 DEF Idle, WireRecords, Answers
<1>5. /\ call \in CallRecords /\ call.kind = kind /\ call.token = token
      /\ call.at = (IF kind = "action" THEN "acting" ELSE "fetching") /\ call.answer = None
  BY DEF NoCall, CallRecords, Answers
<1>6. wire \in [Calls -> WireRecords]
  BY DEF ConsoleInv, TypeOK
<1>7. /\ wire' \in [Calls -> WireRecords] /\ wire'[g] = sent
      /\ \A h \in Calls : h # g => wire'[h] = wire[h]
  <2>1. wire' = [wire EXCEPT ![g] = sent]
    BY <1>1
  <2> HIDE DEF sent
  <2> QED  BY <1>2, <1>4, <1>6, <2>1
<1>8. /\ calls' \in [Calls -> CallRecords] /\ calls'[g] = call
      /\ \A h \in Calls : h # g => calls'[h].at = calls[h].at /\ calls'[h].answer = calls[h].answer
      /\ \A h \in Calls : h # g /\ h # controller => calls'[h] = calls[h]
  <2> HIDE DEF call, g
  <2> QED  BY <1>1, <1>2, <1>5, AbortFacts
<1> HIDE DEF call, sent, asks
<1>9. TypeOK'
  <2>1. controller' \in {h \in Calls : calls'[h].at \notin {"none", "done"}} \cup {None}
    BY <1>1, <1>2, <1>5, <1>8
  <2>2. generation' \in Nat /\ actionBusy' \in BOOLEAN
    BY <1>1, <1>2
  <2> QED  BY <1>1, <1>2, <1>7, <1>8, <2>1, <2>2 DEF TypeOK
<1>10. AnsweredInv'
  BY <1>5, <1>8 DEF ConsoleInv, AnsweredInv
<1>11. PageInv'
  <2>1. \A h \in Calls : Unborn(h)' => Unborn(h) /\ h # g /\ h # generation
    BY <1>1, <1>2 DEF Unborn, Calls
  <2>2. \A h \in Calls : Unborn(h) => h # controller
    BY UnbornFree
  <2>3. \A h \in Calls : Unborn(h)' => calls'[h] = NoCall /\ wire'[h] = Idle
    BY <1>7, <1>8, <2>1, <2>2 DEF ConsoleInv, PageInv
  <2>4. Latest' = call
    BY <1>1, <1>8 DEF Latest
  <2>5. token # None
    BY OwnerConsoleAssumption
  <2> QED  BY <1>1, <1>2, <1>5, <2>3, <2>4, <2>5 DEF PageInv
<1>12. NodeInv'
  BY <1>1, <1>2 DEF NodeInv
<1>13. WireInv'
  <2>1. Latest' = call /\ wire'[generation'] = sent
    BY <1>1, <1>7, <1>8 DEF Latest
  <2>2. CASE kind = "action"
    BY <1>1, <1>4, <1>5, <2>1, <2>2 DEF WireInv, asks
  <2>3. CASE kind = "load"
    <3>1. sent.asks = "snapshot" /\ sent.answer = None
      BY <1>4, <2>3 DEF asks
    <3>2. call.at = "fetching" /\ call.kind = "load"
      BY <1>5, <2>3
    <3> QED  BY <1>1, <2>1, <3>1, <3>2 DEF WireInv
  <2> QED  BY <2>2, <2>3
<1> QED  BY <1>9, <1>10, <1>11, <1>12, <1>13 DEF ConsoleInv

LEMMA OwnerStep ==
  ASSUME ConsoleInv, (\E t \in Tokens : Connect(t)) \/ Refresh \/ Act
  PROVE  ConsoleInv'
<1>1. ASSUME NEW t \in Tokens, Connect(t) PROVE ConsoleInv'
  <2>1. Begin("load", t) /\ ownerToken' = t /\ newGrantToken' = newGrantToken /\ actionBusy' = FALSE
    BY <1>1 DEF Connect, ConsoleInv, PageInv
  <2> QED  BY <2>1, BeginStep DEF ConsoleInv, TypeOK
<1>2. phase # "locked" => ownerToken \in Tokens
  BY DEF ConsoleInv, PageInv, TypeOK
<1>3. CASE Refresh
  <2>1. /\ Begin("load", ownerToken) /\ ownerToken' = ownerToken /\ newGrantToken' = newGrantToken
        /\ actionBusy' = FALSE /\ phase # "locked"
    BY <1>3 DEF Refresh, ConsoleInv, PageInv
  <2> QED  BY <1>2, <2>1, BeginStep DEF ConsoleInv, TypeOK
<1>4. CASE Act
  <2>1. /\ Begin("action", ownerToken) /\ ownerToken' = ownerToken /\ newGrantToken' \in BOOLEAN
        /\ actionBusy' = TRUE /\ phase # "locked"
    BY <1>4 DEF Act, ConsoleInv, TypeOK
  <2> QED  BY <1>2, <2>1, BeginStep
<1> QED  BY <1>1, <1>3, <1>4

LEMMA LockStep ==
  ASSUME ConsoleInv, Lock
  PROVE  ConsoleInv'
<1>1. /\ phase # "locked" /\ generation' = generation + 1 /\ calls' = Aborting
      /\ controller' = None /\ phase' = "locked" /\ ownerToken' = None /\ snapshot' = None
      /\ actionBusy' = FALSE /\ newGrantToken' = FALSE
      /\ UNCHANGED <<wire, node, begun, effect, changes>>
  BY DEF Lock, history
<1>2. generation \in Nat
  BY DEF ConsoleInv, TypeOK
<1>3. TypeOK'
  <2>1. calls' \in [Calls -> CallRecords] /\ generation' \in Nat
    BY <1>1, <1>2, AbortFacts
  <2> QED  BY <1>1, <2>1 DEF ConsoleInv, TypeOK
<1>4. AnsweredInv'
  BY <1>1, AbortFacts DEF ConsoleInv, AnsweredInv
<1>5. PageInv'
  <2>1. \A h \in Calls : Unborn(h)' => Unborn(h)
    BY <1>1, <1>2 DEF Unborn, Calls
  <2>2. \A h \in Calls : Unborn(h)' => calls'[h] = NoCall /\ wire'[h] = Idle
    BY <1>1, <2>1, AbortFacts, UnbornFree DEF ConsoleInv, PageInv
  <2> QED  BY <1>1, <2>2 DEF PageInv
<1>6. NodeInv' /\ WireInv'
  BY <1>1 DEF ConsoleInv, NodeInv, WireInv
<1> QED  BY <1>3, <1>4, <1>5, <1>6 DEF ConsoleInv

LEMMA TypeStep ==
  ASSUME ConsoleInv, TypeNewGrantToken
  PROVE  ConsoleInv'
<1>1. /\ phase = "ready" /\ newGrantToken' = TRUE
      /\ UNCHANGED <<phase, ownerToken, snapshot, actionBusy, generation, controller, calls, wire,
                     node, begun, effect, changes>>
  BY DEF TypeNewGrantToken, history
<1>2. TypeOK' /\ AnsweredInv' /\ NodeInv'
  BY <1>1 DEF ConsoleInv, TypeOK, AnsweredInv, NodeInv
<1>3. PageInv'
  BY <1>1 DEF ConsoleInv, PageInv, Unborn, Latest
<1>4. WireInv'
  BY <1>1 DEF ConsoleInv, WireInv, Good, Latest
<1> QED  BY <1>2, <1>3, <1>4 DEF ConsoleInv

(***************************************************************************)
(* The steps of the node, of the network and of a call.                    *)
(***************************************************************************)
LEMMA CallKept ==
  ASSUME ConsoleInv, UNCHANGED <<page, begun>>, NEW g \in Calls, ~Unborn(g),
         NEW c \in CallRecords, NEW w \in WireRecords,
         calls' = [calls EXCEPT ![g] = c], wire' = [wire EXCEPT ![g] = w],
         c.kind = calls[g].kind, c.token = calls[g].token,
         \/ c.at = calls[g].at
         \/ calls[g].at # "done" /\ c.at \notin {"none", "done"}
         \/ g # generation,
         c.at = "settled" => c.answer \in Replies,
         node' \in Nat, node <= node', changes' \in Nat, effect' \in Nat \cup {None},
         g # generation => effect' = effect,
         g = generation => NodeInv' /\ WireInv'
  PROVE  ConsoleInv'
<1>1. /\ calls \in [Calls -> CallRecords] /\ wire \in [Calls -> WireRecords] /\ begun \in Nat
  BY DEF ConsoleInv, TypeOK
<1>2. /\ calls' \in [Calls -> CallRecords] /\ calls'[g] = c
      /\ wire' \in [Calls -> WireRecords] /\ wire'[g] = w
      /\ \A h \in Calls : h # g => calls'[h] = calls[h] /\ wire'[h] = wire[h]
  BY <1>1
<1>3. TypeOK' /\ AnsweredInv'
  BY <1>1, <1>2, TypesKept
<1>4. PageInv'
  BY <1>2, PageKept
<1>5. NodeInv' /\ WireInv'
  <2>1. CASE g # generation
    BY <1>2, <2>1, OtherCall DEF history
  <2> QED  BY <2>1
<1> QED  BY <1>3, <1>4, <1>5 DEF ConsoleInv

\* What is known of a call, its request and the node.
LEMMA CallFacts ==
  ASSUME ConsoleInv, NEW g \in Calls
  PROVE  /\ calls[g] \in CallRecords /\ wire[g] \in WireRecords
         /\ calls = [calls EXCEPT ![g] = calls[g]] /\ wire = [wire EXCEPT ![g] = wire[g]]
         /\ node \in Nat /\ begun \in Nat /\ changes \in Nat /\ effect \in Nat \cup {None}
         /\ calls[g].at = "settled" => calls[g].answer \in Replies
         /\ calls[g].at # "none" \/ wire[g].asks \in {"action", "snapshot"} => ~Unborn(g)
         /\ g = generation => Latest = calls[g]
         /\ g = generation /\ ~Unborn(g) => phase # "locked"
         /\ generation' = generation => (g = generation => Latest' = calls'[g])
<1>1. /\ calls \in [Calls -> CallRecords] /\ wire \in [Calls -> WireRecords]
      /\ node \in Nat /\ begun \in Nat /\ changes \in Nat /\ effect \in Nat \cup {None}
  BY DEF ConsoleInv, TypeOK
<1>2. calls[g].at = "settled" => calls[g].answer \in Replies
  BY DEF ConsoleInv, AnsweredInv
<1>3. calls[g].at # "none" \/ wire[g].asks \in {"action", "snapshot"} => ~Unborn(g)
  BY Made
<1>4. g = generation /\ ~Unborn(g) => phase # "locked"
  BY DEF Unborn
<1> QED  BY <1>1, <1>2, <1>3, <1>4 DEF Latest

LEMMA ServeActionStep ==
  ASSUME ConsoleInv, NEW g \in Calls, ServeAction(g)
  PROVE  ConsoleInv'
<1>1. /\ wire[g].asks = "action"
      /\ UNCHANGED <<page, calls, begun, changes>>
  BY DEF ServeAction
<1>2. ~Unborn(g)
  BY <1>1, CallFacts
<1>3. PICK a \in Replies :
        /\ \/ /\ calls[g].token = OwnerToken /\ node' = node + 1
              /\ effect' = IF g = generation THEN node + 1 ELSE effect
           \/ ~a.fine /\ node' = node /\ effect' = effect
        /\ Reply(g, a)
  BY CallFacts, Values DEF ServeAction
<1> DEFINE w == IF Pending(g) THEN [asks |-> None, answer |-> a] ELSE Idle
<1>4. /\ w \in WireRecords /\ wire' = [wire EXCEPT ![g] = w]
      /\ w.asks = None /\ w.answer \in {a, None}
  BY <1>3, Values DEF Reply, WireRecords, Answers
<1> HIDE DEF w
<1>5. /\ node' \in Nat /\ node <= node' /\ effect' \in Nat \cup {None} /\ changes' \in Nat
      /\ g # generation => effect' = effect
  BY <1>1, <1>3, CallFacts
<1>6. ASSUME g = generation PROVE NodeInv' /\ WireInv'
  <2>1. phase # "locked" /\ Latest' = calls[g] /\ Latest = calls[g]
    BY <1>1, <1>2, <1>6, CallFacts DEF page
  <2>2. wire'[generation'] = w /\ phase' = phase
    BY <1>1, <1>4, <1>6 DEF page, ConsoleInv, TypeOK
  <2>3. NodeInv'
    BY <1>1, <1>3, <1>6, CallFacts DEF ConsoleInv, NodeInv
  <2>4. /\ calls[g].at # "fetching" /\ phase # "ready"
        /\ ~(calls[g].at = "settled" /\ calls[g].answer.fine)
    BY <1>1, <1>6, <2>1 DEF ConsoleInv, WireInv
  <2>5. w.answer # None /\ w.answer.fine => effect' # None /\ calls[g].token = OwnerToken
    <3>1. w.answer # None => w.answer = a
      BY <1>4
    <3>2. node + 1 # None
      BY CallFacts, OwnerConsoleAssumption
    <3> QED  BY <1>3, <1>6, <3>1, <3>2
  <2>6. w.asks # "snapshot"
    BY <1>4, OwnerConsoleAssumption
  <2> QED  BY <2>1, <2>2, <2>3, <2>4, <2>5, <2>6 DEF WireInv
<1> QED  BY <1>1, <1>2, <1>4, <1>5, <1>6, CallFacts, CallKept

LEMMA ServeSnapshotStep ==
  ASSUME ConsoleInv, NEW g \in Calls, ServeSnapshot(g)
  PROVE  ConsoleInv'
<1>1. /\ wire[g].asks = "snapshot"
      /\ UNCHANGED <<page, calls, node, begun, effect, changes>>
  BY DEF ServeSnapshot, history
<1>2. ~Unborn(g)
  BY <1>1, CallFacts
<1>3. PICK a \in Replies :
        /\ a.fine => calls[g].token = OwnerToken /\ a.version = node
        /\ Reply(g, a)
  BY CallFacts, Values DEF ServeSnapshot
<1>4. PICK w \in WireRecords : /\ wire' = [wire EXCEPT ![g] = w]
                              /\ w.asks = None /\ w.answer \in {a, None}
  <2> DEFINE u == IF Pending(g) THEN [asks |-> None, answer |-> a] ELSE Idle
  <2>1. u \in WireRecords /\ u.asks = None /\ u.answer \in {a, None}
    BY Values DEF WireRecords, Answers
  <2> QED  BY <1>3, <2>1 DEF Reply
<1>5. ASSUME g = generation PROVE NodeInv' /\ WireInv'
  <2>1. phase # "locked" /\ Latest' = calls[g] /\ Latest = calls[g]
    BY <1>1, <1>2, <1>5, CallFacts DEF page
  <2>2. wire'[generation'] = w /\ phase' = phase /\ snapshot' = snapshot
    BY <1>1, <1>4, <1>5 DEF page, ConsoleInv, TypeOK
  <2>3. NodeInv'
    BY <1>1 DEF ConsoleInv, NodeInv
  <2>4. calls[g].at # "acting"
    BY <1>1, <1>5, <2>1 DEF ConsoleInv, WireInv
  <2>6. calls[g].at = "fetching" => (calls[g].kind = "action" => effect # None)
    BY <1>5, <2>1 DEF ConsoleInv, WireInv
  <2>7. calls[g].at = "fetching" /\ w.answer # None /\ w.answer.fine => Good(w.answer.version)
    <3>1. SUFFICES ASSUME calls[g].at = "fetching", w.answer # None, w.answer.fine
                   PROVE  Good(w.answer.version)
      OBVIOUS
    <3>2. w.answer = a
      BY <1>4, <3>1
    <3>3. calls[g].token = OwnerToken /\ w.answer.version = node
      BY <1>3, <3>1, <3>2
    <3> QED  BY <2>1, <2>6, <3>1, <3>3, CallFacts DEF Good, ConsoleInv, NodeInv
  <2>8. w.asks # "action"
    BY <1>4, OwnerConsoleAssumption
  <2>9. /\ calls[g].at = "settled" /\ calls[g].answer.fine => Good(calls[g].answer.version)
        /\ phase = "ready" => Good(snapshot)
    BY <1>5, <2>1 DEF ConsoleInv, WireInv
  <2>10. \A v : Good(v)' <=> Good(v)
    BY <1>1, <2>1 DEF Good
  <2>11. WireInv'
    BY <1>1, <2>1, <2>2, <2>4, <2>6, <2>7, <2>8, <2>9, <2>10 DEF WireInv
  <2> QED  BY <2>3, <2>11
<1>6. /\ calls' = [calls EXCEPT ![g] = calls[g]] /\ calls[g] \in CallRecords
      /\ calls[g].at = "settled" => calls[g].answer \in Replies
      /\ node' \in Nat /\ node <= node' /\ changes' \in Nat /\ effect' \in Nat \cup {None}
      /\ effect' = effect /\ UNCHANGED <<page, begun>>
  BY <1>1, CallFacts
<1> QED  BY <1>2, <1>4, <1>5, <1>6, CallKept

LEMMA OthersChangeStep ==
  ASSUME ConsoleInv, OthersChange
  PROVE  ConsoleInv'
<1>1. /\ node' = node + 1 /\ changes' = changes + 1
      /\ UNCHANGED <<page, calls, wire, begun, effect>>
  BY DEF OthersChange, history
<1>2. node \in Nat /\ begun \in Nat /\ changes \in Nat /\ effect \in Nat \cup {None}
  BY DEF ConsoleInv, TypeOK
<1>3. TypeOK' /\ AnsweredInv' /\ PageInv' /\ NodeInv'
  BY <1>1, <1>2 DEF ConsoleInv, TypeOK, AnsweredInv, PageInv, NodeInv, Unborn, Latest, page
<1>4. \A v : Good(v) => Good(v)'
  BY <1>1, <1>2 DEF Good, Latest, page
<1>5. WireInv'
  <2>1. Latest' = Latest /\ phase' = phase /\ snapshot' = snapshot
          /\ wire'[generation'] = wire[generation]
    BY <1>1 DEF Latest, page
  <2> QED  BY <1>1, <1>4, <2>1 DEF ConsoleInv, WireInv
<1> QED  BY <1>3, <1>5 DEF ConsoleInv

LEMMA ActionArrivesStep ==
  ASSUME ConsoleInv, NEW g \in Calls, ActionArrives(g)
  PROVE  ConsoleInv'
<1>1. /\ calls[g].at = "acting" /\ wire[g].answer # None
      /\ UNCHANGED <<page, node, begun, effect, changes>>
  BY DEF ActionArrives, history
<1>2. ~Unborn(g) /\ calls[g] \in CallRecords
  BY <1>1, CallFacts
<1>3. PICK c \in CallRecords, w \in WireRecords :
        /\ calls' = [calls EXCEPT ![g] = c] /\ wire' = [wire EXCEPT ![g] = w]
        /\ c.kind = calls[g].kind /\ c.token = calls[g].token
        /\ \/ c.at = "settled" /\ c.answer = Failed
           \/ /\ c.at = "fetching" /\ w.asks = "snapshot" /\ w.answer = None
              /\ wire[g].answer.fine
           \/ c.at = "done" /\ g # generation
  <2>1. CASE Settle(g, Failed) /\ wire' = [wire EXCEPT ![g] = Idle]
    <3> DEFINE c == [calls[g] EXCEPT !.at = "settled", !.answer = Failed]
    <3>1. c \in CallRecords /\ c.kind = calls[g].kind /\ c.token = calls[g].token
            /\ c.at = "settled" /\ c.answer = Failed
      BY <1>2, Values DEF CallRecords, Answers
    <3> QED  BY <2>1, <3>1, Values DEF Settle
  <2>2. CASE /\ wire[g].answer.fine
             /\ calls' = [calls EXCEPT ![g].at = "fetching"]
             /\ wire' = [wire EXCEPT ![g] = [asks |-> "snapshot", answer |-> None]]
    <3> DEFINE c == [calls[g] EXCEPT !.at = "fetching"]
               w == [asks |-> "snapshot", answer |-> None]
    <3>1. c \in CallRecords /\ c.kind = calls[g].kind /\ c.token = calls[g].token
            /\ c.at = "fetching"
      BY <1>2 DEF CallRecords
    <3>2. w \in WireRecords /\ w.asks = "snapshot" /\ w.answer = None
      BY DEF WireRecords, Answers
    <3> QED  BY <2>2, <3>1, <3>2
  <2>3. CASE generation # g /\ Returns(g) /\ wire' = [wire EXCEPT ![g] = Idle]
    <3> DEFINE c == [calls[g] EXCEPT !.at = "done", !.answer = None]
    <3>1. c \in CallRecords /\ c.kind = calls[g].kind /\ c.token = calls[g].token
            /\ c.at = "done"
      BY <1>2 DEF CallRecords, Answers
    <3> QED  BY <2>3, <3>1, Values DEF Returns
  <2> QED  BY <2>1, <2>2, <2>3 DEF ActionArrives
<1>4. ASSUME g = generation PROVE NodeInv' /\ WireInv'
  <2>1. phase # "locked" /\ Latest = calls[g] /\ phase' = phase /\ phase # "ready"
    BY <1>1, <1>2, <1>4, CallFacts DEF page, ConsoleInv, PageInv
  <2>2. wire'[generation'] = w /\ Latest' = c
    BY <1>1, <1>3, <1>4 DEF page, ConsoleInv, TypeOK, Latest
  <2>3. NodeInv'
    BY <1>1 DEF ConsoleInv, NodeInv
  <2>4. wire[g].answer.fine => effect # None
    BY <1>1, <1>4, <2>1 DEF ConsoleInv, WireInv
  <2>5. WireInv'
    <3>1. CASE c.at = "settled" /\ c.answer = Failed
      BY <2>1, <2>2, <3>1, Values DEF WireInv
    <3>2. CASE c.at = "fetching" /\ w.asks = "snapshot" /\ w.answer = None /\ effect # None
      BY <1>1, <2>1, <2>2, <3>2 DEF WireInv
    <3> QED  BY <1>3, <1>4, <2>4, <3>1, <3>2
  <2> QED  BY <2>3, <2>5
<1>5. /\ c.at = "settled" => c.answer \in Replies
      /\ node' \in Nat /\ node <= node' /\ changes' \in Nat /\ effect' \in Nat \cup {None}
      /\ effect' = effect /\ UNCHANGED <<page, begun>>
  BY <1>1, <1>3, CallFacts, Values
<1> QED  BY <1>1, <1>2, <1>3, <1>4, <1>5, CallKept

\* A call that settles: its request is over, or was an action that may yet come.
LEMMA SettleStep ==
  ASSUME ConsoleInv, NEW g \in Calls, Pending(g), NEW answer \in Replies, NEW w \in WireRecords,
         Settle(g, answer), wire' = [wire EXCEPT ![g] = w],
         g = generation /\ answer.fine => w.asks # "action" /\ Good(answer.version),
         UNCHANGED <<page, node, begun, effect, changes>>
  PROVE  ConsoleInv'
<1>1. ~Unborn(g) /\ calls[g] \in CallRecords /\ calls[g].at \in {"acting", "fetching"}
  BY CallFacts DEF Pending
<1>2. PICK c \in CallRecords :
        /\ calls' = [calls EXCEPT ![g] = c]
        /\ c.kind = calls[g].kind /\ c.token = calls[g].token
        /\ c.at = "settled" /\ c.answer = answer
  <2> DEFINE c == [calls[g] EXCEPT !.at = "settled", !.answer = answer]
  <2>1. c \in CallRecords /\ c.kind = calls[g].kind /\ c.token = calls[g].token
          /\ c.at = "settled" /\ c.answer = answer
    BY <1>1 DEF CallRecords, Answers
  <2> QED  BY <2>1 DEF Settle
<1>3. ASSUME g = generation PROVE NodeInv' /\ WireInv'
  <2>1. phase # "locked" /\ Latest = calls[g] /\ phase' = phase /\ phase # "ready"
    BY <1>1, <1>3, CallFacts DEF page, ConsoleInv, PageInv
  <2>2. wire'[generation'] = w /\ Latest' = c
    BY <1>2, <1>3 DEF page, ConsoleInv, TypeOK, Latest
  <2>3. NodeInv'
    BY DEF ConsoleInv, NodeInv
  <2>4. \A v : Good(v) => Good(v)'
    BY <1>2, <2>1, <2>2 DEF Good
  <2>5. WireInv'
    BY <1>2, <1>3, <2>1, <2>2, <2>4 DEF WireInv
  <2> QED  BY <2>3, <2>5
<1>4. /\ node' \in Nat /\ node <= node' /\ changes' \in Nat /\ effect' \in Nat \cup {None}
      /\ effect' = effect /\ UNCHANGED <<page, begun>>
  BY CallFacts
<1> QED  BY <1>1, <1>2, <1>3, <1>4, CallKept

LEMMA SnapshotArrivesStep ==
  ASSUME ConsoleInv, NEW g \in Calls, SnapshotArrives(g)
  PROVE  ConsoleInv'
<1>1. /\ Pending(g) /\ calls[g].at = "fetching" /\ Settle(g, wire[g].answer)
      /\ wire' = [wire EXCEPT ![g] = Idle] /\ wire[g].answer # None
      /\ UNCHANGED <<page, node, begun, effect, changes>>
  BY DEF SnapshotArrives, Pending, history
<1>2. wire[g].answer \in Replies
  BY <1>1, CallFacts, Values DEF WireRecords
<1>3. g = generation /\ wire[g].answer.fine =>
        Idle.asks # "action" /\ Good(wire[g].answer.version)
  <2>1. g = generation => phase # "locked" /\ Latest = calls[g]
    BY <1>1, CallFacts
  <2> QED  BY <1>1, <2>1, Values, OwnerConsoleAssumption DEF ConsoleInv, WireInv
<1> QED  BY <1>1, <1>2, <1>3, Values, SettleStep

LEMMA FetchRejectsStep ==
  ASSUME ConsoleInv, NEW g \in Calls, FetchRejects(g)
  PROVE  ConsoleInv'
<1>1. /\ Pending(g) /\ Settle(g, Failed)
      /\ wire' = [wire EXCEPT ![g] = Idle] \/ wire' = wire
      /\ UNCHANGED <<page, node, begun, effect, changes>>
  BY DEF FetchRejects, history
<1>2. PICK w \in WireRecords : wire' = [wire EXCEPT ![g] = w]
  BY <1>1, CallFacts, Values
<1> QED  BY <1>1, <1>2, Values, SettleStep

LEMMA TimerFiresStep ==
  ASSUME ConsoleInv, NEW g \in Calls, TimerFires(g)
  PROVE  ConsoleInv'
<1>1. /\ calls[g].at # "none" /\ calls' = [calls EXCEPT ![g].visible = TRUE]
      /\ UNCHANGED <<page, wire, node, begun, effect, changes>>
  BY DEF TimerFires, history
<1>2. ~Unborn(g) /\ calls[g] \in CallRecords /\ wire[g] \in WireRecords
  BY <1>1, CallFacts
<1>3. PICK c \in CallRecords :
        /\ calls' = [calls EXCEPT ![g] = c]
        /\ c.kind = calls[g].kind /\ c.token = calls[g].token
        /\ c.at = calls[g].at /\ c.answer = calls[g].answer
  <2> DEFINE c == [calls[g] EXCEPT !.visible = TRUE]
  <2>1. c \in CallRecords /\ c.kind = calls[g].kind /\ c.token = calls[g].token
          /\ c.at = calls[g].at /\ c.answer = calls[g].answer
    BY <1>2 DEF CallRecords
  <2> QED  BY <1>1, <2>1
<1>4. ASSUME g = generation PROVE NodeInv' /\ WireInv'
  <2>1. phase # "locked" /\ Latest = calls[g] /\ phase' = phase /\ snapshot' = snapshot
    BY <1>1, <1>2, <1>4, CallFacts DEF page
  <2>2. wire'[generation'] = wire[generation] /\ Latest' = c
    BY <1>1, <1>3, <1>4 DEF page, ConsoleInv, TypeOK, Latest
  <2>3. NodeInv'
    BY <1>1 DEF ConsoleInv, NodeInv
  <2>4. \A v : Good(v) => Good(v)'
    BY <1>1, <1>3, <2>1, <2>2 DEF Good
  <2>5. effect' = effect
    BY <1>1
  <2>6. WireInv'
    BY <1>3, <2>1, <2>2, <2>4, <2>5 DEF ConsoleInv, WireInv
  <2> QED  BY <2>3, <2>6
<1>5. /\ c.at = "settled" => c.answer \in Replies
      /\ wire' = [wire EXCEPT ![g] = wire[g]]
      /\ node' \in Nat /\ node <= node' /\ changes' \in Nat /\ effect' \in Nat \cup {None}
      /\ effect' = effect /\ UNCHANGED <<page, begun>>
  BY <1>1, <1>3, CallFacts
<1> QED  BY <1>2, <1>3, <1>4, <1>5, CallKept

LEMMA FinishStep ==
  ASSUME ConsoleInv, NEW g \in Calls, Finish(g)
  PROVE  ConsoleInv'
<1> DEFINE answer == calls[g].answer
<1>1. /\ calls[g].at = "settled" /\ Returns(g)
      /\ controller' = IF controller = g THEN None ELSE controller
      /\ UNCHANGED <<ownerToken, newGrantToken, generation, wire, node, begun, effect, changes>>
  BY DEF Finish, history
<1>2. /\ ~Unborn(g) /\ calls[g] \in CallRecords /\ wire[g] \in WireRecords /\ answer \in Replies
      /\ calls \in [Calls -> CallRecords] /\ wire \in [Calls -> WireRecords]
  BY <1>1, CallFacts DEF ConsoleInv, TypeOK
<1>3. PICK c \in CallRecords :
        /\ calls' = [calls EXCEPT ![g] = c]
        /\ c.kind = calls[g].kind /\ c.token = calls[g].token /\ c.at = "done"
  <2> DEFINE c == [calls[g] EXCEPT !.at = "done", !.answer = None]
  <2>1. c \in CallRecords /\ c.kind = calls[g].kind /\ c.token = calls[g].token /\ c.at = "done"
    BY <1>2 DEF CallRecords, Answers
  <2> QED  BY <1>1, <2>1 DEF Returns
<1>4. CASE g # generation
  <2>1. controller # g
    BY <1>4, OwnerConsoleAssumption DEF ConsoleInv, PageInv, Calls
  <2>2. UNCHANGED <<page, begun>>
    BY <1>1, <1>4, <2>1 DEF Finish, page
  <2>3. /\ wire' = [wire EXCEPT ![g] = wire[g]]
        /\ node' \in Nat /\ node <= node' /\ changes' \in Nat /\ effect' \in Nat \cup {None}
        /\ effect' = effect
    BY <1>1, CallFacts
  <2> QED  BY <1>2, <1>3, <1>4, <2>2, <2>3, CallKept
<1>5. CASE g = generation
  <2>1. /\ phase = "loading" /\ controller = g /\ Latest = calls[g]
        /\ calls[g].token = ownerToken /\ ownerToken # None
        /\ actionBusy <=> calls[g].kind = "action"
    BY <1>1, <1>2, <1>5, CallFacts DEF ConsoleInv, PageInv, TypeOK
  <2>2. /\ controller' = None /\ actionBusy' = FALSE
        /\ \/ answer.fine /\ snapshot' = answer.version /\ phase' = "ready"
           \/ ~answer.fine /\ snapshot' = None /\ phase' = "error"
    BY <1>1, <1>5, <2>1 DEF Finish, ConsoleInv, TypeOK
  <2>3. /\ calls' \in [Calls -> CallRecords] /\ calls'[g] = c
        /\ \A h \in Calls : h # g => calls'[h] = calls[h]
    BY <1>2, <1>3
  <2>4. Latest' = c
    BY <1>1, <1>5, <2>3 DEF Latest
  <2>5. snapshot' \in Nat \cup {None} /\ (snapshot' # None <=> phase' = "ready")
    BY <1>2, <2>2, OwnerConsoleAssumption DEF Replies
  <2>6. TypeOK'
    BY <1>1, <2>2, <2>3, <2>5 DEF ConsoleInv, TypeOK
  <2>7. AnsweredInv'
    BY <1>3, <2>3 DEF ConsoleInv, AnsweredInv
  <2>8. PageInv'
    <3>1. \A h \in Calls : Unborn(h)' => Unborn(h) /\ h # g
      BY <1>1, <1>2, <2>2, <1>5 DEF Unborn
    <3>2. \A h \in Calls : Unborn(h)' => calls'[h] = NoCall /\ wire'[h] = Idle
      BY <1>1, <2>3, <3>1 DEF ConsoleInv, PageInv
    <3> QED  BY <1>1, <1>3, <1>5, <2>1, <2>2, <2>4, <2>5, <3>2 DEF PageInv
  <2>9. NodeInv'
    BY <1>1 DEF ConsoleInv, NodeInv
  <2>10. WireInv'
    <3>1. answer.fine => wire[g].asks # "action" /\ Good(answer.version)
      BY <1>1, <1>5, <2>1 DEF ConsoleInv, WireInv
    <3>2. \A v : Good(v) => Good(v)'
      BY <1>1, <1>3, <2>1, <2>4 DEF Good
    <3>3. phase' = "ready" => answer.fine /\ snapshot' = answer.version
      BY <2>2
    <3>4. wire'[generation'] = wire[g]
      BY <1>1, <1>5
    <3> QED  BY <1>3, <2>4, <3>1, <3>2, <3>3, <3>4 DEF WireInv
  <2> QED  BY <2>6, <2>7, <2>8, <2>9, <2>10 DEF ConsoleInv
<1> QED  BY <1>4, <1>5

LEMMA ConsoleStep == ConsoleInv /\ [Next]_vars => ConsoleInv'
<1> SUFFICES ASSUME ConsoleInv, [Next]_vars PROVE ConsoleInv'
  OBVIOUS
<1>1. CASE (\E t \in Tokens : Connect(t)) \/ Refresh \/ Act
  BY <1>1, OwnerStep
<1>2. CASE TypeNewGrantToken
  BY <1>2, TypeStep
<1>3. CASE Lock
  BY <1>3, LockStep
<1>4. CASE OthersChange
  BY <1>4, OthersChangeStep
<1>5. ASSUME NEW g \in Calls, ServeAction(g) \/ ServeSnapshot(g) \/ CallStep(g)
      PROVE  ConsoleInv'
  BY <1>5, ServeActionStep, ServeSnapshotStep, ActionArrivesStep, SnapshotArrivesStep,
     FetchRejectsStep, TimerFiresStep, FinishStep DEF CallStep
<1>6. CASE UNCHANGED vars
  <2>1. UNCHANGED <<page, calls, wire, node, begun, effect, changes>>
    BY <1>6 DEF vars, history
  <2> QED  BY <2>1 DEF ConsoleInv, TypeOK, AnsweredInv, PageInv, NodeInv, WireInv, Good, Unborn,
                       Latest, page
<1> QED  BY <1>1, <1>2, <1>3, <1>4, <1>5, <1>6 DEF Next

(***************************************************************************)
(* The theorems.                                                           *)
(***************************************************************************)
LEMMA ConsoleSafe == Spec => []ConsoleInv
BY ConsoleInit, ConsoleStep, PTL DEF Spec

\* The page, its calls and their requests keep their types, and the controller
\* is of a call that has not returned.
THEOREM ConsoleTypes == Spec => []TypeOK
<1>1. ConsoleInv => TypeOK
  BY DEF ConsoleInv
<1> QED  BY <1>1, ConsoleSafe, PTL

\* A page that the owner locked keeps neither the token nor what it showed,
\* whatever answers come after it (lock, and the generation checks of load and
\* runAction).
THEOREM ConsoleLockKept == Spec => []LockIsKept
<1>1. ConsoleInv => LockIsKept
  BY DEF ConsoleInv, PageInv, LockIsKept
<1> QED  BY <1>1, ConsoleSafe, PTL

\* The page shows no older answer than the owner's last request may have, nor
\* one read with another token than the page holds (the generation checks, and
\* the snapshot that runAction fetches after its action).
THEOREM ConsoleShowsFresh == Spec => []ShownIsFresh
<1>1. ConsoleInv => ShownIsFresh
  <2> SUFFICES ASSUME ConsoleInv PROVE ShownIsFresh
    OBVIOUS
  <2>1. /\ snapshot # None <=> phase = "ready"
        /\ phase = "ready" => Latest.token = ownerToken
    BY DEF ConsoleInv, PageInv
  <2>2. ASSUME phase = "ready" PROVE Good(snapshot)
    BY <2>2 DEF ConsoleInv, WireInv
  <2>3. ASSUME phase = "ready", Latest.kind = "action" PROVE effect \in begun + 1 .. snapshot
    <3>1. effect # None /\ effect <= snapshot /\ snapshot \in begun .. node
      BY <2>2, <2>3 DEF Good
    <3>2. effect \in begun + 1 .. node /\ begun \in Nat /\ node \in Nat
      BY <3>1 DEF ConsoleInv, NodeInv, TypeOK
    <3> QED  BY <3>1, <3>2
  <2> QED  BY <2>1, <2>2, <2>3 DEF ShownIsFresh, Good
<1> QED  BY <1>1, ConsoleSafe, PTL

\* A page that is loading waits for the latest call alone, whose controller the
\* owner's cancel aborts, and its buttons are disabled only as long as that call
\* is an action (beginRequest, and the `finally` of runAction).
THEOREM ConsoleWaitsForLatest == Spec => []LoadingIsLatest
<1>1. ConsoleInv => LoadingIsLatest
  BY DEF ConsoleInv, PageInv, LoadingIsLatest
<1> QED  BY <1>1, ConsoleSafe, PTL
=============================================================================
