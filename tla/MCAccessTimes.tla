---------------------------- MODULE MCAccessTimes ----------------------------
(***************************************************************************)
(* A small instance of AccessTimes: a day of six minutes, two days of      *)
(* clock, and every expiry and window within the first of them.            *)
(***************************************************************************)
EXTENDS AccessTimes

MCZones == {"hall", "bath"}
MCNoGo == {"bath"}
MCScopes == {"read:layout"}

Opt(S) == {{}} \cup {{x} : x \in S}
MCPolicies ==
  [scopes : {MCScopes}, zones : {{"hall"}, {"bath"}},
   expires : Opt(0 .. 5), window : Opt([from : 0 .. 5, until : 0 .. 5])]
=============================================================================
