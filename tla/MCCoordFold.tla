---------------------------- MODULE MCCoordFold ----------------------------
(***************************************************************************)
(* CoordFold on small instances.                                           *)
(***************************************************************************)
EXTENDS CoordFold, TLC

NamesAreInterchangeable ==
  Permutations(Event) \cup Permutations(Pass)

Says(kind, from, to) == [kind: {kind}, slug: Slug, from: {from}, to: {to}]

(* What peers write: an assignment, a broadcast, the close that retention  *)
(* sends to everybody, a claim by somebody else, and traffic that does not *)
(* concern the agent.                                                      *)
Traffic ==
  Says("open", "peer", "me") \cup Says("close", "peer", "all")
    \cup Says("open", "me", "all") \cup Says("claim", "peer", "me")

(* Assignments, closes and traffic that does not concern the agent.        *)
PeerTraffic ==
  Says("open", "peer", "me") \cup Says("close", "peer", "all")
    \cup Says("open", "me", "peer")
=============================================================================
