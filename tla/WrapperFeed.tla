---------------------------- MODULE WrapperFeed ----------------------------
(***************************************************************************)
(* What the gossip of proof wrappers promises each connected peer.         *)
(*                                                                         *)
(* The peer is sent one wrapper at a time.  A wrapper waiting for it was   *)
(* the current one when it was offered; a newer offer replaces it, and a   *)
(* withdrawal or the peer's departure takes it back.  After the feed       *)
(* closes no send begins.                                                  *)
(***************************************************************************)
CONSTANTS Peer, Wrapper, None

VARIABLES
  current,      \* the wrapper on offer, None if there is none
  members,      \* the connected peers
  next,         \* the wrapper waiting for each peer
  sending,      \* the wrappers on their way to each peer
  closed

feed == <<current, members, next, sending, closed>>

Init ==
  /\ current = None /\ members = {} /\ closed = FALSE
  /\ next = [p \in Peer |-> None]
  /\ sending = [p \in Peer |-> {}]

Join(p) ==
  /\ ~closed /\ p \notin members
  /\ members' = members \cup {p}
  /\ UNCHANGED <<current, next, sending, closed>>

Leave(p) ==
  /\ p \in members
  /\ members' = members \ {p}
  /\ next' = [next EXCEPT ![p] = None]
  /\ UNCHANGED <<current, sending, closed>>

Announce(w) == ~closed /\ current' = w /\ UNCHANGED <<members, next, sending, closed>>

Withdraw ==
  /\ current' = None
  /\ next' = [p \in Peer |-> None]
  /\ UNCHANGED <<members, sending, closed>>

Offer(p) ==
  /\ p \in members /\ current # None
  /\ next' = [next EXCEPT ![p] = current]
  /\ UNCHANGED <<current, members, sending, closed>>

(* The peer had it recently. *)
Skip(p) ==
  /\ next[p] # None
  /\ next' = [next EXCEPT ![p] = None]
  /\ UNCHANGED <<current, members, sending, closed>>

Begin(p) ==
  /\ p \in members /\ next[p] # None /\ sending[p] = {}
  /\ sending' = [sending EXCEPT ![p] = {next[p]}]
  /\ next' = [next EXCEPT ![p] = None]
  /\ UNCHANGED <<current, members, closed>>

End(p) ==
  /\ sending' = [sending EXCEPT ![p] = {}]
  /\ UNCHANGED <<current, members, next, closed>>

Close ==
  /\ closed' = TRUE /\ current' = None /\ members' = {}
  /\ next' = [p \in Peer |-> None]
  /\ UNCHANGED sending

Next ==
  \/ \E p \in Peer : Join(p) \/ Leave(p) \/ Offer(p) \/ Skip(p) \/ Begin(p) \/ End(p)
  \/ \E w \in Wrapper : Announce(w)
  \/ Withdraw
  \/ Close

Spec == Init /\ [][Next]_feed
=============================================================================
