--------------------------- MODULE PendingRequests ---------------------------
(***************************************************************************)
(* What the client promises of the requests it has accepted, whatever      *)
(* container holds them: each is sent at most once and in the order of     *)
(* acceptance, and each leaves exactly once, by its answer (only if it was *)
(* sent) or by its time-out (oldest first).                                *)
(***************************************************************************)
EXTENDS Integers

CONSTANT Reqs

VARIABLES state,      \* how far each request has come
          ticket,     \* its place in the order of acceptance, from 1
          accepted    \* the number of requests accepted so far

pvars == <<state, ticket, accepted>>

States == {"new", "waiting", "sent", "answered", "expired", "refused"}

TypeOK ==
  /\ state \in [Reqs -> States]
  /\ ticket \in [Reqs -> Nat]
  /\ accepted \in Nat

Held == {r \in Reqs : state[r] \in {"waiting", "sent"}}

Init ==
  /\ state = [r \in Reqs |-> "new"]
  /\ ticket = [r \in Reqs |-> 0]
  /\ accepted = 0

Accept(r) ==
  /\ state[r] = "new"
  /\ state' = [state EXCEPT ![r] = "waiting"]
  /\ accepted' = accepted + 1
  /\ ticket' = [ticket EXCEPT ![r] = accepted + 1]

Refuse(r) ==
  /\ state[r] = "new"
  /\ state' = [state EXCEPT ![r] = "refused"]
  /\ UNCHANGED <<ticket, accepted>>

Send(r) ==
  /\ state[r] = "waiting"
  /\ \A s \in Reqs : state[s] = "waiting" => ticket[r] <= ticket[s]
  /\ state' = [state EXCEPT ![r] = "sent"]
  /\ UNCHANGED <<ticket, accepted>>

SendAll ==
  /\ state' = [r \in Reqs |-> IF state[r] = "waiting" THEN "sent" ELSE state[r]]
  /\ UNCHANGED <<ticket, accepted>>

Answer(r) ==
  /\ state[r] = "sent"
  /\ state' = [state EXCEPT ![r] = "answered"]
  /\ UNCHANGED <<ticket, accepted>>

Expire(r) ==
  /\ r \in Held
  /\ \A s \in Held : ticket[r] <= ticket[s]
  /\ state' = [state EXCEPT ![r] = "expired"]
  /\ UNCHANGED <<ticket, accepted>>

Next ==
  \/ SendAll
  \/ \E r \in Reqs : \/ Accept(r) \/ Refuse(r) \/ Send(r)
                     \/ Answer(r) \/ Expire(r)

Spec == Init /\ [][Next]_pvars
==============================================================================
