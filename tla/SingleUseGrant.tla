--------------------------- MODULE SingleUseGrant ---------------------------
(***************************************************************************)
(* What a request that somebody else approves promises: it is decided      *)
(* once, and a permission given is collected at most once, exactly as it   *)
(* was given.                                                              *)
(***************************************************************************)
EXTENDS Sequences

CONSTANTS
  Asked,     \* the requests
  Permits,   \* what an approval can permit
  Pending,   \* no decision yet
  Denied     \* decided, with nothing to collect

VARIABLES
  decision,  \* for each request: Pending, Denied or a permit
  collected  \* the sequence of <<request, permit>> pairs handed out

grantVars == <<decision, collected>>

Init ==
  /\ decision = [l \in Asked |-> Pending]
  /\ collected = <<>>

Decide(l) ==
  /\ decision[l] = Pending
  /\ \E d \in Permits \cup {Denied} : decision' = [decision EXCEPT ![l] = d]
  /\ UNCHANGED collected

Collect(l) ==
  /\ decision[l] \in Permits
  /\ \A i \in DOMAIN collected : collected[i][1] # l
  /\ collected' = Append(collected, <<l, decision[l]>>)
  /\ UNCHANGED decision

Next == \E l \in Asked : Decide(l) \/ Collect(l)

Spec == Init /\ [][Next]_grantVars
=============================================================================
