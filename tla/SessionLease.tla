---------------------------- MODULE SessionLease ----------------------------
(***************************************************************************)
(* What the session array promises: a slot is leased to one session at a   *)
(* time, under an identity used once; users come and go while the lease    *)
(* runs; it ends only when nobody uses the session any more.               *)
(* NetSession implements this with one 16-bit word per slot.               *)
(***************************************************************************)
EXTENDS Naturals

CONSTANTS
  Slots, Users,
  Identities   \* what a session may be named: not 0

VARIABLES
  life,    \* the identity of the session in each slot, 0 if there is none
  users,   \* who may touch the session in each slot, and whose name for it it has
  used     \* the identities given out so far

vars == <<life, users, used>>

Init ==
  /\ life  = [s \in Slots |-> 0]
  /\ users = [s \in Slots |-> {}]
  /\ used  = {}

Open(s, u, x) ==
  /\ life[s] = 0 /\ users[s] = {}
  /\ u \notin used
  /\ life'  = [life EXCEPT ![s] = u]
  /\ users' = [users EXCEPT ![s] = {<<x, u>>}]
  /\ used'  = used \cup {u}

\* Some users of a live session leave it and others, who know it by its identity,
\* join it, in one step.
Share(s, leaving, joining) ==
  /\ life[s] # 0
  /\ users' = [users EXCEPT ![s] = (@ \ leaving) \cup joining]
  /\ UNCHANGED <<life, used>>

End(s) ==
  /\ life[s] # 0 /\ users[s] = {}
  /\ life' = [life EXCEPT ![s] = 0]
  /\ UNCHANGED <<users, used>>

Next ==
  \E s \in Slots :
    \/ \E u \in Identities, x \in Users : Open(s, u, x)
    \/ \E leaving \in SUBSET users[s], joining \in SUBSET (Users \X {life[s]}) :
         Share(s, leaving, joining)
    \/ End(s)

Spec == Init /\ [][Next]_vars
=============================================================================
