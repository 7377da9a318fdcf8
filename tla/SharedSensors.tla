---------------------------- MODULE SharedSensors ----------------------------
(***************************************************************************)
(* What the consolidator promises (the comment above class                 *)
(* AgentConsolidatorSystemHandle): subscriptions that ask for the same     *)
(* path share one sensor.  A sensor appears when its first holder gets the *)
(* path and disappears when its last holder gives it up.                   *)
(***************************************************************************)
EXTENDS Sequences

CONSTANTS Request, Path

VARIABLES
  held,      \* the paths each request holds, in the order they were accepted
  sensors    \* the paths that have a sensor

vars == <<held, sensors>>

Holds(h, r, p) == \E i \in DOMAIN h[r] : h[r][i] = p

Init == held = [r \in Request |-> <<>>] /\ sensors = {}

Acquire(r, p) ==
  /\ held' = [held EXCEPT ![r] = Append(@, p)]
  /\ sensors' = sensors \cup {p}

Release(r) ==
  /\ held[r] # <<>>
  /\ held' = [held EXCEPT ![r] = Tail(@)]
  /\ sensors' = IF \E s \in Request : Holds(held', s, Head(held[r]))
                THEN sensors ELSE sensors \ {Head(held[r])}

Next == \E r \in Request : (\E p \in Path : Acquire(r, p)) \/ Release(r)

Spec == Init /\ [][Next]_vars
=============================================================================
