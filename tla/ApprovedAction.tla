--------------------------- MODULE ApprovedAction ---------------------------
(***************************************************************************)
(* What the review gate of the dialogue promises of each proposed action:  *)
(* it takes effect only while it is open for review, at most once, and     *)
(* never after a person has declined it or replaced it by a revision.      *)
(***************************************************************************)
EXTENDS Naturals

CONSTANT Actions

VARIABLES phase,   \* action -> where its review stands
          effects  \* action -> how often it changed the project

Phases == {"absent", "open", "declined", "taken"}

Init == /\ phase = [a \in Actions |-> "absent"]
        /\ effects = [a \in Actions |-> 0]

Move(a, from, to) == phase[a] = from /\ phase' = [phase EXCEPT ![a] = to]

Offer(a)   == Move(a, "absent", "open") /\ UNCHANGED effects
Decline(a) == Move(a, "open", "declined") /\ UNCHANGED effects
Take(a)    == /\ Move(a, "open", "taken")
              /\ effects' = [effects EXCEPT ![a] = @ + 1]

(* A revision declines what it replaces and offers the new text at once.   *)
Replace(a, b) == /\ a # b /\ phase[a] = "open" /\ phase[b] = "absent"
                 /\ phase' = [phase EXCEPT ![a] = "declined", ![b] = "open"]
                 /\ UNCHANGED effects

Next == \E a \in Actions : \/ Offer(a) \/ Decline(a) \/ Take(a)
                           \/ \E b \in Actions : Replace(a, b)

Spec == Init /\ [][Next]_<<phase, effects>>
=============================================================================
