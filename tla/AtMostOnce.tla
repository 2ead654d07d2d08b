----------------------------- MODULE AtMostOnce -----------------------------
(***************************************************************************)
(* What the remote client promises of the statements it sends: each takes  *)
(* effect at most once, however often its request is sent, and a caller    *)
(* that is told of a commit is told the truth.                             *)
(***************************************************************************)
EXTENDS Integers

CONSTANTS Calls,    \* the calls of the client
          Work,     \* the statements, one for all the calls that repeat it
          WorkOf    \* WorkOf[c]: the statements c may send

VARIABLES effects,  \* effects[w]: how often w took effect
          told      \* told[c]: what the caller of c knows of its statement

Init == effects = [w \in Work |-> 0] /\ told = [c \in Calls |-> "nothing"]

TakeEffect(w) ==
    /\ effects[w] = 0
    /\ effects' = [effects EXCEPT ![w] = 1]
    /\ UNCHANGED told

\* A commit is reported of a statement that took effect.
Tell(c, answer) ==
    /\ told[c] = "nothing"
    /\ answer = "yes" => \E w \in WorkOf[c] : effects[w] = 1
    /\ told' = [told EXCEPT ![c] = answer]
    /\ UNCHANGED effects

Next == \/ \E w \in Work : TakeEffect(w)
        \/ \E c \in Calls, answer \in {"yes", "no", "unknown"} : Tell(c, answer)

Spec == Init /\ [][Next]_<<effects, told>>
=============================================================================
