--------------------------- MODULE CurrentArtifact ---------------------------
(* What publication promises, without files or renames: one current artifact,   *)
(* which a publish call withdraws and then replaces.  While it is withdrawn      *)
(* nothing is current.  A call that fails puts back what it withdrew, unless     *)
(* another artifact has become current or a mishap (a call that is killed, a     *)
(* system call that fails) keeps it from doing so: what it withdrew is then lost *)
(* to the current artifact, and if nothing else is published nothing is current. *)
CONSTANTS Calls,       \* publish calls; call c publishes artifact c
          Entries,     \* what may be current before the first call
          Replaceable, \* what a call may withdraw
          Nothing

VARIABLES current, outcome,
          withdrawn,   \* withdrawn[c]: what c has withdrawn and not put back
          mishaps      \* what has gone wrong so far

promise == <<current, outcome, withdrawn>>

Init ==
    /\ current \in Entries \cup {Nothing}
    /\ outcome = [c \in Calls |-> "pending"]
    /\ withdrawn = [c \in Calls |-> Nothing]

Ends(c, from, to) ==
    /\ outcome[c] \in from
    /\ outcome' = [outcome EXCEPT ![c] = to]

Withdraw(c) ==
    /\ Ends(c, {"pending"}, "replacing")
    /\ current \in Replaceable
    /\ current' = Nothing
    /\ withdrawn' = [withdrawn EXCEPT ![c] = current]

Publish(c) ==
    /\ Ends(c, {"pending", "replacing"}, "published")
    /\ current = Nothing
    /\ current' = c
    /\ withdrawn' = [withdrawn EXCEPT ![c] = Nothing]

PutBack(c) ==
    /\ Ends(c, {"replacing"}, "failed")
    /\ current = Nothing
    /\ current' = withdrawn[c]
    /\ withdrawn' = [withdrawn EXCEPT ![c] = Nothing]

Lose(c) ==
    /\ Ends(c, {"replacing"}, "lost")
    /\ current # Nothing \/ mishaps' # mishaps
    /\ UNCHANGED <<current, withdrawn>>

Fail(c) ==
    /\ Ends(c, {"pending"}, "failed")
    /\ UNCHANGED <<current, withdrawn>>

Next == \E c \in Calls : Withdraw(c) \/ Publish(c) \/ PutBack(c) \/ Lose(c) \/ Fail(c)

Spec == Init /\ [][Next]_promise
=============================================================================
