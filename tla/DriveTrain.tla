----------------------------- MODULE DriveTrain -----------------------------
(***************************************************************************)
(* What a motor function promises, without speeds, channels or bytes: the  *)
(* wheels move only while a call is under way, one at a time, and never in *)
(* a direction that nobody asked for; when the call is over both turn as   *)
(* it asked; and a wheel that nobody tells anything goes on as it is.      *)
(***************************************************************************)
CONSTANTS Wheels, Directions

Rest == "rest"              \* what a wheel is told that is not to turn
Way(order) == {order} \ {Rest}

VARIABLES
    up,         \* there is a process to call
    phase,      \* the call: "none" since the process began, "busy", "obeyed"
    order,      \* what the last call told each wheel
    may,        \* the directions each wheel may turn in
    turning     \* the directions each wheel turns in within a period

vars == <<up, phase, order, may, turning>>

Still == [w \in Wheels |-> {}]

Init ==
    /\ up = TRUE
    /\ phase = "none"
    /\ order = [w \in Wheels |-> Rest]
    /\ may = Still
    /\ turning = Still

(* A motor function is called, when the one before it has returned.        *)
Tell ==
    /\ up /\ phase # "busy"
    /\ phase' = "busy"
    /\ order' \in [Wheels -> Directions \cup {Rest}]
    /\ may' = [w \in Wheels |-> may[w] \cup Way(order'[w])]
    /\ UNCHANGED <<up, turning>>

(* On the way from one movement to the next.                               *)
Shift ==
    /\ up /\ phase = "busy"
    /\ \E w \in Wheels : \E ways \in SUBSET may[w] :
          turning' = [turning EXCEPT ![w] = ways]
    /\ UNCHANGED <<up, phase, order, may>>

(* The function returns.  A wheel that is at rest has not changed gear.    *)
Obey ==
    /\ up /\ phase = "busy"
    /\ phase' = "obeyed"
    /\ turning' = [w \in Wheels |-> Way(order[w])]
    /\ may' = [w \in Wheels |->
                 IF order[w] = Rest THEN may[w] ELSE Way(order[w])]
    /\ UNCHANGED <<up, order>>

(* The process dies, and leaves the wheels as they are or without power.   *)
Die ==
    /\ up
    /\ up' = FALSE /\ phase' = "none"
    /\ turning' \in {turning, Still}
    /\ UNCHANGED <<order, may>>

Begin ==
    /\ ~up
    /\ up' = TRUE
    /\ UNCHANGED <<phase, order, may, turning>>

Next == Tell \/ Shift \/ Obey \/ Die \/ Begin

Spec == Init /\ [][Next]_vars
=============================================================================
