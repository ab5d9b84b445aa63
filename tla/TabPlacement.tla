---------------------------- MODULE TabPlacement ----------------------------
(***************************************************************************)
(* What the console's layout slice promises of its tabs, whatever trees    *)
(* they are kept in: a tab is in one window or closed, one tab at a time   *)
(* is opened, moved or closed, a window closes with all of its tabs, and   *)
(* loading a workspace brings back the placement that was saved.           *)
(***************************************************************************)
CONSTANTS TabKeys, Windows, Main, Closed

VARIABLES at,    \* the window each tab is in
          saved  \* the placement last saved

vars == <<at, saved>>

(* The tabs of the windows ws go with them. *)
Without(ws, f) == [t \in TabKeys |-> IF f[t] \in ws THEN Closed ELSE f[t]]

Init == /\ at = [t \in TabKeys |-> Closed]
        /\ saved = [t \in TabKeys |-> Closed]

Open(t, w) == /\ at[t] = Closed
              /\ at' = [at EXCEPT ![t] = w]
              /\ UNCHANGED saved

(* A tab that moves may leave a window empty, which then closes. *)
Move(t, w) == /\ at[t] # Closed
              /\ \E ws \in SUBSET (Windows \ {Main}) :
                    at' = Without(ws, [at EXCEPT ![t] = w])
              /\ UNCHANGED saved

Close(t) == /\ at' = [at EXCEPT ![t] = Closed]
            /\ UNCHANGED saved

CloseWindows == /\ \E ws \in SUBSET (Windows \ {Main}) : at' = Without(ws, at)
                /\ UNCHANGED saved

Save == saved' = at /\ UNCHANGED at

Load == at' = saved /\ UNCHANGED saved

Clear == at' = [t \in TabKeys |-> Closed] /\ UNCHANGED saved

Next == \/ \E t \in TabKeys : Close(t)
        \/ \E t \in TabKeys, w \in Windows : Open(t, w) \/ Move(t, w)
        \/ CloseWindows \/ Save \/ Load \/ Clear

Spec == Init /\ [][Next]_vars
=============================================================================
