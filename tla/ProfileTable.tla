---------------------------- MODULE ProfileTable ----------------------------
(***************************************************************************)
(* What the profile store promises its clients: every request takes effect *)
(* at once, on one profile, and one profile at most is active              *)
(* (docs/architecture/profile.md).  ProfileActivation implements it with   *)
(* transactions that overlap.                                              *)
(*                                                                         *)
(* The promise has one reservation, the flag unseen: once it is raised, an *)
(* activation may leave other profiles active.                             *)
(***************************************************************************)
CONSTANTS Ids, Datas, None

VARIABLES
    rows,   \* the profiles: their data, and whether they are active
    unseen

Profile == [data : Datas, active : BOOLEAN]

IsActive(i) == rows[i] # None /\ rows[i].active

Init ==
    /\ rows \in [Ids -> Profile \cup {None}]
    /\ \A i, j \in Ids : IsActive(i) /\ IsActive(j) => i = j
    /\ unseen = FALSE

\* A save, of a new profile or of one there is, activates and deactivates none.
Save(i, d) ==
    /\ rows' = [rows EXCEPT ![i] = [data |-> d, active |-> IsActive(i)]]
    /\ unseen' \in {unseen, TRUE}

\* An activation saves its profile and takes the flag from the others.
Activate(i, d, left) ==
    /\ left \subseteq Ids /\ (left # {} => unseen)
    /\ rows' = [j \in Ids |->
           IF j = i THEN [data |-> d, active |-> TRUE]
           ELSE IF rows[j] = None THEN None
           ELSE [data |-> rows[j].data, active |-> j \in left /\ IsActive(j)]]
    /\ unseen' = unseen

Reserve == unseen' = TRUE /\ rows' = rows

Next ==
    \/ \E i \in Ids : \E d \in Datas :
           Save(i, d) \/ \E left \in SUBSET Ids : Activate(i, d, left)
    \/ Reserve

Spec == Init /\ [][Next]_<<rows, unseen>>
=============================================================================
