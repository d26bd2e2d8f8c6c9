---------------------- MODULE ProfileActivationProofs ----------------------
(***************************************************************************)
(* Theorems about ProfileActivation, for any number of requests and rows.  *)
(***************************************************************************)
EXTENDS ProfileActivation, TLAPS

-----------------------------------------------------------------------------
(* The inductive invariant *)

WasActive(i) == table[i] # None /\ table[i].active

\* The activations that have changed every row they saw.
Activated(c) == req[c].activate /\ req[c].phase \in {"refresh", "commit"}

\* A row has one writer at a time.
Locks == \A c, h \in Clients : \A i \in Ids : Holds(c, i) /\ Holds(h, i) => c = h

\* What a request has in each phase.
Shape(c) ==
    /\ req[c].phase \in {"idle", "insert", "flush"} => \A i \in Ids : ~Holds(c, i)
    /\ req[c].phase # "idle" => req[c].id \in Ids /\ req[c].data \in Datas
    /\ req[c].phase = "insert" => req[c].id = Default
    /\ req[c].phase = "flush" => table[req[c].id] # None
    /\ req[c].phase \in {"activate", "clear", "set", "refresh", "commit"} =>
           View(c, req[c].id) # None
    /\ req[c].phase \in {"activate", "clear", "set"} => req[c].activate
    /\ \A i \in req[c].todo : i # req[c].id /\ table[i] # None
    /\ req[c].phase = "set" => req[c].todo = {}
    /\ \A i \in Ids : Holds(c, i) /\ i # req[c].id =>
           req[c].activate /\ req[c].phase \in {"clear", "set", "refresh", "commit"}

\* What a request has written: its own row, whose flag changes last, and, in an
\* activation, the other rows, without their flag.
Own(c) ==
    /\ \A i \in Ids : Holds(c, i) /\ i # req[c].id =>
           /\ table[i] # None /\ req[c].wrote[i].data = table[i].data
           /\ ~req[c].wrote[i].active
    /\ \A i \in Ids : Holds(c, i) /\ i = req[c].id =>
           /\ req[c].wrote[i].active <=> (Activated(c) \/ WasActive(i))
           /\ table[i] = None => i = Default
    /\ Activated(c) => Holds(c, req[c].id)

\* An activation at work sees, and so will hold, every row there is, and no
\* other request is about to add one.
Sight(c) == ~phantom /\ c \in Blind =>
    \A i \in Ids :
        /\ table[i] # None /\ i # req[c].id => i \in req[c].todo \/ Holds(c, i)
        /\ table[i] = None => \A h \in Clients \ {c} : ~Holds(h, i)

\* A complete activation holds every other active row, and is the only one.
Latest(c) == ~phantom /\ Activated(c) =>
    /\ \A i \in Ids : WasActive(i) /\ i # req[c].id => Holds(c, i)
    /\ \A h \in Clients : Activated(h) => h = c

IInv ==
    /\ TypeOK
    /\ Locks
    /\ \A c \in Clients : Shape(c) /\ Own(c) /\ Sight(c) /\ Latest(c)
    /\ OneActiveProfile

-----------------------------------------------------------------------------
(* What the steps do to the record of a request *)

Base == TypeOK /\ \A c \in Clients : Shape(c)

\* The other requests stay as they are.
Alone(c) == \A h \in Clients \ {c} : req'[h] = req[h]

\* c goes on with the same row and the same payload.
Continues(c) ==
    /\ req'[c].id = req[c].id /\ req'[c].data = req[c].data
    /\ req'[c].activate = req[c].activate /\ req'[c].loaded = req[c].loaded

\* Goto replaces the record of one request.
LEMMA GotoStep ==
    ASSUME req \in [Clients -> Requests], NEW c \in Clients, NEW s \in Requests, Goto(c, s)
    PROVE  req' \in [Clients -> Requests] /\ req'[c] = s /\ Alone(c)
BY DEF Goto, Alone

LEMMA NoneIsNoRow == None \notin Row /\ None \notin Ids
BY NoneAssumption DEF Row

LEMMA IdleIsRequest == Idle \in Requests
BY NoneAssumption DEF Idle, Requests, Rows, Ids

\* Flush: the row that it writes has the new data, and the flag it had.
LEMMA FlushStep ==
    ASSUME Base, NEW c \in Clients, Flush(c)
    PROVE  /\ req' \in [Clients -> Requests] /\ Alone(c) /\ Continues(c)
           /\ req'[c].phase = IF req[c].activate THEN "activate" ELSE "refresh"
           /\ req'[c].todo = req[c].todo
           /\ \A i \in Ids \ {req[c].id} : req'[c].wrote[i] = req[c].wrote[i]
           /\ \/ req'[c].wrote[req[c].id] = req[c].wrote[req[c].id]
              \/ /\ Free(c, req[c].id)
                 /\ req'[c].wrote[req[c].id] \in Row
                 /\ req'[c].wrote[req[c].id].active = table[req[c].id].active
                 /\ ~Changed(c) => req'[c].wrote[req[c].id].data = table[req[c].id].data
<1> DEFINE s == req[c]
           row == View(c, s.id)
           written == [row EXCEPT !.data = IF Changed(c) THEN s.data ELSE @,
                                  !.status = IF s.activate THEN "active" ELSE @]
           new == IF Dirty(c) THEN written ELSE s.wrote[s.id]
           t == [s EXCEPT !.phase = IF s.activate THEN "activate" ELSE "refresh",
                          !.wrote[s.id] = new]
<1>1. /\ s \in Requests /\ s.id \in Ids /\ s.data \in Datas /\ s.phase = "flush"
      /\ \A i \in Ids : s.wrote[i] = None
  BY DEF Base, TypeOK, Shape, Flush, Holds
<1>2. row = table[s.id] /\ row \in Row
  BY <1>1 DEF Base, TypeOK, Shape, View, Rows
<1>3. written \in Row /\ written.active = row.active /\ (~Changed(c) => written.data = row.data)
  BY <1>1, <1>2 DEF Row
<1>4. s.wrote \in [Ids -> Rows] /\ new \in Rows
  BY <1>1, <1>3 DEF Requests, Rows
<1>5. Goto(c, t)
  BY DEF Flush
<1>6. t = [s EXCEPT !.phase = IF s.activate THEN "activate" ELSE "refresh",
                    !.wrote = [s.wrote EXCEPT ![s.id] = new]]
  OBVIOUS
<1>7. [s.wrote EXCEPT ![s.id] = new] \in [Ids -> Rows]
  BY <1>1, <1>4
<1>8. t \in Requests
  BY <1>1, <1>6, <1>7 DEF Requests
<1>9. req' \in [Clients -> Requests] /\ req'[c] = t /\ Alone(c)
  BY <1>5, <1>8, GotoStep DEF Base, TypeOK
<1>10. /\ t.phase = IF s.activate THEN "activate" ELSE "refresh"
       /\ t.id = s.id /\ t.data = s.data /\ t.activate = s.activate /\ t.loaded = s.loaded
       /\ t.todo = s.todo /\ t.wrote = [s.wrote EXCEPT ![s.id] = new]
  BY <1>1, <1>6 DEF Requests
<1>11. /\ \A i \in Ids \ {s.id} : t.wrote[i] = s.wrote[i]
       /\ t.wrote[s.id] = new
  BY <1>1, <1>4, <1>10
<1>12. Dirty(c) => Free(c, s.id)
  BY DEF Flush
<1>13. \/ req'[c].wrote[s.id] = s.wrote[s.id]
       \/ /\ Free(c, s.id)
          /\ req'[c].wrote[s.id] \in Row
          /\ req'[c].wrote[s.id].active = table[s.id].active
          /\ ~Changed(c) => req'[c].wrote[s.id].data = table[s.id].data
  <2>1. CASE Dirty(c)
    <3>1. req'[c].wrote[s.id] = written
      BY <1>9, <1>11, <2>1
    <3> HIDE DEF written, s
    <3> QED BY <1>2, <1>3, <1>12, <2>1, <3>1
  <2>2. CASE ~Dirty(c)
    BY <1>9, <1>11, <2>2
  <2> QED BY <2>1, <2>2
<1>14. Continues(c)
  BY <1>9, <1>10 DEF Continues
<1> HIDE DEF t, new, written, row
<1> QED
  BY <1>9, <1>10, <1>11, <1>13, <1>14

\* Insert: the loser ends; the winner has the default row, not active.
LEMMA InsertStep ==
    ASSUME Base, NEW c \in Clients, Insert(c)
    PROVE  /\ req' \in [Clients -> Requests] /\ Alone(c)
           /\ \/ req'[c] = Idle /\ phantom' = phantom
              \/ /\ table[Default] = None /\ Free(c, Default) /\ req[c].id = Default
                 /\ phantom' = (phantom \/ Blind \ {c} # {})
                 /\ Continues(c)
                 /\ req'[c].phase = IF req[c].activate THEN "activate" ELSE "refresh"
                 /\ req'[c].todo = req[c].todo
                 /\ \A i \in Ids \ {Default} : req'[c].wrote[i] = req[c].wrote[i]
                 /\ req'[c].wrote[Default] \in Row /\ ~req'[c].wrote[Default].active
<1>1. CASE table[Default] # None
  <2>1. Goto(c, Idle) /\ phantom' = phantom
    BY <1>1 DEF Insert
  <2> QED
    BY <2>1, GotoStep, IdleIsRequest DEF Base, TypeOK
<1>2. CASE table[Default] = None
  <2> DEFINE s == req[c]
             new == [data |-> s.data, active |-> FALSE, status |-> NewStatus(s)]
             t == [s EXCEPT !.phase = IF s.activate THEN "activate" ELSE "refresh",
                            !.wrote[Default] = new]
  <2>1. /\ s \in Requests /\ s.id = Default /\ s.data \in Datas /\ Default \in Ids
    BY DEF Base, TypeOK, Shape, Insert, Ids
  <2>2. new \in Row /\ new \in Rows /\ new.active = FALSE
    BY <2>1 DEF Row, Rows, NewStatus
  <2>3. Goto(c, t) /\ phantom' = (phantom \/ Blind \ {c} # {}) /\ Free(c, Default)
    BY <1>2 DEF Insert, MayInsert
  <2> HIDE DEF new
  <2>4. t = [s EXCEPT !.phase = IF s.activate THEN "activate" ELSE "refresh",
                      !.wrote = [s.wrote EXCEPT ![Default] = new]]
    OBVIOUS
  <2>5. s.wrote \in [Ids -> Rows] /\ [s.wrote EXCEPT ![Default] = new] \in [Ids -> Rows]
    BY <2>1, <2>2 DEF Requests
  <2>6. t \in Requests
    BY <2>1, <2>4, <2>5 DEF Requests
  <2>7. req' \in [Clients -> Requests] /\ req'[c] = t /\ Alone(c)
    BY <2>3, <2>6, GotoStep DEF Base, TypeOK
  <2>8. /\ t.phase = IF s.activate THEN "activate" ELSE "refresh"
        /\ t.id = s.id /\ t.data = s.data /\ t.activate = s.activate /\ t.loaded = s.loaded
        /\ t.todo = s.todo /\ t.wrote = [s.wrote EXCEPT ![Default] = new]
    BY <2>1, <2>4 DEF Requests
  <2>9. /\ \A i \in Ids \ {Default} : t.wrote[i] = s.wrote[i]
        /\ t.wrote[Default] = new
    BY <2>1, <2>5, <2>8
  <2> QED
    BY <1>2, <2>1, <2>2, <2>3, <2>7, <2>8, <2>9 DEF Continues
<1> QED
  BY <1>1, <1>2

\* StartClear: all rows but its own become those to be changed.
LEMMA StartClearStep ==
    ASSUME Base, NEW c \in Clients, StartClear(c)
    PROVE  /\ req' \in [Clients -> Requests] /\ Alone(c) /\ Continues(c)
           /\ req'[c].phase = IF Others(c) = {} THEN "set" ELSE "clear"
           /\ req'[c].todo = Others(c)
           /\ req'[c].wrote = req[c].wrote
<1> DEFINE s == req[c]
           t == [s EXCEPT !.phase = IF Others(c) = {} THEN "set" ELSE "clear",
                          !.todo = Others(c)]
<1>1. s \in Requests /\ Others(c) \subseteq Ids /\ Goto(c, t)
  BY DEF Base, TypeOK, StartClear, Others
<1>2. t \in Requests
  BY <1>1 DEF Requests
<1>3. req' \in [Clients -> Requests] /\ req'[c] = t /\ Alone(c)
  BY <1>1, <1>2, GotoStep DEF Base, TypeOK
<1> QED
  BY <1>1, <1>3 DEF Continues, Requests

\* Clear: one of the rows to be changed loses its flag.
LEMMA ClearStep ==
    ASSUME Base, NEW c \in Clients, NEW i \in Ids, Clear(c, i)
    PROVE  /\ req' \in [Clients -> Requests] /\ Alone(c) /\ Continues(c)
           /\ req'[c].phase = IF req[c].todo \ {i} = {} THEN "set" ELSE "clear"
           /\ req'[c].todo = req[c].todo \ {i}
           /\ \A j \in Ids \ {i} : req'[c].wrote[j] = req[c].wrote[j]
           /\ req'[c].wrote[i] \in Row
           /\ req'[c].wrote[i].data = View(c, i).data /\ ~req'[c].wrote[i].active
<1> DEFINE s == req[c]
           left == s.todo \ {i}
           new == [View(c, i) EXCEPT !.active = FALSE]
           t == [s EXCEPT !.phase = IF left = {} THEN "set" ELSE @, !.todo = left,
                          !.wrote[i] = new]
<1>1. s \in Requests /\ Goto(c, t) /\ s.phase = "clear" /\ table[i] # None
  BY DEF Base, TypeOK, Shape, Clear
<1>2. View(c, i) \in Row
  BY <1>1, NoneAssumption DEF Base, TypeOK, View, Rows, Requests
<1>3. new \in Row /\ new \in Rows /\ new.data = View(c, i).data /\ new.active = FALSE
  BY <1>2 DEF Row, Rows
<1> HIDE DEF new
<1>4. t = [s EXCEPT !.phase = IF left = {} THEN "set" ELSE "clear", !.todo = left,
                    !.wrote = [s.wrote EXCEPT ![i] = new]]
  BY <1>1
<1>5. s.wrote \in [Ids -> Rows] /\ [s.wrote EXCEPT ![i] = new] \in [Ids -> Rows]
  BY <1>1, <1>3 DEF Requests
<1>6. t \in Requests
  BY <1>1, <1>4, <1>5 DEF Requests
<1>7. req' \in [Clients -> Requests] /\ req'[c] = t /\ Alone(c)
  BY <1>1, <1>6, GotoStep DEF Base, TypeOK
<1>8. /\ t.phase = IF left = {} THEN "set" ELSE "clear"
      /\ t.id = s.id /\ t.data = s.data /\ t.activate = s.activate /\ t.loaded = s.loaded
      /\ t.todo = left /\ t.wrote = [s.wrote EXCEPT ![i] = new]
  BY <1>1, <1>4 DEF Requests
<1>9. /\ \A j \in Ids \ {i} : t.wrote[j] = s.wrote[j]
      /\ t.wrote[i] = new
  BY <1>1, <1>5, <1>8
<1> QED
  BY <1>3, <1>7, <1>8, <1>9 DEF Continues

\* SetActive: the row of the request gets the flag.
LEMMA SetActiveStep ==
    ASSUME Base, NEW c \in Clients, SetActive(c)
    PROVE  /\ req' \in [Clients -> Requests] /\ Alone(c) /\ Continues(c)
           /\ req'[c].phase = "refresh"
           /\ req'[c].todo = req[c].todo
           /\ \A j \in Ids \ {req[c].id} : req'[c].wrote[j] = req[c].wrote[j]
           /\ req'[c].wrote[req[c].id] \in Row /\ req'[c].wrote[req[c].id].active
           /\ req'[c].wrote[req[c].id].data = View(c, req[c].id).data
<1> DEFINE s == req[c]
           i == s.id
           new == [View(c, i) EXCEPT !.active = TRUE]
           t == [s EXCEPT !.phase = "refresh", !.wrote[i] = new]
<1>1. s \in Requests /\ i \in Ids /\ Goto(c, t) /\ s.phase = "set" /\ View(c, i) # None
  BY DEF Base, TypeOK, Shape, SetActive
<1>2. View(c, i) \in Row
  BY <1>1, NoneAssumption DEF Base, TypeOK, View, Rows, Requests
<1>3. new \in Row /\ new \in Rows /\ new.active = TRUE /\ new.data = View(c, i).data
  BY <1>2 DEF Row, Rows
<1> HIDE DEF new
<1>4. t = [s EXCEPT !.phase = "refresh", !.wrote = [s.wrote EXCEPT ![i] = new]]
  OBVIOUS
<1>5. s.wrote \in [Ids -> Rows] /\ [s.wrote EXCEPT ![i] = new] \in [Ids -> Rows]
  BY <1>1, <1>3 DEF Requests
<1>6. t \in Requests
  BY <1>1, <1>4, <1>5 DEF Requests
<1>7. req' \in [Clients -> Requests] /\ req'[c] = t /\ Alone(c)
  BY <1>1, <1>6, GotoStep DEF Base, TypeOK
<1>8. /\ t.phase = "refresh"
      /\ t.id = s.id /\ t.data = s.data /\ t.activate = s.activate /\ t.loaded = s.loaded
      /\ t.todo = s.todo /\ t.wrote = [s.wrote EXCEPT ![i] = new]
  BY <1>1, <1>4 DEF Requests
<1>9. /\ \A j \in Ids \ {i} : t.wrote[j] = s.wrote[j]
      /\ t.wrote[i] = new
  BY <1>1, <1>5, <1>8
<1> QED
  BY <1>3, <1>7, <1>8, <1>9 DEF Continues

\* Refresh: nothing but the phase and the DELETE.
LEMMA RefreshStep ==
    ASSUME Base, NEW c \in Clients, Refresh(c)
    PROVE  /\ req' \in [Clients -> Requests] /\ Alone(c) /\ Continues(c)
           /\ req'[c].phase = "commit"
           /\ req'[c].todo = req[c].todo /\ req'[c].wrote = req[c].wrote
           /\ req'[c].gone <=> (Invalidates(c) /\ scored[req[c].id] # None)
<1> DEFINE s == req[c]
           gone == Invalidates(c) /\ scored[s.id] # None
           t == [s EXCEPT !.phase = "commit", !.gone = gone]
<1>1. s \in Requests /\ Goto(c, t) /\ s.phase = "refresh" /\ s.id \in Ids /\ View(c, s.id) # None
  BY DEF Base, TypeOK, Shape, Refresh
<1>2. gone \in BOOLEAN
  <2>1. View(c, s.id) \in Row
    BY <1>1, NoneAssumption DEF Base, TypeOK, View, Rows, Requests
  <2> QED
    BY <2>1, Zenon DEF Row, Invalidates
<1>3. gone <=> (Invalidates(c) /\ scored[s.id] # None)
  OBVIOUS
<1> HIDE DEF gone
<1>4. t \in Requests
  BY <1>1, <1>2 DEF Requests
<1>5. req' \in [Clients -> Requests] /\ req'[c] = t /\ Alone(c)
  BY <1>1, <1>4, GotoStep DEF Base, TypeOK
<1>6. t.gone = gone
  BY <1>1 DEF Requests
<1> QED
  BY <1>1, <1>3, <1>5, <1>6 DEF Continues, Requests

\* Commit, BreakDeadlock and CutOff end the request.
LEMMA EndStep ==
    ASSUME Base, NEW c \in Clients, Goto(c, Idle)
    PROVE  req' \in [Clients -> Requests] /\ Alone(c) /\ req'[c] = Idle
BY GotoStep, IdleIsRequest DEF Base, TypeOK

\* Begin: the row is that of the request, or is to be inserted.
LEMMA BeginStep ==
    ASSUME Base, NEW c \in Clients, NEW i \in Known, NEW d \in Datas, NEW activate \in BOOLEAN,
           Begin(c, i, d, activate)
    PROVE  /\ req' \in [Clients -> Requests] /\ Alone(c)
           /\ req'[c].data \in Datas /\ req'[c].id \in Ids
           /\ req'[c].todo = {} /\ \A j \in Ids : req'[c].wrote[j] = None
           /\ \/ req'[c].phase = "insert" /\ req'[c].id = Default
              \/ req'[c].phase = "flush" /\ table[req'[c].id] # None
<1> DEFINE active == {j \in Ids : table[j] # None /\ table[j].active}
           found == IF i # None THEN {i}
                    ELSE IF active # {} THEN active
                    ELSE IF table[Default] # None THEN {Default} ELSE {}
           begun == [Idle EXCEPT !.data = d, !.activate = activate]
<1>1. \A j \in found : j \in Ids /\ table[j] # None
  BY DEF Known, Ids
<1> HIDE DEF found
<1>2. CASE found = {}
  <2> DEFINE t == [begun EXCEPT !.phase = "insert", !.id = Default]
  <2>1. Goto(c, t)
    BY <1>2 DEF Begin, found
  <2>2. /\ t \in Requests /\ t.data = d /\ t.id = Default /\ t.todo = {} /\ t.phase = "insert"
        /\ \A j \in Ids : t.wrote[j] = None
    BY IdleIsRequest DEF Requests, Idle, Ids
  <2> HIDE DEF t
  <2> QED
    BY <2>1, <2>2, GotoStep DEF Base, TypeOK, Ids
<1>3. CASE found # {}
  <2>1. PICK j \in found : Goto(c, [begun EXCEPT !.phase = "flush", !.id = j, !.loaded = table[j]])
    BY <1>3 DEF Begin, found
  <2> DEFINE t == [begun EXCEPT !.phase = "flush", !.id = j, !.loaded = table[j]]
  <2>2. table[j] \in Rows /\ j \in Ids /\ table[j] # None
    BY <1>1 DEF Base, TypeOK
  <2>3. /\ t \in Requests /\ t.data = d /\ t.id = j /\ t.todo = {} /\ t.phase = "flush"
        /\ \A k \in Ids : t.wrote[k] = None
    BY <2>2, IdleIsRequest DEF Requests, Idle
  <2>4. Goto(c, t)
    BY <2>1
  <2> HIDE DEF t
  <2> QED
    BY <2>2, <2>3, <2>4, GotoStep DEF Base, TypeOK
<1> QED
  BY <1>2, <1>3

-----------------------------------------------------------------------------
(* Types and shapes *)

\* No request deletes a row.
LEMMA RowsStay ==
    ASSUME Base, [Next]_vars
    PROVE  table' \in [Ids -> Rows] /\ \A i \in Ids : table[i] # None => table'[i] # None
<1>1. ASSUME NEW c \in Clients, Commit(c)
      PROVE  table' \in [Ids -> Rows] /\ \A i \in Ids : table[i] # None => table'[i] # None
  BY <1>1 DEF Commit, View, Base, TypeOK, Requests
<1>2. ASSUME NEW i \in Ids, NEW d \in Datas, Upload(i, d)
      PROVE  table' \in [Ids -> Rows] /\ \A j \in Ids : table[j] # None => table'[j] # None
  <2>1. [data |-> d, status |-> "draft", active |-> FALSE] \in Rows
    BY DEF Rows, Row
  <2> QED
    BY <1>2, <2>1 DEF Upload, Base, TypeOK
<1>3. CASE UNCHANGED table
  BY <1>3 DEF Base, TypeOK
<1> QED
  BY <1>1, <1>2, <1>3 DEF Next, Step, Insert, Flush, StartClear, SetActive, Refresh, Clear,
       BreakDeadlock, CutOff, Begin, Score, vars

LEMMA ShapeOfOthers ==
    ASSUME Base, NEW h \in Clients, req'[h] = req[h],
           \A i \in Ids : table[i] # None => table'[i] # None
    PROVE  Shape(h)'
<1>1. req[h] \in Requests
  BY DEF Base, TypeOK
<1> QED
  BY <1>1 DEF Base, Shape, Holds, View, Requests

LEMMA ShapeOfIdle ==
    ASSUME Base, NEW c \in Clients, req'[c] = Idle
    PROVE  Shape(c)'
BY DEF Shape, Holds, Idle

\* What a step does to the requests.
LEMMA RequestsStep ==
    ASSUME Base, [Next]_vars
    PROVE  req' \in [Clients -> Requests] /\ \A h \in Clients : Shape(h)'
<1> DEFINE Goal == req' \in [Clients -> Requests] /\ \A h \in Clients : Shape(h)'
<1> USE DEF Goal
<1>1. \A i \in Ids : table[i] # None => table'[i] # None
  BY RowsStay
<1>2. ASSUME NEW c \in Clients, req' \in [Clients -> Requests], Alone(c), Shape(c)'  PROVE Goal
  BY <1>1, <1>2, ShapeOfOthers DEF Alone
<1>3. ASSUME NEW c \in Clients, Goto(c, Idle)  PROVE Goal
  BY <1>2, <1>3, EndStep, ShapeOfIdle
<1>4. ASSUME NEW c \in Clients, Insert(c)  PROVE Goal
  <2>1. CASE req'[c] = Idle
    BY <1>2, <1>4, <2>1, InsertStep, ShapeOfIdle
  <2>2. CASE req'[c] # Idle
    <3>1. Shape(c) /\ req[c].phase = "insert" /\ req[c] \in Requests
      BY <1>4 DEF Base, TypeOK, Insert
    <3>2. req'[c].wrote[Default] # None
      BY <1>4, <2>2, InsertStep, NoneIsNoRow
    <3>3. req'[c].id = Default /\ req'[c].phase \in {"activate", "refresh"}
      BY <1>4, <2>2, <3>1, InsertStep DEF Continues
    <3>4. \A i \in Ids : Holds(c, i)' => i = Default
      BY <1>4, <2>2, <3>1, InsertStep DEF Shape, Holds
    <3>5. req'[c].phase = "activate" => req'[c].activate
      BY <1>4, <2>2, InsertStep DEF Continues
    <3>6. req'[c].data \in Datas /\ \A i \in req'[c].todo : i # Default /\ table'[i] # None
      BY <1>1, <1>4, <2>2, <3>1, InsertStep DEF Shape, Continues, Requests
    <3>7. Shape(c)'
      BY <3>2, <3>3, <3>4, <3>5, <3>6 DEF Shape, View, Ids
    <3> QED
      BY <1>2, <1>4, <2>2, <3>7, InsertStep
  <2> QED
    BY <2>1, <2>2
<1>5. ASSUME NEW c \in Clients, Flush(c)  PROVE Goal
  <2>1. Shape(c) /\ req[c].phase = "flush" /\ req[c] \in Requests
    BY <1>5 DEF Base, TypeOK, Flush
  <2>2. View(c, req[c].id)' # None
    BY <1>1, <1>5, <2>1, FlushStep, NoneIsNoRow DEF Shape, View, Continues
  <2>3. \A i \in Ids : Holds(c, i)' => i = req'[c].id
    BY <1>5, <2>1, FlushStep DEF Shape, Holds, Continues
  <2>4. /\ req'[c].phase \in {"activate", "refresh"}
        /\ req'[c].phase = "activate" => req'[c].activate
    BY <1>5, FlushStep DEF Continues
  <2>5. /\ req'[c].id \in Ids /\ req'[c].data \in Datas
        /\ \A i \in req'[c].todo : i # req'[c].id /\ table'[i] # None
    BY <1>1, <1>5, <2>1, FlushStep DEF Shape, Continues, Requests
  <2>6. Shape(c)'
    BY <2>2, <2>3, <2>4, <2>5 DEF Shape
  <2> QED
    BY <1>2, <1>5, <2>6, FlushStep
<1>6. ASSUME NEW c \in Clients, StartClear(c)  PROVE Goal
  <2>1. Shape(c) /\ req[c].phase = "activate" /\ req[c] \in Requests
    BY <1>6 DEF Base, TypeOK, StartClear
  <2>2. View(c, req[c].id)' # None
    BY <1>1, <1>6, <2>1, StartClearStep DEF Shape, View, Continues
  <2>3. \A i \in Others(c) : i # req[c].id /\ View(c, i) # None
    BY DEF Others
  <2>4. \A i \in Others(c) : i \in Ids /\ table'[i] # None
    BY <1>1, <2>1, <2>3 DEF Others, View, Shape, Holds
  <2>5. Shape(c)'
    BY <1>1, <1>6, <2>1, <2>2, <2>3, <2>4, StartClearStep DEF Shape, Continues
  <2> QED
    BY <1>2, <1>6, <2>5, StartClearStep
<1>7. ASSUME NEW c \in Clients, NEW i \in Ids, Clear(c, i)  PROVE Goal
  <2>1. Shape(c) /\ req[c].phase = "clear" /\ req[c] \in Requests /\ i \in req[c].todo
    BY <1>7 DEF Base, TypeOK, Clear
  <2>2. View(c, req[c].id)' # None
    BY <1>1, <1>7, <2>1, ClearStep, NoneIsNoRow DEF Shape, View, Continues
  <2>3. /\ req'[c].phase \in {"clear", "set"} /\ req'[c].activate
        /\ req'[c].phase = "set" => req'[c].todo = {}
    BY <1>7, <2>1, ClearStep DEF Shape, Continues
  <2>4. /\ req'[c].id \in Ids /\ req'[c].data \in Datas
        /\ \A j \in req'[c].todo : j # req'[c].id /\ table'[j] # None
    BY <1>1, <1>7, <2>1, ClearStep DEF Shape, Continues, Requests
  <2>5. Shape(c)'
    BY <2>2, <2>3, <2>4 DEF Shape
  <2> QED
    BY <1>2, <1>7, <2>5, ClearStep
<1>8. ASSUME NEW c \in Clients, SetActive(c)  PROVE Goal
  <2>1. Shape(c) /\ req[c].phase = "set" /\ req[c] \in Requests
    BY <1>8 DEF Base, TypeOK, SetActive
  <2>2. View(c, req[c].id)' # None
    BY <1>1, <1>8, <2>1, SetActiveStep, NoneIsNoRow DEF Shape, View, Continues
  <2>3. Shape(c)'
    BY <1>1, <1>8, <2>1, <2>2, SetActiveStep DEF Shape, Continues
  <2> QED
    BY <1>2, <1>8, <2>3, SetActiveStep
<1>9. ASSUME NEW c \in Clients, Refresh(c)  PROVE Goal
  <2>1. Shape(c) /\ req[c].phase = "refresh" /\ req[c] \in Requests
    BY <1>9 DEF Base, TypeOK, Refresh
  <2>2. View(c, req[c].id)' # None
    BY <1>1, <1>9, <2>1, RefreshStep DEF Shape, View, Continues
  <2>3. /\ req'[c].id \in Ids /\ req'[c].data \in Datas /\ req'[c].phase = "commit"
        /\ \A j \in req'[c].todo : j # req'[c].id /\ table'[j] # None
    BY <1>1, <1>9, <2>1, RefreshStep DEF Shape, Continues, Requests
  <2>4. \A i \in Ids : Holds(c, i)' /\ i # req'[c].id => req'[c].activate
    BY <1>9, <2>1, RefreshStep DEF Shape, Holds, Continues
  <2>5. Shape(c)'
    BY <2>2, <2>3, <2>4 DEF Shape
  <2> QED
    BY <1>2, <1>9, <2>5, RefreshStep
<1>10. ASSUME NEW c \in Clients, NEW i \in Known, NEW d \in Datas, NEW activate \in BOOLEAN,
              Begin(c, i, d, activate)
       PROVE  Goal
  <2>1. Shape(c)'
    BY <1>1, <1>10, BeginStep DEF Shape, Holds
  <2> QED
    BY <1>2, <1>10, <2>1, BeginStep
<1>11. CASE UNCHANGED req
  BY <1>1, <1>11, ShapeOfOthers DEF Base, TypeOK
<1> QED
  BY <1>3, <1>4, <1>5, <1>6, <1>7, <1>8, <1>9, <1>10, <1>11
     DEF Next, Step, Commit, BreakDeadlock, CutOff, Score, Upload, vars

\* Init satisfies the types and shapes.
LEMMA BaseInit == Init => Base
<1> SUFFICES ASSUME Init PROVE Base
  OBVIOUS
<1>1. table \in [Ids -> Rows]
  <2>1. PICK row \in {None} \cup [data : Datas, status : {"active"}, active : {TRUE}] :
           table = [i \in Ids |-> IF i = Default THEN row ELSE None]
    BY DEF Init
  <2>2. row \in Rows
    BY DEF Rows, Row
  <2> QED
    BY <2>1, <2>2 DEF Rows
<1>2. TypeOK
  <2>1. phantom \in BOOLEAN /\ scored \in [Ids -> Datas \cup {None}]
    BY DEF Init
  <2>2. req \in [Clients -> Requests]
    BY IdleIsRequest DEF Init
  <2>3. /\ kept \subseteq Ids /\ raced \subseteq Ids
        /\ requests \in 0..MaxRequests /\ trouble \in 0..MaxTrouble
    BY LimitsAssumption DEF Init
  <2> QED
    BY <1>1, <2>1, <2>2, <2>3 DEF TypeOK
<1>3. ASSUME NEW c \in Clients  PROVE Shape(c)
  <2>1. req[c] = Idle
    BY DEF Init
  <2> QED
    BY <2>1 DEF Shape, Holds, Idle
<1> QED
  BY <1>2, <1>3 DEF Base

\* The types of the history and of the counters.
LEMMA CountersStep ==
    ASSUME Base, [Next]_vars
    PROVE  /\ phantom' \in BOOLEAN
           /\ kept' \subseteq Ids /\ raced' \subseteq Ids
           /\ requests' \in 0..MaxRequests /\ trouble' \in 0..MaxTrouble
           /\ scored' \in [Ids -> Datas \cup {None}]
<1>1. phantom' \in BOOLEAN
  <2>1. phantom \in BOOLEAN
    BY DEF Base, TypeOK
  <2> QED
    BY <2>1, Zenon DEF Next, Step, Insert, Flush, StartClear, SetActive, Refresh, Clear, Commit,
       BreakDeadlock, CutOff, Begin, Score, Upload, vars
<1>2. kept' \subseteq Ids
  <2>1. ASSUME NEW c \in Clients, Refresh(c)  PROVE kept' \subseteq Ids
    BY <2>1 DEF Refresh, Base, TypeOK, Shape
  <2>2. CASE UNCHANGED kept
    BY <2>2 DEF Base, TypeOK
  <2> QED
    BY <2>1, <2>2 DEF Next, Step, Insert, Flush, StartClear, SetActive, Clear, Commit,
       BreakDeadlock, CutOff, Begin, Score, Upload, vars
<1>3. raced' \subseteq Ids
  <2>1. ASSUME NEW i \in Ids, Score(i)  PROVE raced' \subseteq Ids
    BY <2>1 DEF Score, Base, TypeOK
  <2>2. CASE UNCHANGED raced
    BY <2>2 DEF Base, TypeOK
  <2> QED
    BY <2>1, <2>2 DEF Next, Step, Insert, Flush, StartClear, SetActive, Refresh, Clear, Commit,
       BreakDeadlock, CutOff, Begin, Upload, vars
<1>4. requests' \in 0..MaxRequests
  <2>1. CASE requests < MaxRequests /\ requests' = requests + 1
    BY <2>1, LimitsAssumption DEF Base, TypeOK
  <2>2. CASE UNCHANGED requests
    BY <2>2 DEF Base, TypeOK
  <2> QED
    BY <2>1, <2>2 DEF Next, Step, Insert, Flush, StartClear, SetActive, Refresh, Clear, Commit,
       BreakDeadlock, CutOff, Begin, Score, Upload, vars
<1>5. trouble' \in 0..MaxTrouble
  <2>1. CASE trouble < MaxTrouble /\ trouble' = trouble + 1
    BY <2>1, LimitsAssumption DEF Base, TypeOK
  <2>2. CASE UNCHANGED trouble
    BY <2>2 DEF Base, TypeOK
  <2> QED
    BY <2>1, <2>2 DEF Next, Step, Insert, Flush, StartClear, SetActive, Refresh, Clear, Commit,
       BreakDeadlock, CutOff, Begin, Score, Upload, vars
<1>6. scored' \in [Ids -> Datas \cup {None}]
  <2>1. ASSUME NEW c \in Clients, Commit(c)  PROVE scored' \in [Ids -> Datas \cup {None}]
    BY <2>1 DEF Commit, Base, TypeOK
  <2>2. ASSUME NEW i \in Ids, Score(i)  PROVE scored' \in [Ids -> Datas \cup {None}]
    <3>1. table[i].data \in Datas
      BY <2>2 DEF Score, Base, TypeOK, Rows, Row
    <3> QED
      BY <2>2, <3>1 DEF Score, Base, TypeOK
  <2>3. CASE UNCHANGED scored
    BY <2>3 DEF Base, TypeOK
  <2> QED
    BY <2>1, <2>2, <2>3 DEF Next, Step, Insert, Flush, StartClear, SetActive, Refresh, Clear,
       BreakDeadlock, CutOff, Begin, Upload, vars
<1> QED
  BY <1>1, <1>2, <1>3, <1>4, <1>5, <1>6

LEMMA BaseStep == Base /\ [Next]_vars => Base'
<1> SUFFICES ASSUME Base, [Next]_vars PROVE Base'
  OBVIOUS
<1>1. TypeOK'
  BY RowsStay, RequestsStep, CountersStep DEF TypeOK
<1> QED
  BY <1>1, RequestsStep DEF Base

\* Every variable stays in its range: what a request writes is a whole row, of
\* a profile that exists.
THEOREM ProfilesTypeCorrect == Spec => []TypeOK
<1>1. Spec => []Base
  BY BaseInit, BaseStep, PTL DEF Spec
<1>2. Base => TypeOK
  BY DEF Base
<1> QED
  BY <1>1, <1>2, PTL

-----------------------------------------------------------------------------
(* One active profile *)

Work(c) == Own(c) /\ Sight(c) /\ Latest(c)

Inv == Base /\ Locks /\ (\A c \in Clients : Work(c)) /\ OneActiveProfile

\* A statement of c that locks only rows that are free and adds none behind an
\* activation keeps the invariant of all, if it keeps its own.
LEMMA StatementKeeps ==
    ASSUME Inv, Base', NEW c \in Clients, Alone(c), UNCHANGED table, phantom => phantom',
           \A i \in Ids : Holds(c, i)' => Holds(c, i) \/ Free(c, i),
           \A i \in Ids : Holds(c, i)' /\ ~Holds(c, i) /\ table[i] = None =>
               phantom' \/ Blind \ {c} = {},
           Activated(c)' => \/ Activated(c) \/ phantom'
                           \/ \A h \in Clients \ {c} : ~Activated(h),
           Own(c)', Sight(c)',
           ~phantom' /\ Activated(c)' =>
               \A i \in Ids : WasActive(i) /\ i # req'[c].id => Holds(c, i)'
    PROVE  Inv'
<1>1. ASSUME NEW h \in Clients \ {c}
      PROVE  /\ req'[h] = req[h]
             /\ \A i \in Ids : Holds(h, i)' <=> Holds(h, i)
             /\ Activated(h)' <=> Activated(h)
             /\ h \in Blind' <=> h \in Blind
  <2>1. req'[h] = req[h]
    BY DEF Alone
  <2>2. \A i \in Ids : Holds(h, i)' <=> Holds(h, i)
    BY <2>1 DEF Holds
  <2>3. Activated(h)' <=> Activated(h)
    BY <2>1 DEF Activated
  <2>4. h \in Blind' <=> h \in Blind
    BY <2>1 DEF Blind
  <2> QED
    BY <2>1, <2>2, <2>3, <2>4
<1>2. \A i \in Ids : WasActive(i)' <=> WasActive(i)
  BY DEF WasActive
<1>3. Locks'
  <2> SUFFICES ASSUME NEW g \in Clients, NEW h \in Clients, NEW i \in Ids,
                      Holds(g, i)', Holds(h, i)', g # h
               PROVE  FALSE
    BY DEF Locks
  <2>1. CASE g = c
    BY <1>1, <2>1 DEF Inv, Locks, Free
  <2>2. CASE h = c
    BY <1>1, <2>2 DEF Inv, Locks, Free
  <2>3. CASE g # c /\ h # c
    BY <1>1, <2>3 DEF Inv, Locks
  <2> QED
    BY <2>1, <2>2, <2>3
<1>4. ASSUME NEW h \in Clients \ {c}  PROVE Own(h)'
  <2>1. Own(h)
    BY DEF Inv, Work
  <2> QED
    BY <1>1, <2>1 DEF Own, Holds, WasActive
<1>5. ASSUME NEW h \in Clients \ {c}, ~phantom', h \in Blind', NEW i \in Ids
      PROVE  /\ table'[i] # None /\ i # req'[h].id => i \in req'[h].todo \/ Holds(h, i)'
             /\ table'[i] = None => \A g \in Clients \ {h} : ~Holds(g, i)'
  <2>1. /\ h \in Blind
        /\ table[i] # None /\ i # req[h].id => i \in req[h].todo \/ Holds(h, i)
        /\ table[i] = None => \A g \in Clients \ {h} : ~Holds(g, i)
    BY <1>1, <1>5 DEF Inv, Work, Sight
  <2>2. table'[i] = table[i] /\ req'[h] = req[h]
    BY <1>1
  <2>3. ASSUME table[i] = None, NEW g \in Clients \ {h}  PROVE ~Holds(g, i)'
    <3>1. CASE g = c
      BY <1>1, <1>5, <2>1, <2>3, <3>1
    <3>2. CASE g # c
      BY <1>1, <2>1, <2>3, <3>2
    <3> QED
      BY <3>1, <3>2
  <2> QED
    BY <1>1, <2>1, <2>2, <2>3
<1>6. ASSUME NEW h \in Clients, ~phantom', Activated(h)'  PROVE Latest(h)'
  <2>1. \A g \in Clients : Activated(g)' => g = h
    BY <1>1, <1>6 DEF Inv, Work, Latest
  <2>2. \A i \in Ids : WasActive(i)' /\ i # req'[h].id => Holds(h, i)'
    <3>1. CASE h = c
      BY <1>2, <1>6, <3>1
    <3>2. CASE h # c
      BY <1>1, <1>2, <1>6, <3>2 DEF Inv, Work, Latest
    <3> QED
      BY <3>1, <3>2
  <2> QED
    BY <2>1, <2>2 DEF Latest
<1>7. \A h \in Clients : Work(h)'
  <2>1. \A h \in Clients : Latest(h)'
    BY <1>6 DEF Latest
  <2>2. \A h \in Clients \ {c} : Sight(h)'
    BY <1>5 DEF Sight
  <2> QED
    BY <1>4, <2>1, <2>2 DEF Work
<1>8. OneActiveProfile'
  BY DEF Inv, OneActiveProfile, ActiveRows
<1> QED
  BY <1>3, <1>7, <1>8 DEF Inv

\* A request that ends without a commit, or begins, holds nothing.
LEMMA EmptyKeeps ==
    ASSUME Inv, Base', NEW c \in Clients, Alone(c), UNCHANGED table, phantom => phantom',
           req'[c].phase \in {"idle", "insert", "flush"}
    PROVE  Inv'
<1>1. \A i \in Ids : ~Holds(c, i)'
  BY DEF Base, Shape
<1>2. ~Activated(c)' /\ c \notin Blind'
  BY DEF Activated, Blind
<1>3. Own(c)' /\ Sight(c)'
  BY <1>1, <1>2 DEF Own, Sight
<1> QED
  BY <1>1, <1>2, <1>3, StatementKeeps

LEMMA InsertKeeps ==
    ASSUME Inv, Base', NEW c \in Clients, Insert(c)
    PROVE  Inv'
<1>1. UNCHANGED table /\ Base
  BY DEF Insert, Inv
<1>2. CASE req'[c] = Idle
  BY <1>1, <1>2, InsertStep, EmptyKeeps DEF Idle
<1>3. CASE req'[c] # Idle
  <2>1. /\ table[Default] = None /\ Free(c, Default) /\ Alone(c) /\ Default \in Ids
        /\ req[c].id = Default /\ req'[c].id = Default
        /\ phantom' = (phantom \/ Blind \ {c} # {})
        /\ ~req'[c].wrote[Default].active
        /\ \A i \in Ids \ {Default} : req'[c].wrote[i] = req[c].wrote[i]
    BY <1>1, <1>3, InsertStep DEF Continues, Ids
  <2>2. \A i \in Ids : ~Holds(c, i)
    BY <1>1 DEF Base, Shape, Insert
  <2>3. \A i \in Ids : Holds(c, i)' => i = Default
    BY <2>1, <2>2 DEF Holds
  <2>4. ~Activated(c)' /\ c \notin Blind'
    <3>1. /\ req'[c].phase = "activate" \/ req'[c].phase = "refresh"
          /\ req'[c].activate => req'[c].phase = "activate"
      BY <1>1, <1>3, InsertStep DEF Continues
    <3> QED
      BY <3>1 DEF Activated, Blind
  <2>5. Own(c)'
    BY <1>1, <2>1, <2>3, <2>4 DEF Own, WasActive
  <2>6. Sight(c)'
    BY <2>4 DEF Sight
  <2> QED
    BY <1>1, <2>1, <2>3, <2>4, <2>5, <2>6, StatementKeeps
<1> QED
  BY <1>2, <1>3

LEMMA FlushKeeps ==
    ASSUME Inv, Base', NEW c \in Clients, Flush(c)
    PROVE  Inv'
<1>1. UNCHANGED <<table, phantom>> /\ Base
  BY DEF Flush, Inv
<1> DEFINE id == req[c].id
<1>2. /\ Alone(c) /\ req'[c].id = id /\ id \in Ids /\ table[id] # None
      /\ \A i \in Ids \ {id} : req'[c].wrote[i] = req[c].wrote[i]
      /\ \/ req'[c].wrote[id] = req[c].wrote[id]
         \/ Free(c, id) /\ req'[c].wrote[id].active = table[id].active
  BY <1>1, FlushStep DEF Continues, Base, Shape, Flush
<1>3. \A i \in Ids : ~Holds(c, i)
  BY <1>1 DEF Base, Shape, Flush
<1>4. \A i \in Ids : Holds(c, i)' =>
          i = id /\ Free(c, i) /\ req'[c].wrote[i].active = table[i].active
  BY <1>2, <1>3 DEF Holds
<1>5. ~Activated(c)' /\ c \notin Blind'
  <2>1. /\ req'[c].phase = "activate" \/ req'[c].phase = "refresh"
        /\ req'[c].activate => req'[c].phase = "activate"
    BY <1>1, FlushStep DEF Continues
  <2> QED
    BY <2>1 DEF Activated, Blind
<1>6. Own(c)'
  BY <1>1, <1>2, <1>4, <1>5 DEF Own, WasActive
<1>7. Sight(c)'
  BY <1>5 DEF Sight
<1> QED
  BY <1>1, <1>2, <1>4, <1>5, <1>6, <1>7, StatementKeeps

LEMMA StartClearKeeps ==
    ASSUME Inv, Base', NEW c \in Clients, StartClear(c)
    PROVE  Inv'
<1>1. UNCHANGED table /\ Base /\ Own(c)
  BY DEF StartClear, Inv, Work
<1>2. /\ Alone(c) /\ req'[c].id = req[c].id /\ req'[c].wrote = req[c].wrote
      /\ req'[c].phase \in {"clear", "set"} /\ req'[c].todo = Others(c)
  BY <1>1, StartClearStep DEF Continues
<1>3. \A i \in Ids : Holds(c, i)' <=> Holds(c, i)
  BY <1>2 DEF Holds
<1>4. ~Activated(c) /\ ~Activated(c)'
  BY <1>2 DEF Activated, StartClear
<1>5. /\ phantom => phantom'
      /\ ~phantom' => \A h \in Clients \ {c} : \A j \in Ids : ~(table[j] = None /\ Holds(h, j))
  BY DEF StartClear
<1>6. Own(c)'
  BY <1>1, <1>2, <1>3, <1>4 DEF Own, WasActive
<1>7. Sight(c)'
  <2> SUFFICES ASSUME ~phantom', NEW i \in Ids
               PROVE  /\ table'[i] # None /\ i # req'[c].id => i \in req'[c].todo
                      /\ table'[i] = None => \A h \in Clients \ {c} : ~Holds(h, i)'
    BY DEF Sight
  <2>1. table[i] # None => View(c, i) # None
    BY DEF View
  <2>2. \A h \in Clients \ {c} : Holds(h, i)' <=> Holds(h, i)
    BY <1>2 DEF Alone, Holds
  <2> QED
    BY <1>1, <1>2, <1>5, <2>1, <2>2 DEF Others
<1> QED
  BY <1>1, <1>2, <1>3, <1>4, <1>5, <1>6, <1>7, StatementKeeps

LEMMA ClearKeeps ==
    ASSUME Inv, Base', NEW c \in Clients, NEW i \in Ids, Clear(c, i)
    PROVE  Inv'
<1>1. UNCHANGED <<table, phantom>> /\ Base /\ Own(c) /\ Sight(c) /\ c \in Blind /\ Free(c, i)
  BY DEF Clear, Inv, Work, Blind
<1>2. /\ Alone(c) /\ req'[c].id = req[c].id
      /\ req'[c].phase \in {"clear", "set"} /\ req'[c].todo = req[c].todo \ {i}
      /\ \A j \in Ids \ {i} : req'[c].wrote[j] = req[c].wrote[j]
      /\ req'[c].wrote[i].data = View(c, i).data /\ ~req'[c].wrote[i].active
      /\ req'[c].wrote[i] # None
  BY <1>1, ClearStep, NoneIsNoRow DEF Continues
<1>3. table[i] # None /\ i # req[c].id
  BY <1>1 DEF Base, Shape, Clear
<1>4. Holds(c, i)' /\ \A j \in Ids \ {i} : Holds(c, j)' <=> Holds(c, j)
  BY <1>2 DEF Holds
<1>5. ~Activated(c) /\ ~Activated(c)'
  BY <1>2 DEF Activated, Clear
<1>6. View(c, i).data = table[i].data
  BY <1>1, <1>3 DEF View, Own, Holds
<1>7. Own(c)'
  BY <1>1, <1>2, <1>3, <1>4, <1>5, <1>6 DEF Own, WasActive
<1>8. Sight(c)'
  <2> SUFFICES ASSUME ~phantom', NEW j \in Ids
               PROVE  /\ table'[j] # None /\ j # req'[c].id => j \in req'[c].todo \/ Holds(c, j)'
                      /\ table'[j] = None => \A h \in Clients \ {c} : ~Holds(h, j)'
    BY DEF Sight
  <2>1. \A h \in Clients \ {c} : Holds(h, j)' <=> Holds(h, j)
    BY <1>2 DEF Alone, Holds
  <2>2. ~phantom
    BY <1>1
  <2> QED
    BY <1>1, <1>2, <1>4, <2>1, <2>2 DEF Sight
<1> QED
  BY <1>1, <1>2, <1>3, <1>4, <1>5, <1>7, <1>8, StatementKeeps

LEMMA SetActiveKeeps ==
    ASSUME Inv, Base', NEW c \in Clients, SetActive(c)
    PROVE  Inv'
<1> DEFINE id == req[c].id
<1>1. /\ UNCHANGED <<table, phantom>> /\ Base /\ Own(c) /\ Sight(c) /\ c \in Blind
      /\ Free(c, id) /\ req[c].phase = "set"
  BY DEF SetActive, Inv, Work, Blind
<1>2. /\ id \in Ids /\ View(c, id) # None /\ req[c].activate /\ req[c].todo = {}
  BY <1>1 DEF Base, Shape
<1>3. /\ Alone(c) /\ req'[c].id = id /\ req'[c].activate
      /\ req'[c].phase = "refresh"
      /\ \A j \in Ids \ {id} : req'[c].wrote[j] = req[c].wrote[j]
      /\ req'[c].wrote[id] # None /\ req'[c].wrote[id].active
  BY <1>1, <1>2, SetActiveStep, NoneIsNoRow DEF Continues
<1>4. Holds(c, id)' /\ \A j \in Ids \ {id} : Holds(c, j)' <=> Holds(c, j)
  BY <1>3 DEF Holds
<1>5. c \notin Blind' /\ Activated(c)'
  BY <1>3 DEF Blind, Activated
<1>6. table[id] = None => Holds(c, id)
  BY <1>2 DEF View, Holds
<1>7. Own(c)'
  BY <1>1, <1>3, <1>4, <1>5, <1>6 DEF Own
<1>8. Sight(c)'
  BY <1>5 DEF Sight
<1>9. ASSUME ~phantom'
      PROVE  /\ \A i \in Ids : WasActive(i) /\ i # req'[c].id => Holds(c, i)'
             /\ \A h \in Clients \ {c} : ~Activated(h)
  <2>1. ~phantom
    BY <1>1, <1>9
  <2>2. \A i \in Ids : WasActive(i) /\ i # id => Holds(c, i)
    BY <1>1, <1>2, <2>1 DEF Sight, WasActive
  <2>3. ASSUME NEW h \in Clients \ {c}, Activated(h)  PROVE FALSE
    <3>1. Holds(h, req[h].id) /\ req[h].id \in Ids
      BY <2>3 DEF Inv, Base, Shape, Work, Own, Activated
    <3>2. req[h].id # id
      BY <1>1, <3>1 DEF Free
    <3>3. table[req[h].id] # None
      BY <1>1, <2>1, <3>1 DEF Sight
    <3>4. Holds(c, req[h].id)
      BY <1>1, <1>2, <2>1, <3>1, <3>2, <3>3 DEF Sight
    <3> QED
      BY <3>1, <3>4 DEF Inv, Locks
  <2> QED
    BY <1>3, <1>4, <2>2, <2>3
<1> QED
  BY <1>1, <1>2, <1>3, <1>4, <1>5, <1>6, <1>7, <1>8, <1>9, StatementKeeps

LEMMA RefreshKeeps ==
    ASSUME Inv, Base', NEW c \in Clients, Refresh(c)
    PROVE  Inv'
<1>1. UNCHANGED <<table, phantom>> /\ Base /\ Own(c) /\ Latest(c) /\ req[c].phase = "refresh"
  BY DEF Refresh, Inv, Work
<1>2. /\ Alone(c) /\ req'[c].id = req[c].id /\ req'[c].wrote = req[c].wrote
      /\ req'[c].phase = "commit" /\ req'[c].activate = req[c].activate
  BY <1>1, RefreshStep DEF Continues
<1>3. \A i \in Ids : Holds(c, i)' <=> Holds(c, i)
  BY <1>2 DEF Holds
<1>4. (Activated(c)' <=> Activated(c)) /\ c \notin Blind'
  BY <1>1, <1>2 DEF Activated, Blind
<1>5. Own(c)'
  BY <1>1, <1>2, <1>4 DEF Own, Holds, WasActive
<1>6. Sight(c)'
  BY <1>4 DEF Sight
<1>7. ~phantom' /\ Activated(c)' => \A i \in Ids : WasActive(i) /\ i # req'[c].id => Holds(c, i)'
  BY <1>1, <1>2, <1>3, <1>4 DEF Latest
<1> QED
  BY <1>1, <1>2, <1>3, <1>4, <1>5, <1>6, <1>7, StatementKeeps

\* The rows that a step adds or changes are not those of the requests that go
\* on, and it adds none that an activation at work should have seen.
LEMMA TableStepKeeps ==
    ASSUME Inv, Base', phantom => phantom',
           \A i \in Ids : table[i] # None => table'[i] # None,
           NEW S \in SUBSET Clients, \A h \in S : req'[h] = req[h],
           \A h \in Clients \ S : req'[h] = Idle,
           \A h \in S : \A i \in Ids : Holds(h, i) => table'[i] = table[i],
           \A i \in Ids : table[i] = None /\ table'[i] # None => phantom' \/ Blind \cap S = {},
           \A h \in S : ~phantom' /\ Activated(h) =>
               \A i \in Ids : WasActive(i)' /\ i # req[h].id => WasActive(i) \/ Holds(h, i),
           OneActiveProfile'
    PROVE  Inv'
<1>1. ASSUME NEW h \in Clients \ S
      PROVE  ~Activated(h)' /\ h \notin Blind' /\ \A i \in Ids : ~Holds(h, i)'
  BY <1>1 DEF Activated, Blind, Holds, Idle
<1>2. ASSUME NEW h \in S
      PROVE  /\ Activated(h)' <=> Activated(h)
             /\ h \in Blind' <=> h \in Blind
             /\ \A i \in Ids : Holds(h, i)' <=> Holds(h, i)
  BY <1>2 DEF Activated, Blind, Holds
<1>3. Locks'
  BY <1>1, <1>2 DEF Inv, Locks
<1>4. ASSUME NEW h \in Clients \ S  PROVE Work(h)'
  BY <1>1, <1>4 DEF Work, Own, Sight, Latest
<1>5. ASSUME NEW h \in S  PROVE Own(h)'
  <2>1. Own(h) /\ \A i \in Ids : Holds(h, i) => table'[i] = table[i]
    BY DEF Inv, Work
  <2> QED
    BY <1>2, <2>1 DEF Own, Holds, WasActive
<1>6. ASSUME NEW h \in S  PROVE Sight(h)'
  <2> SUFFICES ASSUME ~phantom', h \in Blind', NEW i \in Ids
               PROVE  /\ table'[i] # None /\ i # req'[h].id => i \in req'[h].todo \/ Holds(h, i)'
                      /\ table'[i] = None => \A g \in Clients \ {h} : ~Holds(g, i)'
    BY DEF Sight
  <2>1. /\ table[i] # None /\ i # req[h].id => i \in req[h].todo \/ Holds(h, i)
        /\ table[i] = None => \A g \in Clients \ {h} : ~Holds(g, i)
    BY <1>2 DEF Inv, Work, Sight
  <2>2. table[i] = None <=> table'[i] = None
    BY <1>2
  <2> QED
    BY <1>1, <1>2, <2>1, <2>2
<1>7. ASSUME NEW h \in S  PROVE Latest(h)'
  <2> SUFFICES ASSUME ~phantom', Activated(h)'
               PROVE  /\ \A i \in Ids : WasActive(i)' /\ i # req'[h].id => Holds(h, i)'
                      /\ \A g \in Clients : Activated(g)' => g = h
    BY DEF Latest
  <2>1. /\ \A i \in Ids : WasActive(i) /\ i # req[h].id => Holds(h, i)
        /\ \A g \in Clients : Activated(g) => g = h
    BY <1>2 DEF Inv, Work, Latest
  <2>2. \A i \in Ids : WasActive(i)' /\ i # req'[h].id => Holds(h, i)'
    BY <1>2, <2>1
  <2> QED
    BY <1>1, <1>2, <2>1, <2>2
<1> QED
  BY <1>3, <1>4, <1>5, <1>6, <1>7 DEF Inv, Work

LEMMA CommitKeeps ==
    ASSUME Inv, Base', NEW c \in Clients, Commit(c)
    PROVE  Inv'
<1>1. /\ Base /\ Own(c) /\ Sight(c) /\ Latest(c) /\ req[c].phase = "commit"
      /\ req[c].id \in Ids /\ phantom' = phantom
      /\ \A i \in Ids : table'[i] = IF Holds(c, i) THEN req[c].wrote[i] ELSE table[i]
  BY DEF Commit, Inv, Work, Base, Shape, View, Holds
<1>2. req'[c] = Idle /\ \A h \in Clients \ {c} : req'[h] = req[h]
  BY <1>1, EndStep DEF Commit, Alone
<1>3. \A i \in Ids : table[i] # None => table'[i] # None
  BY <1>1 DEF Holds
<1>4. ASSUME NEW h \in Clients \ {c}, NEW i \in Ids, Holds(h, i)  PROVE table'[i] = table[i]
  BY <1>1, <1>4 DEF Inv, Locks
<1>5. ASSUME NEW i \in Ids, table[i] = None, table'[i] # None, ~phantom'
      PROVE  Blind \cap (Clients \ {c}) = {}
  <2>1. Holds(c, i)
    BY <1>1, <1>5
  <2>2. ASSUME NEW h \in Clients \ {c}, h \in Blind  PROVE FALSE
    BY <1>1, <1>5, <2>1, <2>2 DEF Inv, Work, Sight
  <2> QED
    BY <2>2
<1>6. ASSUME NEW i \in Ids, WasActive(i)'
      PROVE  WasActive(i) \/ (Activated(c) /\ i = req[c].id)
  <2>1. CASE Holds(c, i)
    BY <1>1, <1>6, <2>1 DEF Own, WasActive
  <2>2. CASE ~Holds(c, i)
    <3>1. table'[i] = table[i]
      BY <1>1, <2>2
    <3> QED
      BY <1>6, <3>1 DEF WasActive
  <2> QED
    BY <2>1, <2>2
<1>7. ASSUME NEW h \in Clients \ {c}, ~phantom', Activated(h), NEW i \in Ids, WasActive(i)'
      PROVE  WasActive(i)
  <2>1. ~Activated(c)
    BY <1>1, <1>7 DEF Inv, Work, Latest
  <2> QED
    BY <1>6, <1>7, <2>1
<1>8. OneActiveProfile'
  <2> SUFFICES ASSUME ~phantom', NEW i \in Ids, NEW j \in Ids, WasActive(i)', WasActive(j)'
               PROVE  i = j
    BY Zenon DEF OneActiveProfile, ActiveRows, WasActive
  <2>1. WasActive(i) /\ WasActive(j) => i = j
    BY <1>1 DEF Inv, OneActiveProfile, ActiveRows, WasActive
  <2>2. CASE ~Activated(c)
    BY <1>6, <2>1, <2>2
  <2>3. CASE Activated(c)
    <3>1. ASSUME NEW k \in Ids, WasActive(k)'  PROVE k = req[c].id
      <4>1. CASE Holds(c, k)
        BY <1>1, <3>1, <4>1 DEF Own, WasActive
      <4>2. CASE ~Holds(c, k)
        BY <1>1, <1>6, <2>3, <3>1, <4>2 DEF Latest
      <4> QED
        BY <4>1, <4>2
    <3> QED
      BY <3>1
  <2> QED
    BY <2>2, <2>3
<1> DEFINE S == Clients \ {c}
<1>9. /\ S \in SUBSET Clients /\ \A h \in S : req'[h] = req[h]
      /\ \A h \in Clients \ S : req'[h] = Idle
      /\ \A h \in S : \A i \in Ids : Holds(h, i) => table'[i] = table[i]
      /\ \A i \in Ids : table[i] = None /\ table'[i] # None => phantom' \/ Blind \cap S = {}
      /\ \A h \in S : ~phantom' /\ Activated(h) =>
            \A i \in Ids : WasActive(i)' /\ i # req[h].id => WasActive(i) \/ Holds(h, i)
  BY <1>2, <1>4, <1>5, <1>7
<1> HIDE DEF S
<1> QED
  BY <1>1, <1>3, <1>8, <1>9, TableStepKeeps

LEMMA UploadKeeps ==
    ASSUME Inv, Base', NEW i \in Ids, NEW d \in Datas, Upload(i, d)
    PROVE  Inv'
<1>1. /\ Base /\ i \in Drafts /\ table[i] = None /\ req' = req
      /\ phantom' = (phantom \/ Blind # {})
      /\ table'[i].active = FALSE /\ \A j \in Ids \ {i} : table'[j] = table[j]
  BY DEF Upload, Inv, Base, TypeOK
<1>2. \A j \in Ids : table[j] # None => table'[j] # None
  BY <1>1
<1>3. ASSUME NEW h \in Clients, Holds(h, i)  PROVE FALSE
  <2>1. Own(h) /\ i # Default
    BY <1>1, NoneAssumption DEF Inv, Work
  <2> QED
    BY <1>1, <1>3, <2>1 DEF Own
<1>4. \A h \in Clients : \A j \in Ids : Holds(h, j) => table'[j] = table[j]
  BY <1>1, <1>3
<1>5. \A j \in Ids : WasActive(j)' => WasActive(j)
  BY <1>1 DEF WasActive
<1>6. OneActiveProfile'
  <2>1. ~phantom' => ~phantom
    BY <1>1
  <2> QED
    BY <1>5, <2>1 DEF Inv, OneActiveProfile, ActiveRows, WasActive
<1>7. ~phantom' => Blind \cap Clients = {}
  BY <1>1 DEF Blind
<1> QED
  BY <1>1, <1>2, <1>4, <1>5, <1>6, <1>7, TableStepKeeps

LEMMA ScoreKeeps ==
    ASSUME Inv, Base', UNCHANGED <<table, req, phantom>>
    PROVE  Inv'
<1>1. OneActiveProfile' /\ \A i \in Ids : WasActive(i)' => WasActive(i)
  BY DEF Inv, OneActiveProfile, ActiveRows, WasActive
<1> QED
  BY <1>1, TableStepKeeps

LEMMA InvInit == Init => Inv
<1> SUFFICES ASSUME Init PROVE Inv
  OBVIOUS
<1>1. Base
  BY BaseInit
<1>2. \A c \in Clients : req[c] = Idle
  BY DEF Init
<1>3. Locks
  BY <1>2 DEF Locks, Holds, Idle
<1>4. \A c \in Clients : Work(c)
  BY <1>2 DEF Work, Own, Sight, Latest, Blind, Activated, Holds, Idle
<1>5. OneActiveProfile
  <2>1. \A i \in Ids \ {Default} : table[i] = None
    BY DEF Init
  <2>2. ActiveRows \subseteq {Default}
    BY <2>1 DEF ActiveRows
  <2> QED
    BY <2>2 DEF OneActiveProfile
<1> QED
  BY <1>1, <1>3, <1>4, <1>5 DEF Inv

LEMMA InvStep == Inv /\ [Next]_vars => Inv'
<1> SUFFICES ASSUME Inv, [Next]_vars PROVE Inv'
  OBVIOUS
<1>1. Base /\ Base'
  BY BaseStep DEF Inv
<1>2. ASSUME NEW c \in Clients, BreakDeadlock(c) \/ CutOff(c)  PROVE Inv'
  <2>1. Goto(c, Idle) /\ UNCHANGED <<table, phantom>>
    BY <1>2 DEF BreakDeadlock, CutOff
  <2>2. Alone(c) /\ req'[c] = Idle
    BY <1>1, <2>1, EndStep
  <2>3. req'[c].phase \in {"idle", "insert", "flush"}
    BY <2>2 DEF Idle
  <2> QED
    BY <1>1, <2>1, <2>2, <2>3, EmptyKeeps
<1>3. ASSUME NEW c \in Clients, NEW i \in Known, NEW d \in Datas, NEW activate \in BOOLEAN,
             Begin(c, i, d, activate)
      PROVE  Inv'
  <2>1. Alone(c) /\ req'[c].phase \in {"insert", "flush"}
    BY <1>1, <1>3, BeginStep
  <2>2. UNCHANGED <<table, phantom>>
    BY <1>3 DEF Begin
  <2> QED
    BY <1>1, <2>1, <2>2, EmptyKeeps
<1>4. ASSUME UNCHANGED <<table, req, phantom>>  PROVE Inv'
  BY <1>1, <1>4, ScoreKeeps
<1> QED
  BY <1>1, <1>2, <1>3, <1>4, InsertKeeps, FlushKeeps, StartClearKeeps, ClearKeeps, SetActiveKeeps,
     RefreshKeeps, CommitKeeps, UploadKeeps DEF Next, Step, Score, vars

\* However many activations overlap, block, abort or are cut off, one profile
\* at most is active, unless a row was added that one of them could not see.
THEOREM OneProfileIsActive == Spec => []OneActiveProfile
<1>1. Spec => []Inv
  BY InvInit, InvStep, PTL DEF Spec
<1>2. Inv => OneActiveProfile
  BY DEF Inv
<1> QED
  BY <1>1, <1>2, PTL

-----------------------------------------------------------------------------
(* Stale scores *)

Excused == kept \cup raced

Scores == \A i \in Ids :
    scored[i] = None \/ i \in Excused \/ (table[i] # None /\ scored[i] = table[i].data)

\* c has new data for a row.
Edits(c, i) == Holds(c, i) /\ i = req[c].id /\ table[i] # None /\ req[c].wrote[i].data # table[i].data

\* A request that has new data knows it, and once it has read its row again,
\* the scores of the old data are deleted, if they are not excused.
Edit(c) == \A i \in Ids : Edits(c, i) =>
    /\ Changed(c)
    /\ req[c].phase = "commit" => req[c].gone \/ scored[i] = None \/ i \in Excused

ScoreInv == Inv /\ Scores /\ \A c \in Clients : Edit(c)

\* A step that leaves rows and scores alone keeps the invariant, if it keeps
\* that of the request that takes it.
LEMMA EditKeeps ==
    ASSUME ScoreInv, NEW c \in Clients, Alone(c), UNCHANGED <<table, scored>>,
           Excused \subseteq Excused', Edit(c)'
    PROVE  Scores' /\ \A h \in Clients : Edit(h)'
<1>1. Scores'
  BY DEF ScoreInv, Scores
<1>2. ASSUME NEW h \in Clients \ {c}  PROVE Edit(h)'
  <2>1. req'[h] = req[h] /\ Edit(h)
    BY DEF Alone, ScoreInv
  <2>2. \A i \in Ids : Edits(h, i)' <=> Edits(h, i)
    BY <2>1 DEF Edits, Holds
  <2>3. Changed(h)' <=> Changed(h)
    BY <2>1 DEF Changed
  <2> QED
    BY <2>1, <2>2, <2>3 DEF Edit
<1> QED
  BY <1>1, <1>2

\* A step that changes rows or scores, and the data of no row that a request holds.
LEMMA TableEditKeeps ==
    ASSUME ScoreInv, NEW S \in SUBSET Clients, \A h \in S : req'[h] = req[h],
           \A h \in Clients \ S : req'[h] = Idle,
           \A h \in S : \A i \in Ids : Holds(h, i) => table'[i] = table[i],
           Excused \subseteq Excused',
           \A i \in Ids : \/ scored'[i] \in {scored[i], None}
                         \/ \A h \in S : req[h].phase = "commit" => i # req[h].id \/ i \in Excused'
    PROVE  \A h \in Clients : Edit(h)'
<1>1. ASSUME NEW h \in Clients \ S  PROVE Edit(h)'
  BY <1>1 DEF Edit, Edits, Holds, Idle
<1>2. ASSUME NEW h \in S, NEW i \in Ids, Edits(h, i)'
      PROVE  /\ Changed(h)'
             /\ req'[h].phase = "commit" => req'[h].gone \/ scored'[i] = None \/ i \in Excused'
  <2>1. req'[h] = req[h] /\ Edits(h, i) /\ i = req[h].id
    BY <1>2 DEF Edits, Holds
  <2>2. Changed(h)' <=> Changed(h)
    BY <2>1 DEF Changed
  <2>3. /\ Changed(h)
        /\ req[h].phase = "commit" => req[h].gone \/ scored[i] = None \/ i \in Excused
    BY <2>1 DEF ScoreInv, Edit
  <2> QED
    BY <2>1, <2>2, <2>3
<1> QED
  BY <1>1, <1>2 DEF Edit

LEMMA InsertEdits ==
    ASSUME ScoreInv, NEW c \in Clients, Insert(c)  PROVE Edit(c)'
<1>1. UNCHANGED table /\ Base
  BY DEF Insert, ScoreInv, Inv
<1>2. CASE req'[c] = Idle
  BY <1>2 DEF Edit, Edits, Holds, Idle
<1>3. CASE req'[c] # Idle
  BY <1>1, <1>3, InsertStep DEF Edit, Edits, Continues
<1> QED
  BY <1>2, <1>3

LEMMA FlushEdits ==
    ASSUME ScoreInv, NEW c \in Clients, Flush(c)  PROVE Edit(c)'
<1>1. UNCHANGED table /\ Base /\ \A i \in Ids : ~Holds(c, i)
  BY DEF Flush, ScoreInv, Inv, Base, Shape
<1>2. /\ req'[c].id = req[c].id /\ req'[c].data = req[c].data /\ req'[c].loaded = req[c].loaded
      /\ req'[c].phase # "commit"
      /\ Holds(c, req[c].id)' /\ ~Changed(c) =>
             req'[c].wrote[req[c].id].data = table[req[c].id].data
  <2>1. req[c].id \in Ids
    BY <1>1 DEF Base, Shape, Flush
  <2> QED
    BY <1>1, <2>1, FlushStep DEF Continues, Holds
<1>3. Changed(c)' <=> Changed(c)
  BY <1>2 DEF Changed
<1> QED
  BY <1>1, <1>2, <1>3 DEF Edit, Edits

\* The other statements of an activation write no new data.
LEMMA OtherEdits ==
    ASSUME ScoreInv, NEW c \in Clients, StartClear(c) \/ SetActive(c) \/ \E i \in Ids : Clear(c, i)
    PROVE  Edit(c)'
<1>1. Base /\ Edit(c) /\ UNCHANGED table
  BY DEF ScoreInv, Inv, StartClear, SetActive, Clear
<1> SUFFICES ASSUME NEW i \in Ids, Edits(c, i)'
             PROVE  Changed(c)' /\ req'[c].phase # "commit"
  BY DEF Edit
<1>2. /\ req'[c].id = req[c].id /\ req'[c].data = req[c].data /\ req'[c].loaded = req[c].loaded
      /\ req'[c].phase # "commit"
  BY <1>1, StartClearStep, SetActiveStep, ClearStep DEF Continues
<1>3. Changed(c)' <=> Changed(c)
  BY <1>2 DEF Changed
<1>4. i = req[c].id /\ table[i] # None /\ req'[c].wrote[i].data # table[i].data /\ Holds(c, i)'
  BY <1>1, <1>2 DEF Edits
<1>5. Holds(c, i) /\ req[c].wrote[i].data = req'[c].wrote[i].data
  <2>1. CASE StartClear(c)
    BY <1>1, <1>4, <2>1, StartClearStep DEF Holds
  <2>2. CASE SetActive(c)
    BY <1>1, <1>4, <2>2, SetActiveStep DEF Holds, View
  <2>3. ASSUME NEW j \in Ids, Clear(c, j)  PROVE Holds(c, i) /\ req[c].wrote[i].data = req'[c].wrote[i].data
    <3>1. i # j
      BY <1>1, <1>4, <2>3 DEF Base, Shape, Clear
    <3> QED
      BY <1>1, <1>4, <2>3, <3>1, ClearStep DEF Holds
  <2> QED
    BY <2>1, <2>2, <2>3
<1> QED
  BY <1>1, <1>2, <1>3, <1>4, <1>5 DEF Edit, Edits

LEMMA RefreshEdits ==
    ASSUME ScoreInv, NEW c \in Clients, Refresh(c)  PROVE Edit(c)'
<1>1. Base /\ Edit(c) /\ UNCHANGED <<table, scored, raced>>
  BY DEF ScoreInv, Inv, Refresh
<1>2. /\ req'[c].id = req[c].id /\ req'[c].data = req[c].data /\ req'[c].loaded = req[c].loaded
      /\ req'[c].wrote = req[c].wrote
      /\ req'[c].gone <=> (Invalidates(c) /\ scored[req[c].id] # None)
  BY <1>1, RefreshStep DEF Continues
<1>3. Changed(c)' <=> Changed(c)
  BY <1>2 DEF Changed
<1>4. \A i \in Ids : Edits(c, i)' <=> Edits(c, i)
  BY <1>1, <1>2 DEF Edits, Holds
<1>5. Changed(c) => Invalidates(c) \/ req[c].id \in kept'
  BY DEF Refresh, Invalidates
<1> SUFFICES ASSUME NEW i \in Ids, Edits(c, i)
             PROVE  Changed(c)' /\ (req'[c].gone \/ scored'[i] = None \/ i \in Excused')
  BY <1>4 DEF Edit
<1>6. Changed(c) /\ i = req[c].id
  BY <1>1 DEF Edit, Edits
<1> QED
  BY <1>1, <1>2, <1>3, <1>5, <1>6 DEF Excused

LEMMA CommitScores ==
    ASSUME ScoreInv, NEW c \in Clients, Commit(c)
    PROVE  Scores' /\ \A h \in Clients : Edit(h)'
<1>1. /\ Inv /\ Base /\ Own(c) /\ Edit(c) /\ req[c].phase = "commit" /\ req[c].id \in Ids
      /\ UNCHANGED <<kept, raced>> /\ scored \in [Ids -> Datas \cup {None}]
      /\ scored' = [scored EXCEPT ![req[c].id] = IF req[c].gone THEN None ELSE scored[req[c].id]]
      /\ \A i \in Ids : table'[i] = IF Holds(c, i) THEN req[c].wrote[i] ELSE table[i]
  BY DEF Commit, ScoreInv, Inv, Work, Base, TypeOK, Shape, View, Holds
<1>2. req'[c] = Idle /\ \A h \in Clients \ {c} : req'[h] = req[h]
  BY <1>1, EndStep DEF Commit, Alone
<1>3. \A i \in Ids : scored'[i] = scored[i] \/ scored'[i] = None
  BY <1>1
<1>4. ASSUME NEW i \in Ids
      PROVE  scored'[i] = None \/ i \in Excused' \/ (table'[i] # None /\ scored'[i] = table'[i].data)
  <2>1. scored[i] = None \/ i \in Excused \/ (table[i] # None /\ scored[i] = table[i].data)
    BY DEF ScoreInv, Scores
  <2>2. Excused' = Excused
    BY <1>1 DEF Excused
  <2>3. CASE Edits(c, i)
    <3>1. i = req[c].id /\ (req[c].gone \/ scored[i] = None \/ i \in Excused)
      BY <1>1, <2>3 DEF Edit, Edits
    <3> QED
      BY <1>1, <2>2, <3>1
  <2>4. CASE ~Edits(c, i) /\ table[i] # None
    <3>1. table'[i] # None /\ table'[i].data = table[i].data
      BY <1>1, <2>4 DEF Edits, Own, Holds
    <3> QED
      BY <1>3, <2>1, <2>2, <3>1
  <2>5. CASE table[i] = None
    BY <1>3, <2>1, <2>2, <2>5
  <2> QED
    BY <2>3, <2>4, <2>5
<1> DEFINE S == Clients \ {c}
<1>5. /\ S \in SUBSET Clients /\ \A h \in S : req'[h] = req[h]
      /\ \A h \in Clients \ S : req'[h] = Idle
      /\ \A h \in S : \A i \in Ids : Holds(h, i) => table'[i] = table[i]
  BY <1>1, <1>2 DEF Inv, Locks
<1>6. Excused \subseteq Excused' /\ \A i \in Ids : scored'[i] \in {scored[i], None}
  BY <1>1, <1>3 DEF Excused
<1> HIDE DEF S
<1> QED
  BY <1>4, <1>5, <1>6, TableEditKeeps DEF Scores

LEMMA UploadScores ==
    ASSUME ScoreInv, NEW i \in Ids, NEW d \in Datas, Upload(i, d)
    PROVE  Scores' /\ \A h \in Clients : Edit(h)'
<1>1. /\ Inv /\ i \in Drafts /\ table[i] = None /\ req' = req
      /\ \A j \in Ids \ {i} : table'[j] = table[j]
      /\ UNCHANGED <<scored, kept, raced>>
  BY DEF Upload, ScoreInv, Inv, Base, TypeOK
<1>2. ASSUME NEW h \in Clients, Holds(h, i)  PROVE FALSE
  <2>1. Own(h) /\ i # Default
    BY <1>1, NoneAssumption DEF Inv, Work
  <2> QED
    BY <1>1, <1>2, <2>1 DEF Own
<1>3. \A h \in Clients : \A j \in Ids : Holds(h, j) => table'[j] = table[j]
  BY <1>1, <1>2
<1>4. Scores'
  BY <1>1 DEF ScoreInv, Scores, Excused
<1>5. Excused \subseteq Excused' /\ \A j \in Ids : scored'[j] \in {scored[j], None}
  BY <1>1 DEF Excused
<1> QED
  BY <1>1, <1>3, <1>4, <1>5, TableEditKeeps

LEMMA ScoreScores ==
    ASSUME ScoreInv, NEW i \in Ids, Score(i)
    PROVE  Scores' /\ \A h \in Clients : Edit(h)'
<1>1. /\ table[i] # None /\ UNCHANGED <<table, req, kept>> /\ raced \subseteq raced'
      /\ scored'[i] = table[i].data /\ \A j \in Ids \ {i} : scored'[j] = scored[j]
  BY DEF Score, ScoreInv, Inv, Base, TypeOK
<1>2. (\E c \in Clients : req[c].phase = "commit" /\ req[c].id = i) => i \in raced'
  BY DEF Score
<1>3. Excused \subseteq Excused'
  BY <1>1 DEF Excused
<1>4. Scores'
  BY <1>1, <1>3 DEF ScoreInv, Scores
<1>5. \A j \in Ids : \/ scored'[j] \in {scored[j], None}
                    \/ \A h \in Clients : req[h].phase = "commit" => j # req[h].id \/ j \in Excused'
  BY <1>1, <1>2 DEF Excused
<1> QED
  BY <1>1, <1>3, <1>4, <1>5, TableEditKeeps

LEMMA ScoreInvStep == ScoreInv /\ [Next]_vars => ScoreInv'
<1> SUFFICES ASSUME ScoreInv, [Next]_vars PROVE ScoreInv'
  OBVIOUS
<1> DEFINE Goal == Scores' /\ \A h \in Clients : Edit(h)'
<1>1. Inv' /\ Inv /\ Base
  BY InvStep DEF ScoreInv, Inv
<1>2. ASSUME NEW c \in Clients, Goto(c, Idle), UNCHANGED <<table, scored, kept, raced>>  PROVE Goal
  <2>1. Alone(c) /\ req'[c] = Idle
    BY <1>1, <1>2, EndStep
  <2>2. Edit(c)'
    BY <2>1 DEF Edit, Edits, Holds, Idle
  <2> QED
    BY <1>2, <2>1, <2>2, EditKeeps DEF Excused
<1>3. ASSUME NEW c \in Clients, Insert(c)  PROVE Goal
  <2>1. UNCHANGED <<table, scored, kept, raced>> /\ Alone(c) /\ Edit(c)'
    BY <1>1, <1>3, InsertStep, InsertEdits DEF Insert
  <2> QED
    BY <2>1, EditKeeps DEF Excused
<1>4. ASSUME NEW c \in Clients, Flush(c)  PROVE Goal
  <2>1. UNCHANGED <<table, scored, kept, raced>> /\ Alone(c) /\ Edit(c)'
    BY <1>1, <1>4, FlushStep, FlushEdits DEF Flush
  <2> QED
    BY <2>1, EditKeeps DEF Excused
<1>5. ASSUME NEW c \in Clients, StartClear(c) \/ SetActive(c) \/ \E i \in Ids : Clear(c, i)  PROVE Goal
  <2>1. UNCHANGED <<table, scored, kept, raced>>
    BY <1>5 DEF StartClear, SetActive, Clear
  <2>2. Alone(c) /\ Edit(c)'
    BY <1>1, <1>5, StartClearStep, SetActiveStep, ClearStep, OtherEdits
  <2> QED
    BY <2>1, <2>2, EditKeeps DEF Excused
<1>6. ASSUME NEW c \in Clients, Refresh(c)  PROVE Goal
  <2>1. UNCHANGED <<table, scored, raced>> /\ kept \subseteq kept'
    BY <1>6 DEF Refresh
  <2>2. Alone(c) /\ Edit(c)'
    BY <1>1, <1>6, RefreshStep, RefreshEdits
  <2> QED
    BY <2>1, <2>2, EditKeeps DEF Excused
<1>7. ASSUME NEW c \in Clients, NEW i \in Known, NEW d \in Datas, NEW activate \in BOOLEAN,
             Begin(c, i, d, activate)
      PROVE  Goal
  <2>1. UNCHANGED <<table, scored, kept, raced>>
    BY <1>7 DEF Begin
  <2>2. Alone(c) /\ Edit(c)'
    BY <1>1, <1>7, BeginStep DEF Edit, Edits, Holds
  <2> QED
    BY <2>1, <2>2, EditKeeps DEF Excused
<1>8. ASSUME UNCHANGED vars PROVE Goal
  <2>1. Scores'
    BY <1>8 DEF vars, ScoreInv, Scores, Excused
  <2>2. \A h \in Clients : Edit(h)'
    BY <1>8 DEF vars, ScoreInv, Edit, Edits, Holds, Changed, Excused
  <2> QED
    BY <2>1, <2>2
<1>9. Goal
  BY <1>2, <1>3, <1>4, <1>5, <1>6, <1>7, <1>8, CommitScores, UploadScores, ScoreScores
     DEF Next, Step, BreakDeadlock, CutOff
<1> QED
  BY <1>1, <1>9 DEF ScoreInv

\* The scores of the active profile were made from its data, whatever edits and
\* activations overlap, but for the two known cases.
THEOREM StaleScoresAreKnown == Spec => []OnlyKnownStaleScores
<1>1. Init => ScoreInv
  <2> SUFFICES ASSUME Init PROVE ScoreInv
    OBVIOUS
  <2>1. \A c \in Clients : req[c] = Idle
    BY DEF Init
  <2>2. \A c \in Clients : Edit(c)
    BY <2>1 DEF Edit, Edits, Holds, Idle
  <2>3. Scores
    BY DEF Init, Scores
  <2> QED
    BY <2>2, <2>3, InvInit DEF ScoreInv
<1>2. Spec => []ScoreInv
  BY <1>1, ScoreInvStep, PTL DEF Spec
<1>3. ScoreInv => OnlyKnownStaleScores
  BY DEF ScoreInv, Scores, Excused, OnlyKnownStaleScores, ActiveRows
<1> QED
  BY <1>2, <1>3, PTL

-----------------------------------------------------------------------------
(* Each request takes effect at once *)

LEMMA ShownRow ==
    ASSUME NEW row \in Row
    PROVE  /\ Shown(row) # None /\ Shown(row) \in Profile
           /\ Shown(row).data = row.data /\ Shown(row).active = row.active
<1>1. [data |-> row.data, active |-> row.active] \in Profile
  BY DEF Row, Profile
<1> QED
  BY <1>1, NoneAssumption, NoneIsNoRow DEF Shown

LEMMA ShownRows ==
    ASSUME Base
    PROVE  /\ Visible \in [Ids -> Profile \cup {None}]
           /\ \A i \in Ids : Visible[i] = Shown(table[i])
           /\ \A i \in Ids : Visible[i] = None <=> table[i] = None
           /\ \A i \in Ids : Table!IsActive(i) <=> WasActive(i)
<1>1. ASSUME NEW i \in Ids
      PROVE  /\ Shown(table[i]) \in Profile \cup {None}
             /\ Shown(table[i]) = None <=> table[i] = None
             /\ table[i] # None => Shown(table[i]).active = table[i].active
  <2>1. CASE table[i] = None
    BY <2>1 DEF Shown
  <2>2. CASE table[i] # None
    BY <2>2, ShownRow DEF Base, TypeOK, Rows
  <2> QED
    BY <2>1, <2>2
<1>2. \A i \in Ids : Visible[i] = Shown(table[i])
  BY DEF Visible
<1> QED
  BY <1>1, <1>2 DEF Visible, WasActive, Table!IsActive

LEMMA TableInit == Init => Table!Init
<1> SUFFICES ASSUME Init PROVE Table!Init
  OBVIOUS
<1>1. Base /\ OneActiveProfile
  BY InvInit DEF Inv
<1>2. phantom = FALSE
  BY DEF Init
<1>3. \A i, j \in Ids : Table!IsActive(i) /\ Table!IsActive(j) => i = j
  BY <1>1, <1>2, ShownRows DEF OneActiveProfile, ActiveRows, WasActive
<1> QED
  BY <1>1, <1>2, <1>3, ShownRows DEF Table!Init, Table!Profile, Profile

\* A step that leaves the rows alone raises the flag at most.
LEMMA ReserveStep ==
    ASSUME Inv, Base', UNCHANGED table, phantom => phantom'
    PROVE  [Table!Next]_<<Visible, phantom>>
<1>1. phantom \in BOOLEAN /\ phantom' \in BOOLEAN
  BY DEF Inv, Base, TypeOK
<1>2. Visible' = Visible
  BY DEF Visible, Shown
<1>3. CASE phantom' = phantom
  BY <1>2, <1>3
<1>4. CASE phantom' # phantom
  BY <1>1, <1>2, <1>4 DEF Table!Next, Table!Reserve
<1> QED
  BY <1>3, <1>4

\* The commit of a save.
LEMMA SaveStep ==
    ASSUME Inv, Base', NEW c \in Clients, Commit(c), ~Activated(c)
    PROVE  [Table!Next]_<<Visible, phantom>>
<1> DEFINE i == req[c].id
           d == View(c, i).data
<1>1. /\ Base /\ Own(c) /\ i \in Ids /\ View(c, i) # None /\ phantom' = phantom
      /\ \A j \in Ids : table'[j] = View(c, j)
      /\ \A j \in Ids : Holds(c, j) => j = i
  BY DEF Commit, Inv, Work, Base, Shape, Activated
<1>2. View(c, i) \in Row
  BY <1>1 DEF Base, TypeOK, View, Rows, Requests
<1>3. View(c, i).active <=> WasActive(i)
  BY <1>1 DEF Own, View, Holds, WasActive
<1>4. View(c, i).active = Table!IsActive(i)
  <2>1. View(c, i).active \in BOOLEAN /\ d \in Datas
    BY <1>2 DEF Row
  <2> QED
    BY <1>1, <1>3, <2>1, ShownRows DEF Table!IsActive
<1>5. Visible'[i] = [data |-> d, active |-> View(c, i).active]
  BY <1>1 DEF Visible, Shown
<1>6. \A j \in Ids \ {i} : Visible'[j] = Visible[j]
  BY <1>1 DEF Visible, Shown, View, Holds
<1>7. Visible' = [Visible EXCEPT ![i] = [data |-> d, active |-> Table!IsActive(i)]]
  <2>1. Visible' = [j \in Ids |-> Visible'[j]] /\ Visible = [j \in Ids |-> Visible[j]]
    BY DEF Visible
  <2> QED
    BY <1>1, <1>4, <1>5, <1>6, <2>1
<1>8. d \in Datas
  BY <1>2 DEF Row
<1> HIDE DEF d
<1>9. Table!Save(i, d)
  BY <1>1, <1>7 DEF Table!Save
<1> QED
  BY <1>1, <1>8, <1>9 DEF Table!Next

\* The commit of an activation: the rows that stay active are those it did not see.
LEMMA ActivateStep ==
    ASSUME Inv, Base', NEW c \in Clients, Commit(c), Activated(c)
    PROVE  [Table!Next]_<<Visible, phantom>>
<1> DEFINE i == req[c].id
           d == req[c].wrote[i].data
           left == {j \in Ids \ {i} : WasActive(j) /\ ~Holds(c, j)}
<1>1. /\ Base /\ Own(c) /\ Latest(c) /\ i \in Ids /\ Holds(c, i) /\ phantom' = phantom
      /\ \A j \in Ids : table'[j] = View(c, j)
      /\ req[c].wrote \in [Ids -> Rows]
  BY DEF Commit, Inv, Work, Base, TypeOK, Requests, Shape, Own, Activated
<1>2. req[c].wrote[i] \in Row /\ req[c].wrote[i].active = TRUE
  <2>1. req[c].wrote[i] \in Row
    BY <1>1 DEF Holds, Rows
  <2> QED
    BY <1>1, <2>1 DEF Own, Row
<1>3. Visible'[i] = [data |-> d, active |-> TRUE]
  BY <1>1, <1>2 DEF Visible, Shown, View, Holds
<1>4. ASSUME NEW j \in Ids \ {i}
      PROVE  Visible'[j] = IF Visible[j] = None THEN None
                           ELSE [data |-> Visible[j].data,
                                 active |-> j \in left /\ Table!IsActive(j)]
  <2>1. CASE table[j] = None
    <3>1. ~Holds(c, j)
      BY <1>1, <2>1 DEF Own
    <3> QED
      BY <1>1, <2>1, <3>1 DEF Visible, Shown, View, Holds
  <2>2. CASE table[j] # None /\ Holds(c, j)
    <3>1. /\ req[c].wrote[j] \in Row /\ req[c].wrote[j].data = table[j].data
          /\ ~req[c].wrote[j].active
      BY <1>1, <2>2 DEF Own, Holds, Rows
    <3>2. Visible'[j] = [data |-> table[j].data, active |-> FALSE]
      BY <1>1, <2>2, <3>1 DEF Visible, Shown, View, Holds, Row
    <3>3. Visible[j] # None /\ Visible[j].data = table[j].data
      BY <1>1, <2>2, ShownRows DEF Shown
    <3>4. (j \in left /\ Table!IsActive(j)) = FALSE
      BY <2>2
    <3> QED
      BY <3>2, <3>3, <3>4
  <2>3. CASE table[j] # None /\ ~Holds(c, j)
    <3>1. table[j] \in Row /\ table'[j] = table[j]
      BY <1>1, <2>3 DEF Base, TypeOK, Rows, View, Holds
    <3>2. Visible'[j] = [data |-> table[j].data, active |-> table[j].active]
      BY <2>3, <3>1 DEF Visible, Shown
    <3>3. Visible[j] # None /\ Visible[j].data = table[j].data
      BY <1>1, <2>3, ShownRows DEF Shown
    <3>4. (j \in left /\ Table!IsActive(j)) = table[j].active
      <4>1. table[j].active \in BOOLEAN
        BY <3>1 DEF Row
      <4>2. Table!IsActive(j) <=> table[j].active
        BY <1>1, <2>3, ShownRows DEF WasActive
      <4>3. table[j].active => j \in left
        BY <2>3 DEF WasActive
      <4> QED
        BY <4>1, <4>2, <4>3
    <3> QED
      BY <3>2, <3>3, <3>4
  <2> QED
    BY <2>1, <2>2, <2>3
<1>5. left # {} => phantom
  BY <1>1 DEF Latest
<1>6. d \in Datas /\ left \in SUBSET Ids
  BY <1>2 DEF Row
<1> HIDE DEF d, left
<1>7. Visible' = [j \in Ids |->
           IF j = i THEN [data |-> d, active |-> TRUE]
           ELSE IF Visible[j] = None THEN None
           ELSE [data |-> Visible[j].data, active |-> j \in left /\ Table!IsActive(j)]]
  <2>1. Visible' = [j \in Ids |-> Visible'[j]]
    BY DEF Visible
  <2> QED
    BY <1>3, <1>4, <2>1
<1>8. Table!Activate(i, d, left)
  BY <1>1, <1>5, <1>6, <1>7 DEF Table!Activate
<1> QED
  BY <1>1, <1>6, <1>8 DEF Table!Next

LEMMA UploadStep ==
    ASSUME Inv, Base', NEW i \in Ids, NEW d \in Datas, Upload(i, d)
    PROVE  [Table!Next]_<<Visible, phantom>>
<1>1. /\ Base /\ table[i] = None /\ phantom' \in {phantom, TRUE}
      /\ table'[i] = [data |-> d, status |-> "draft", active |-> FALSE]
      /\ \A j \in Ids \ {i} : table'[j] = table[j]
  <2>1. phantom \in BOOLEAN /\ phantom' \in BOOLEAN /\ (phantom => phantom')
    BY DEF Inv, Base, TypeOK, Upload
  <2> QED
    BY <2>1 DEF Upload, Inv, Base, TypeOK
<1>2. /\ table'[i] \in Row /\ table'[i] # None
      /\ table'[i].data = d /\ table'[i].active = FALSE
  <2> DEFINE new == [data |-> d, status |-> "draft", active |-> FALSE]
  <2>1. new \in Row /\ new.data = d /\ new.active = FALSE
    BY DEF Row
  <2>2. new # None
    BY <2>1, NoneIsNoRow
  <2> QED
    BY <1>1, <2>1, <2>2
<1>3. Visible'[i] = [data |-> d, active |-> FALSE]
  <2>1. Visible'[i] = Shown(table'[i])
    BY DEF Visible, Shown
  <2> QED
    BY <1>2, <2>1 DEF Shown
<1>4. \A j \in Ids \ {i} : Visible'[j] = Visible[j]
  BY <1>1 DEF Visible, Shown
<1>5. Table!IsActive(i) = FALSE
  BY <1>1, ShownRows DEF WasActive, Table!IsActive
<1>6. Visible' = [Visible EXCEPT ![i] = [data |-> d, active |-> Table!IsActive(i)]]
  <2>1. Visible' = [j \in Ids |-> Visible'[j]] /\ Visible = [j \in Ids |-> Visible[j]]
    BY DEF Visible
  <2> QED
    BY <1>3, <1>4, <1>5, <2>1
<1>7. Table!Save(i, d)
  BY <1>1, <1>6 DEF Table!Save
<1> QED
  BY <1>7 DEF Table!Next

LEMMA TableStep == Inv /\ [Next]_vars => [Table!Next]_<<Visible, phantom>>
<1> SUFFICES ASSUME Inv, [Next]_vars PROVE [Table!Next]_<<Visible, phantom>>
  OBVIOUS
<1>1. Base'
  BY BaseStep DEF Inv
<1>2. UNCHANGED table /\ (phantom => phantom') => [Table!Next]_<<Visible, phantom>>
  BY <1>1, ReserveStep
<1>3. ASSUME NEW c \in Clients, Commit(c)  PROVE [Table!Next]_<<Visible, phantom>>
  BY <1>1, <1>3, SaveStep, ActivateStep
<1>4. ASSUME NEW i \in Ids, NEW d \in Datas, Upload(i, d)  PROVE [Table!Next]_<<Visible, phantom>>
  BY <1>1, <1>4, UploadStep
<1>5. ASSUME NEW c \in Clients, \/ Insert(c) \/ Flush(c) \/ StartClear(c) \/ SetActive(c)
                               \/ Refresh(c) \/ BreakDeadlock(c) \/ CutOff(c)
      PROVE  [Table!Next]_<<Visible, phantom>>
  BY <1>2, <1>5 DEF Insert, Flush, StartClear, SetActive, Refresh, BreakDeadlock, CutOff
<1>6. ASSUME NEW c \in Clients, NEW i \in Ids, Clear(c, i)
      PROVE  [Table!Next]_<<Visible, phantom>>
  BY <1>2, <1>6 DEF Clear
<1>7. ASSUME NEW c \in Clients, NEW i \in Known, NEW d \in Datas, NEW activate \in BOOLEAN,
             Begin(c, i, d, activate)
      PROVE  [Table!Next]_<<Visible, phantom>>
  <2>1. UNCHANGED <<table, phantom>>
    BY <1>7 DEF Begin
  <2> QED
    BY <1>2, <2>1
<1>8. ASSUME NEW i \in Ids, Score(i)  PROVE [Table!Next]_<<Visible, phantom>>
  BY <1>2, <1>8 DEF Score
<1>9. CASE UNCHANGED vars
  BY <1>2, <1>9 DEF vars
<1> QED
  BY <1>3, <1>4, <1>5, <1>6, <1>7, <1>8, <1>9 DEF Next, Step

\* Overlapping requests take effect one after another, each at its commit, on
\* the rows that it then finds: no edit is undone or mixed with another.
THEOREM RequestsTakeEffectAtOnce == Spec => RequestsAreAtomic
<1>1. Spec => []Inv
  BY InvInit, InvStep, PTL DEF Spec
<1> QED
  BY <1>1, TableInit, TableStep, PTL DEF Spec, RequestsAreAtomic, Table!Spec
=============================================================================
