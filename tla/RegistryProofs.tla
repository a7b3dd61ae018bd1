--------------------------- MODULE RegistryProofs ---------------------------
(***************************************************************************)
(* Theorems about Registry, for any groups and spellings, columns, number  *)
(* of overlapping requests and number of faults.                           *)
(***************************************************************************)
EXTENDS Registry, TLAPS

-----------------------------------------------------------------------------
(* The inductive invariant. *)

\* Nobody else is registering what a request registers.
Alone == ~raced => \A c, d \in Client :
    /\ c # d
    /\ request[c].pc # "idle" /\ request[d].pc # "idle"
    /\ request[c].op = request[d].op
    /\ request[c].op \in Registering
    => Lower[G(c)] # Lower[G(d)]

\* What a 201 announced is there: neither a group nor an artifact goes away.
CreatedIsThere == \A a \in created :
    /\ a.op \in Registering
    /\ a.op = "RegisterGroup" => a.group \in groups
    /\ a.op = "RegisterArtifact" => fields[a.group] # Unset

\* An artifact belongs to a group, a schema and schedules to an artifact.
Belongs == \A g \in Group :
    /\ fields[g] # Unset => g \in groups
    /\ fields[g] = Unset => schema[g] = Unset /\ schedules[g] = {}

\* What the check of a request found is there when it writes.
Checked == \A c \in Client :
    /\ request[c].pc # "idle" => request[c].call \in Call
    /\ request[c].pc # "idle" /\ request[c].op = "PutSchema" => request[c].schema \in Schema
    /\ At(c, "PutSchema", "write") => fields[G(c)] # Unset
    /\ request[c].op = "RegisterArtifact" /\ request[c].pc \in {"artifact", "write"}
         => G(c) \in groups
    /\ request[c].op = "RegisterArtifact" /\ request[c].pc \in {"fast", "full"}
         => fields[G(c)] # Unset

\* What it found missing is missing until it writes, or until it answers.
StillMissing == ~raced => \A c \in Client :
    /\ At(c, "RegisterGroup", "write") => \A h \in groups : Lower[h] # Lower[G(c)]
    /\ At(c, "RegisterArtifact", "write") => fields[G(c)] = Unset
    /\ request[c].op = "RegisterArtifact" /\ request[c].pc \in {"fast", "full"}
         => \A a \in created : a.op = "RegisterArtifact" => a.group # G(c)

\* The first schedule is there before the second is created.
FastFirst == faults = 0 => \A c \in Client :
    At(c, "RegisterArtifact", "full") => "fast" \in schedules[G(c)]

IInv == /\ TypeOK
        /\ Alone
        /\ CreatedIsThere
        /\ Belongs
        /\ Checked
        /\ StillMissing
        /\ FastFirst
        /\ RegisteredOnce
        /\ BothSchedules

-----------------------------------------------------------------------------
(* The initial state, and what a move of one request leaves alone. *)

LEMMA InitInv == Init => IInv
  <1> SUFFICES ASSUME Init PROVE IInv
    OBVIOUS
  <1> USE RegistryAssumption DEF Init
  <1> PICK g0 \in Group : request = [c \in Client |-> Waiting(g0)]
    OBVIOUS
  <1>1. TypeOK
    <2>1. 0 \in 0..MaxCalls /\ 0 \in 0..MaxFaults
      OBVIOUS
    <2>2. Waiting(g0) \in Request
      BY <2>1 DEF Waiting, Request, Step, Op
    <2> QED BY <2>1, <2>2 DEF TypeOK
  <1>2. Alone /\ Checked /\ StillMissing /\ FastFirst
    BY DEF Alone, Checked, StillMissing, FastFirst, At, G, Waiting
  <1>3. CreatedIsThere /\ Belongs /\ RegisteredOnce /\ BothSchedules
    BY DEF CreatedIsThere, Belongs, RegisteredOnce, BothSchedules
  <1> QED BY <1>1, <1>2, <1>3 DEF IInv

LEMMA GotoEffect ==
  ASSUME TypeOK, NEW c \in Client, NEW s \in Step, Goto(c, s)
  PROVE  /\ request' \in [Client -> Request]
         /\ request'[c].pc = s
         /\ \A d \in Client : d # c => request'[d] = request[d]
         /\ \A d \in Client : /\ request'[d].op = request[d].op
                              /\ request'[d].group = request[d].group
                              /\ request'[d].call = request[d].call
                              /\ request'[d].schema = request[d].schema
  BY DEF TypeOK, Request, Goto

\* A request that reads, updates or is answered creates nothing.
LEMMA Advances ==
  ASSUME IInv, NEW c \in Client, NEW s \in {"idle", "artifact", "write"},
         Goto(c, s),
         UNCHANGED <<groups, schedules, calls, faults, created, raced>>,
         fields' \in [Group -> Row \cup {Unset}],
         schema' \in [Group -> Schema \cup {Unset}],
         \A g \in Group : /\ fields'[g] = Unset <=> fields[g] = Unset
                          /\ fields[g] = Unset => schema'[g] = Unset,
         request[c].pc # "idle",
         ~(request[c].op = "RegisterArtifact" /\ request[c].pc \in {"fast", "full"}),
         s = "write" /\ request[c].op = "PutSchema" => fields[G(c)] # Unset,
         s # "idle" /\ request[c].op = "RegisterArtifact" => G(c) \in groups,
         ~raced => /\ s = "write" /\ request[c].op = "RegisterGroup"
                        => \A h \in groups : Lower[h] # Lower[G(c)]
                   /\ s = "write" /\ request[c].op = "RegisterArtifact"
                        => fields[G(c)] = Unset
  PROVE  IInv'
  <1> s \in Step
    BY DEF Step
  <1>1. /\ request' \in [Client -> Request]
        /\ request'[c].pc = s
        /\ \A d \in Client : d # c => request'[d] = request[d]
        /\ \A d \in Client : /\ request'[d].op = request[d].op
                             /\ request'[d].group = request[d].group
                             /\ request'[d].call = request[d].call
                             /\ request'[d].schema = request[d].schema
    BY GotoEffect DEF IInv
  <1> \A d \in Client : G(d) \in Group
    BY DEF IInv, TypeOK, Request, G
  <1> USE DEF IInv
  <1>2. TypeOK'
    BY <1>1 DEF TypeOK
  <1>3. Alone'
    BY <1>1 DEF Alone, G
  <1>4. CreatedIsThere' /\ Belongs' /\ RegisteredOnce'
    BY DEF CreatedIsThere, Belongs, RegisteredOnce, TypeOK
  <1>5. Checked'
    BY <1>1 DEF Checked, At, G
  <1>6. StillMissing'
    BY <1>1 DEF StillMissing, At, G
  <1>7. FastFirst'
    BY <1>1 DEF FastFirst, At, G
  <1>8. \A g \in Group : InFlight(g) => InFlight(g)'
    BY <1>1 DEF InFlight, G
  <1>9. BothSchedules'
    BY <1>8 DEF BothSchedules
  <1> QED BY <1>2, <1>3, <1>4, <1>5, <1>6, <1>7, <1>9

-----------------------------------------------------------------------------
(* One lemma per action. *)

LEMMA BeginInv ==
  ASSUME IInv, NEW c \in Client, NEW op \in Op, NEW g \in Group,
         NEW set \in SUBSET Field, NEW s \in Schema \cup {Unset},
         op = "PutSchema" => s \in Schema,
         Begin(c, op, g, set, s)
  PROVE  IInv'
  <1> DEFINE new == [pc |-> "check", op |-> op, group |-> g, call |-> calls + 1,
                     set |-> set, schema |-> s]
  <1> USE DEF IInv
  <1>1. calls + 1 \in Call /\ calls + 1 \in 0..MaxCalls
    BY RegistryAssumption DEF Begin, TypeOK, Call
  <1>2. new \in Request
    BY <1>1 DEF Request, Step
  <1>3. /\ request' = [request EXCEPT ![c] = new]
        /\ request[c].pc = "idle"
        /\ calls' = calls + 1
        /\ raced' = (raced \/ Overlaps(op, g, c))
        /\ UNCHANGED <<database, schedules, faults, created>>
    BY DEF Begin
  <1>4. /\ request' \in [Client -> Request]
        /\ request'[c] = new
        /\ \A d \in Client : d # c => request'[d] = request[d]
    BY <1>2, <1>3 DEF TypeOK
  <1> /\ new.pc = "check" /\ new.op = op /\ new.group = g
      /\ new.call = calls + 1 /\ new.schema = s
    OBVIOUS
  <1> HIDE DEF new
  <1> USE DEF database
  <1>5. raced' \in BOOLEAN
    BY <1>3 DEF TypeOK
  <1>6. TypeOK'
    BY <1>1, <1>3, <1>4, <1>5 DEF TypeOK
  <1>7. Alone'
    <2> SUFFICES ASSUME ~raced', NEW d \in Client, NEW e \in Client, d # e,
                        request'[d].pc # "idle", request'[e].pc # "idle",
                        request'[d].op = request'[e].op,
                        request'[d].op \in Registering
                 PROVE  Lower[request'[d].group] # Lower[request'[e].group]
      BY DEF Alone, G
    <2>1. ~raced /\ ~Overlaps(op, g, c)
      BY <1>3
    <2>2. CASE d # c /\ e # c
      BY <2>1, <2>2, <1>4 DEF Alone, G
    <2>3. CASE d = c
      BY <2>1, <2>3, <1>4 DEF Overlaps
    <2>4. CASE e = c
      BY <2>1, <2>4, <1>4 DEF Overlaps
    <2> QED BY <2>2, <2>3, <2>4
  <1>8. CreatedIsThere' /\ Belongs' /\ RegisteredOnce'
    BY <1>3 DEF CreatedIsThere, Belongs, RegisteredOnce
  <1>9. Checked'
    BY <1>1, <1>3, <1>4 DEF Checked, At, G
  <1>10. StillMissing' /\ FastFirst'
    BY <1>3, <1>4 DEF StillMissing, FastFirst, At, G
  <1>11. \A h \in Group : InFlight(h) => InFlight(h)'
    BY <1>3, <1>4 DEF InFlight, G
  <1>12. BothSchedules'
    BY <1>3, <1>11 DEF BothSchedules
  <1> QED BY <1>6, <1>7, <1>8, <1>9, <1>10, <1>12

LEMMA SendInv ==
  ASSUME IInv, NEW c \in Client, NEW g \in Group, Send(c, g)
  PROVE  IInv'
  <1>1. CASE \E op \in Registering : Begin(c, op, g, Field, Unset)
    BY <1>1, BeginInv DEF Registering, Op
  <1>2. CASE \E s \in Schema : Begin(c, "PutSchema", g, {}, s)
    BY <1>2, BeginInv DEF Op
  <1>3. CASE \E set \in SUBSET Field \ {{}} : Begin(c, "UpdateArtifact", g, set, Unset)
    BY <1>3, BeginInv DEF Op
  <1> QED BY <1>1, <1>2, <1>3 DEF Send

\* The four lookups, and the updates.
LEMMA ReadsInv ==
  ASSUME IInv, NEW c \in Client,
         CheckGroup(c) \/ CheckItsGroup(c) \/ CheckArtifact(c) \/ CheckSchema(c)
  PROVE  IInv'
  <1> USE DEF At, Answer
  <1>0. /\ fields \in [Group -> Row \cup {Unset}]
        /\ schema \in [Group -> Schema \cup {Unset}]
        /\ \A g \in Group : fields[g] = Unset => schema[g] = Unset
    BY DEF IInv, TypeOK, Belongs
  <1>1. CASE CheckGroup(c)
    BY <1>0, <1>1, Advances DEF CheckGroup, GroupExists, database
  <1>2. CASE CheckItsGroup(c)
    BY <1>0, <1>2, Advances DEF CheckItsGroup, database
  <1>3. CASE CheckArtifact(c)
    <2>1. G(c) \in groups
      BY <1>3 DEF IInv, Checked, CheckArtifact
    <2> QED BY <1>0, <1>3, <2>1, Advances DEF CheckArtifact, database
  <1>4. CASE CheckSchema(c)
    BY <1>0, <1>4, Advances DEF CheckSchema, database
  <1> QED BY <1>1, <1>2, <1>3, <1>4

LEMMA StoreSchemaInv ==
  ASSUME IInv, NEW c \in Client, StoreSchema(c)
  PROVE  IInv'
  <1> USE DEF At, Answer
  <1>1. /\ G(c) \in Group /\ fields[G(c)] # Unset
        /\ request[c].schema \in Schema
    BY DEF IInv, TypeOK, Request, G, Checked, StoreSchema
  <1>2. /\ schema' \in [Group -> Schema \cup {Unset}]
        /\ \A g \in Group : fields[g] = Unset => schema'[g] = Unset
    BY <1>1 DEF IInv, TypeOK, Belongs, StoreSchema
  <1> QED BY <1>2, Advances DEF StoreSchema, IInv, TypeOK

LEMMA UpdateArtifactInv ==
  ASSUME IInv, NEW c \in Client, UpdateArtifact(c)
  PROVE  IInv'
  <1> USE DEF At, Answer
  <1>1. /\ G(c) \in Group /\ request[c].call \in Call
        /\ fields \in [Group -> Row \cup {Unset}]
        /\ \A row \in Row : row # Unset
    BY RegistryAssumption DEF IInv, TypeOK, Request, G, Checked, UpdateArtifact, Row
  <1>2. fields[G(c)] # Unset => Merge(c, fields[G(c)]) \in Row
    BY <1>1 DEF Merge, Row
  <1>3. /\ fields' \in [Group -> Row \cup {Unset}]
        /\ \A g \in Group : fields'[g] = Unset <=> fields[g] = Unset
    BY <1>1, <1>2 DEF UpdateArtifact
  <1>4. \A g \in Group : fields[g] = Unset => schema'[g] = Unset
    BY DEF IInv, Belongs, UpdateArtifact
  <1> QED BY <1>3, <1>4, Advances DEF UpdateArtifact, IInv, TypeOK

LEMMA CreateGroupInv ==
  ASSUME IInv, NEW c \in Client, CreateGroup(c)
  PROVE  IInv'
  <1> USE DEF IInv, CreateGroup
  <1> DEFINE new == [op |-> request[c].op, group |-> G(c), call |-> request[c].call]
  <1>1. /\ request' \in [Client -> Request]
        /\ request'[c].pc = "idle"
        /\ \A d \in Client : d # c => request'[d] = request[d]
        /\ \A d \in Client : /\ request'[d].op = request[d].op
                             /\ request'[d].group = request[d].group
                             /\ request'[d].call = request[d].call
                             /\ request'[d].schema = request[d].schema
    BY GotoEffect DEF Step
  <1>2. /\ request[c].op = "RegisterGroup" /\ request[c].pc = "write"
        /\ groups' = groups \cup {G(c)}
        /\ created' = created \cup {new}
        /\ UNCHANGED <<fields, schema, schedules, calls, faults, raced>>
    BY DEF At, Created
  <1>3. G(c) \in Group /\ new \in [op: Op, group: Group, call: Call]
    BY <1>2 DEF TypeOK, Request, G, Checked, Op
  <1>4. new.op = "RegisterGroup" /\ new.group = G(c)
    BY <1>2
  <1> HIDE DEF new, CreateGroup
  <1>5. TypeOK'
    BY <1>1, <1>2, <1>3 DEF TypeOK
  <1>6. Alone'
    BY <1>1, <1>2 DEF Alone, G
  <1>7. CreatedIsThere'
    BY <1>2, <1>4 DEF CreatedIsThere, Registering
  <1>8. Belongs'
    BY <1>2 DEF Belongs
  <1>9. Checked'
    BY <1>1, <1>2 DEF Checked, At, G
  <1>10. StillMissing'
    <2> SUFFICES ASSUME ~raced, NEW d \in Client
                 PROVE  /\ At(d, "RegisterGroup", "write")'
                              => \A h \in groups' : Lower[h] # Lower[G(d)]
                        /\ At(d, "RegisterArtifact", "write")' => fields[G(d)] = Unset
                        /\ request'[d].op = "RegisterArtifact" /\ request'[d].pc \in {"fast", "full"}
                              => \A a \in created' : a.op = "RegisterArtifact" => a.group # G(d)
      BY <1>1, <1>2 DEF StillMissing, G
    <2>1. CASE d = c
      BY <2>1, <1>1, <1>2 DEF At
    <2>2. CASE d # c
      <3>1. request[d].op = "RegisterGroup" /\ request[d].pc # "idle" => Lower[G(c)] # Lower[G(d)]
        BY <2>2, <1>2 DEF Alone, Registering
      <3> QED BY <2>2, <3>1, <1>1, <1>2, <1>4 DEF StillMissing, At, G
    <2> QED BY <2>1, <2>2
  <1>11. FastFirst'
    BY <1>1, <1>2 DEF FastFirst, At, G
  <1>12. RegisteredOnce'
    <2> SUFFICES ASSUME ~raced PROVE RegisteredOnce'
      BY <1>2 DEF RegisteredOnce
    <2>1. \A h \in groups : Lower[h] # Lower[G(c)]
      BY <1>2 DEF StillMissing, At
    <2>2. \A a \in created : a.op = "RegisterGroup" => Lower[a.group] # Lower[G(c)]
      BY <2>1 DEF CreatedIsThere
    <2> QED BY <1>2, <1>4, <2>1, <2>2 DEF RegisteredOnce
  <1>13. \A g \in Group : InFlight(g) => InFlight(g)'
    BY <1>1, <1>2 DEF InFlight, G
  <1>14. BothSchedules'
    BY <1>2, <1>13 DEF BothSchedules
  <1> QED BY <1>5, <1>6, <1>7, <1>8, <1>9, <1>10, <1>11, <1>12, <1>14

LEMMA CreateArtifactInv ==
  ASSUME IInv, NEW c \in Client, CreateArtifact(c)
  PROVE  IInv'
  <1> USE DEF IInv, CreateArtifact
  <1> DEFINE row == [f \in Field |-> request[c].call]
  <1>1. /\ request' \in [Client -> Request]
        /\ request'[c].pc = "fast"
        /\ \A d \in Client : d # c => request'[d] = request[d]
        /\ \A d \in Client : /\ request'[d].op = request[d].op
                             /\ request'[d].group = request[d].group
                             /\ request'[d].call = request[d].call
                             /\ request'[d].schema = request[d].schema
    BY GotoEffect DEF Step
  <1>2. /\ request[c].op = "RegisterArtifact" /\ request[c].pc = "write"
        /\ fields' = [fields EXCEPT ![G(c)] = row]
        /\ schema' = [schema EXCEPT ![G(c)] = Unset]
        /\ UNCHANGED <<groups, schedules, calls, faults, created, raced>>
    BY DEF At
  <1>3. G(c) \in Group /\ G(c) \in groups /\ row \in Row /\ row # Unset
    BY <1>2, RegistryAssumption DEF TypeOK, Request, G, Checked, Row
  <1> HIDE DEF row, CreateArtifact
  <1>4. \A g \in Group : /\ fields'[g] = IF g = G(c) THEN row ELSE fields[g]
                         /\ schema'[g] = IF g = G(c) THEN Unset ELSE schema[g]
    BY <1>2, <1>3 DEF TypeOK
  <1>g. \A d \in Client : G(d) \in Group
    BY DEF TypeOK, Request, G
  <1>5. TypeOK'
    BY <1>1, <1>2, <1>3 DEF TypeOK
  <1>6. Alone'
    BY <1>1, <1>2 DEF Alone, G
  <1>7. CreatedIsThere'
    BY <1>2, <1>3, <1>4 DEF CreatedIsThere, TypeOK
  <1>8. Belongs'
    BY <1>2, <1>3, <1>4 DEF Belongs
  <1>9. Checked'
    BY <1>1, <1>2, <1>3, <1>4, <1>g DEF Checked, At, G
  <1>10. StillMissing'
    <2> SUFFICES ASSUME ~raced, NEW d \in Client
                 PROVE  /\ At(d, "RegisterGroup", "write")'
                              => \A h \in groups : Lower[h] # Lower[G(d)]
                        /\ At(d, "RegisterArtifact", "write")' => fields'[G(d)] = Unset
                        /\ request'[d].op = "RegisterArtifact" /\ request'[d].pc \in {"fast", "full"}
                              => \A a \in created : a.op = "RegisterArtifact" => a.group # G(d)
      BY <1>1, <1>2 DEF StillMissing, G
    <2>1. CASE d = c
      <3>1. fields[G(c)] = Unset
        BY <1>2 DEF StillMissing, At
      <3> QED BY <2>1, <3>1, <1>1, <1>2 DEF At, CreatedIsThere
    <2>2. CASE d # c
      <3>1. request[d].op = "RegisterArtifact" /\ request[d].pc # "idle" => G(c) # G(d)
        BY <2>2, <1>2 DEF Alone, Registering
      <3> QED BY <2>2, <3>1, <1>1, <1>2, <1>4, <1>g DEF StillMissing, At
    <2> QED BY <2>1, <2>2
  <1>11. FastFirst'
    BY <1>1, <1>2 DEF FastFirst, At, G
  <1>12. RegisteredOnce'
    BY <1>2 DEF RegisteredOnce
  <1>13. \A g \in Group : InFlight(g) => InFlight(g)'
    BY <1>1, <1>2 DEF InFlight, G
  <1>14. \A g \in Group : g = G(c) => InFlight(g)'
    BY <1>1, <1>2 DEF InFlight, G
  <1>15. BothSchedules'
    BY <1>2, <1>3, <1>4, <1>13, <1>14 DEF BothSchedules
  <1> QED BY <1>5, <1>6, <1>7, <1>8, <1>9, <1>10, <1>11, <1>12, <1>15

LEMMA CreateFastInv ==
  ASSUME IInv, NEW c \in Client, CreateFast(c)
  PROVE  IInv'
  <1> USE DEF IInv
  <1>1. /\ request' \in [Client -> Request]
        /\ request'[c].pc = "full"
        /\ \A d \in Client : d # c => request'[d] = request[d]
        /\ \A d \in Client : /\ request'[d].op = request[d].op
                             /\ request'[d].group = request[d].group
                             /\ request'[d].call = request[d].call
                             /\ request'[d].schema = request[d].schema
    BY GotoEffect DEF Step, CreateFast
  <1>2. /\ request[c].op = "RegisterArtifact" /\ request[c].pc = "fast"
        /\ UNCHANGED <<groups, fields, schema, calls, created, raced>>
        /\ G(c) \in Group /\ fields[G(c)] # Unset
    BY DEF At, CreateFast, database, history, TypeOK, Request, G, Checked
  <1>3. /\ schedules' \in [Group -> SUBSET Schedule]
        /\ \A g \in Group : schedules[g] \subseteq schedules'[g]
        /\ \A g \in Group : g # G(c) => schedules'[g] = schedules[g]
        /\ faults' \in 0..MaxFaults
        /\ faults' = 0 => faults = 0 /\ "fast" \in schedules'[G(c)]
    <2>1. CASE schedules' = [schedules EXCEPT ![G(c)] = @ \cup {"fast"}] /\ UNCHANGED faults
      BY <2>1, <1>2 DEF TypeOK, Schedule
    <2>2. CASE Fault /\ UNCHANGED schedules
      BY <2>2, RegistryAssumption DEF TypeOK, Fault
    <2> QED BY <2>1, <2>2 DEF CreateFast
  <1>4. TypeOK'
    BY <1>1, <1>2, <1>3 DEF TypeOK
  <1>5. Alone'
    BY <1>1, <1>2 DEF Alone, G
  <1>6. CreatedIsThere' /\ RegisteredOnce'
    BY <1>2 DEF CreatedIsThere, RegisteredOnce
  <1>7. Belongs'
    BY <1>2, <1>3 DEF Belongs
  <1>8. Checked' /\ StillMissing'
    BY <1>1, <1>2 DEF Checked, StillMissing, At, G
  <1>9. FastFirst'
    <2> SUFFICES ASSUME faults' = 0, NEW d \in Client, At(d, "RegisterArtifact", "full")'
                 PROVE  "fast" \in schedules'[G(d)]
      BY <1>1 DEF FastFirst, G
    <2>1. CASE d = c
      BY <2>1, <1>3
    <2>2. CASE d # c
      <3>1. "fast" \in schedules[G(d)] /\ G(d) \in Group
        BY <2>2, <1>1, <1>3 DEF FastFirst, At, TypeOK, Request, G
      <3> QED BY <3>1, <1>3
    <2> QED BY <2>1, <2>2
  <1>10. \A g \in Group : InFlight(g) => InFlight(g)'
    BY <1>1, <1>2 DEF InFlight, G
  <1>11. \A g \in Group : g = G(c) => InFlight(g)'
    BY <1>1, <1>2 DEF InFlight, G
  <1>12. BothSchedules'
    BY <1>2, <1>3, <1>10, <1>11 DEF BothSchedules
  <1> QED BY <1>4, <1>5, <1>6, <1>7, <1>8, <1>9, <1>12

LEMMA CreateFullInv ==
  ASSUME IInv, NEW c \in Client, CreateFull(c)
  PROVE  IInv'
  <1> USE DEF IInv
  <1> DEFINE new == [op |-> request[c].op, group |-> G(c), call |-> request[c].call]
  <1>1. /\ request' \in [Client -> Request]
        /\ request'[c].pc = "idle"
        /\ \A d \in Client : d # c => request'[d] = request[d]
        /\ \A d \in Client : /\ request'[d].op = request[d].op
                             /\ request'[d].group = request[d].group
                             /\ request'[d].call = request[d].call
                             /\ request'[d].schema = request[d].schema
    BY GotoEffect DEF Step, CreateFull
  <1>2. /\ request[c].op = "RegisterArtifact" /\ request[c].pc = "full"
        /\ created' = created \cup {new}
        /\ UNCHANGED <<groups, fields, schema, calls, raced>>
        /\ G(c) \in Group /\ fields[G(c)] # Unset
        /\ new \in [op: Op, group: Group, call: Call]
    BY DEF At, CreateFull, Created, database, TypeOK, Request, G, Checked
  <1>3. /\ schedules' \in [Group -> SUBSET Schedule]
        /\ \A g \in Group : schedules[g] \subseteq schedules'[g]
        /\ \A g \in Group : g # G(c) => schedules'[g] = schedules[g]
        /\ faults' \in 0..MaxFaults
        /\ faults' = 0 => faults = 0 /\ schedules'[G(c)] = Schedule
    <2>1. CASE schedules' = [schedules EXCEPT ![G(c)] = @ \cup {"full"}] /\ UNCHANGED faults
      <3>1. faults = 0 => "fast" \in schedules[G(c)]
        BY <1>2 DEF FastFirst, At
      <3> QED BY <2>1, <3>1, <1>2 DEF TypeOK, Schedule
    <2>2. CASE Fault /\ UNCHANGED schedules
      BY <2>2, RegistryAssumption DEF TypeOK, Fault
    <2> QED BY <2>1, <2>2 DEF CreateFull
  <1>4. new.op = "RegisterArtifact" /\ new.group = G(c)
    BY <1>2
  <1> HIDE DEF new
  <1>5. TypeOK'
    BY <1>1, <1>2, <1>3 DEF TypeOK
  <1>6. Alone'
    BY <1>1, <1>2 DEF Alone, G
  <1>7. CreatedIsThere'
    BY <1>2, <1>4 DEF CreatedIsThere, Registering
  <1>8. Belongs'
    BY <1>2, <1>3 DEF Belongs
  <1>9. Checked'
    BY <1>1, <1>2 DEF Checked, At, G
  <1>10. StillMissing'
    <2> SUFFICES ASSUME ~raced, NEW d \in Client, d # c
                 PROVE  request[d].op = "RegisterArtifact" /\ request[d].pc \in {"fast", "full"}
                           => G(c) # G(d)
      BY <1>1, <1>2, <1>4 DEF StillMissing, At, G
    <2> QED BY <1>2 DEF Alone, Registering
  <1>11. FastFirst'
    BY <1>1, <1>3 DEF FastFirst, At, TypeOK, Request, G
  <1>12. RegisteredOnce'
    <2> SUFFICES ASSUME ~raced PROVE RegisteredOnce'
      BY <1>2 DEF RegisteredOnce
    <2>1. \A a \in created : a.op = "RegisterArtifact"
                              => Lower[a.group] # Lower[G(c)]
      <3> SUFFICES ASSUME NEW a \in created, a.op = "RegisterArtifact",
                          Lower[a.group] = Lower[G(c)]
                   PROVE  FALSE
        OBVIOUS
      <3>1. a.group \in groups /\ G(c) \in groups
        BY <1>2 DEF CreatedIsThere, Belongs, TypeOK
      <3>2. a.group = G(c)
        BY <3>1 DEF RegisteredOnce
      <3> QED BY <3>2, <1>2 DEF StillMissing
    <2> QED BY <1>2, <1>4, <2>1 DEF RegisteredOnce
  <1>13. \A g \in Group : g # G(c) /\ InFlight(g) => InFlight(g)'
    BY <1>1, <1>2 DEF InFlight, G
  <1>14. BothSchedules'
    BY <1>2, <1>3, <1>13 DEF BothSchedules
  <1> QED BY <1>5, <1>6, <1>7, <1>8, <1>9, <1>10, <1>11, <1>12, <1>14

LEMMA CrashInv ==
  ASSUME IInv, Crash
  PROVE  IInv'
  <1> USE DEF IInv
  <1>1. /\ request' \in [Client -> Request]
        /\ \A c \in Client : request'[c].pc = "idle"
    BY DEF Crash, TypeOK, Request, Step
  <1>2. /\ UNCHANGED <<groups, fields, schema, schedules, calls, created, raced>>
        /\ faults' \in 0..MaxFaults /\ faults' # 0
    BY RegistryAssumption DEF Crash, Fault, TypeOK, database, history
  <1>3. TypeOK'
    BY <1>1, <1>2 DEF TypeOK
  <1>4. Alone' /\ Checked' /\ StillMissing' /\ FastFirst'
    BY <1>1, <1>2 DEF Alone, Checked, StillMissing, FastFirst, At
  <1>5. CreatedIsThere' /\ Belongs' /\ RegisteredOnce' /\ BothSchedules'
    BY <1>2 DEF CreatedIsThere, Belongs, RegisteredOnce, BothSchedules
  <1> QED BY <1>3, <1>4, <1>5

-----------------------------------------------------------------------------
(* The theorems. *)

LEMMA NextInv == IInv /\ [Next]_vars => IInv'
  <1> SUFFICES ASSUME IInv, [Next]_vars PROVE IInv'
    OBVIOUS
  <1>1. CASE \E c \in Client, g \in Group : Send(c, g)
    BY <1>1, SendInv
  <1>2. ASSUME NEW c \in Client, Serve(c) PROVE IInv'
    BY <1>2, ReadsInv, StoreSchemaInv, UpdateArtifactInv, CreateGroupInv,
       CreateArtifactInv, CreateFastInv, CreateFullInv DEF Serve
  <1>3. CASE Crash
    BY <1>3, CrashInv
  <1>4. CASE UNCHANGED vars
    BY <1>4 DEF IInv, vars, TypeOK, Alone, CreatedIsThere, Belongs, Checked,
                StillMissing, FastFirst, RegisteredOnce, BothSchedules, InFlight,
                At, G
  <1> QED BY <1>1, <1>2, <1>3, <1>4 DEF Next

LEMMA Invariance == Spec => []IInv
  <1> QED BY InitInv, NextInv, PTL DEF Spec

\* Every state of the registry and its requests is of its type.
THEOREM TypeCorrect == Spec => []TypeOK
  <1>1. IInv => TypeOK
    BY DEF IInv
  <1> QED BY <1>1, Invariance, PTL

\* One registration of a thing is told 201, however the others overlap with
\* updates and crashes, unless two registrations of it overlap: the check and
\* the upsert of one are not atomic.
THEOREM RegisteredOnceHolds == Spec => []RegisteredOnce
  <1>1. IInv => RegisteredOnce
    BY DEF IInv
  <1> QED BY <1>1, Invariance, PTL

\* Without a fault every artifact whose registration is through is synced by
\* both schedules.
THEOREM BothSchedulesHold == Spec => []BothSchedules
  <1>1. IInv => BothSchedules
    BY DEF IInv
  <1> QED BY <1>1, Invariance, PTL

\* A schema that was put is never removed, unless two registrations overlap.
THEOREM SchemaIsKept == Spec => SchemaStays
  <1>1. ASSUME IInv, [Next]_vars, ~raced', NEW g \in Group, schema[g] # Unset
        PROVE  schema'[g] # Unset
    <2>1. ASSUME NEW c \in Client, CreateArtifact(c) PROVE schema'[g] # Unset
      <3>1. G(c) \in Group /\ ~raced
        BY <1>1, <2>1 DEF IInv, TypeOK, Request, G, CreateArtifact
      <3>2. fields[G(c)] = Unset
        BY <1>1, <2>1, <3>1 DEF IInv, StillMissing, CreateArtifact
      <3>3. g # G(c)
        BY <1>1, <3>2 DEF IInv, Belongs
      <3> QED BY <1>1, <2>1, <3>3 DEF CreateArtifact, IInv, TypeOK
    <2>2. ASSUME NEW c \in Client, StoreSchema(c) PROVE schema'[g] # Unset
      <3>1. request[c].schema # Unset
        BY <1>1, <2>2, RegistryAssumption DEF IInv, Checked, StoreSchema, At
      <3> QED BY <1>1, <2>2, <3>1 DEF StoreSchema, IInv, TypeOK
    <2>3. CASE UNCHANGED schema
      BY <1>1, <2>3
    <2>4. \A c \in Client, h \in Group : Send(c, h) => UNCHANGED schema
      BY DEF Send, Begin, database
    <2>5. \A c \in Client : Serve(c) => \/ CreateArtifact(c) \/ StoreSchema(c)
                                       \/ UNCHANGED schema
      BY DEF Serve, CheckGroup, CreateGroup, CheckItsGroup, CheckArtifact,
             CreateFast, CreateFull, CheckSchema, UpdateArtifact, database
    <2>6. Crash \/ UNCHANGED vars => UNCHANGED schema
      BY DEF Crash, database, vars
    <2> QED BY <1>1, <2>1, <2>2, <2>3, <2>4, <2>5, <2>6 DEF Next
  <1>2. IInv /\ [Next]_vars => [~raced' => \A g \in Group :
                    schema[g] # Unset => schema'[g] # Unset]_vars
    BY <1>1
  <1> QED BY <1>2, Invariance, PTL DEF Spec, SchemaStays
=============================================================================
