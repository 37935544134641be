------------------------ MODULE FsmSupervisor_proofs ------------------------
(***************************************************************************)
(* Proofs about FsmSupervisor for any names, clients, states, environments *)
(* and number of actors.                                                   *)
(***************************************************************************)
EXTENDS FsmSupervisor, TLAPS

(***************************************************************************)
(* What each client action makes of the call.                              *)
(***************************************************************************)

\* The record of a call is the only one that changes.
Becomes(c, k) == k \in Call /\ call' = [call EXCEPT ![c] = k]

LEMMA NoCallFacts ==
  /\ NoCall \in Call /\ NoCall.step = "idle"
BY DEF NoCall, Call, Step

LEMMA GotoFacts ==
  ASSUME TypeOK, NEW c \in Client, NEW s \in Step, Goto(c, s)
  PROVE  \E k \in Call :
           /\ Becomes(c, k) /\ k.step = s
           /\ k.name = call[c].name /\ k.pid = call[c].pid /\ k.state = call[c].state
           /\ k.known = call[c].known /\ k.served = call[c].served
<1> DEFINE k == [call[c] EXCEPT !.step = s]
<1>1. call[c] \in Call
  BY DEF TypeOK
<1>2. /\ k \in Call /\ k.step = s
      /\ k.name = call[c].name /\ k.pid = call[c].pid /\ k.state = call[c].state
      /\ k.known = call[c].known /\ k.served = call[c].served
  BY <1>1 DEF Call
<1>3. call' = [call EXCEPT ![c] = k]
  BY DEF Goto
<1> QED
  BY <1>2, <1>3 DEF Becomes

LEMMA LaunchFacts ==
  ASSUME NEW c \in Client, NEW n \in Name, NEW supervised \in BOOLEAN,
         Launch(c, n, supervised)
  PROVE  \E k \in Call :
           /\ Becomes(c, k) /\ k.name = n /\ k.pid = None
           /\ k.step = IF supervised THEN "first_load" ELSE "load"
<1> DEFINE s == IF supervised THEN "first_load" ELSE "load"
           k == [NoCall EXCEPT !.step = s, !.name = n]
<1>1. s \in Step
  BY DEF Step, StartSteps, SpawnSteps
<1>2. call' = [call EXCEPT ![c] = k]
  BY DEF Launch
<1> HIDE DEF s
<1>3. k \in Call /\ k.name = n /\ k.pid = None /\ k.step = s
  BY <1>1 DEF NoCall, Call
<1> QED
  BY <1>2, <1>3 DEF Becomes, s

LEMMA StartLoadFacts ==
  ASSUME TypeOK, NEW c \in Client, StartLoad(c), call[c].name \in Name
  PROVE  \E k \in Call :
           /\ Becomes(c, k) /\ k.step = "publish" /\ k.name = call[c].name
           /\ k.state \in State
<1> DEFINE s == Recorded(call[c].name)
           k == [call[c] EXCEPT !.step = "publish", !.state = s]
<1>1. call[c] \in Call
  BY DEF TypeOK
<1>2. s \in State
  BY <1>1, SupervisorAssumption DEF Recorded, TypeOK, Call
<1>3. call' = [call EXCEPT ![c] = k]
  BY DEF StartLoad
<1> HIDE DEF s
<1>4. k \in Call /\ k.step = "publish" /\ k.name = call[c].name /\ k.state = s
  BY <1>1, <1>2 DEF Call, Step, StartSteps
<1> QED
  BY <1>2, <1>3, <1>4 DEF Becomes

LEMMA StartSpawnFacts ==
  ASSUME TypeOK, NEW c \in Client, StartSpawn(c)
  PROVE  \E p \in Pid, k \in Call :
           /\ Spawn(p, call[c].name, FALSE, call[c].state, "serving")
           /\ Becomes(c, k) /\ k.step = "register" /\ k.name = call[c].name /\ k.pid = p
<1>1. call[c] \in Call
  BY DEF TypeOK
<1>2. PICK p \in Pid :
        /\ Spawn(p, call[c].name, FALSE, call[c].state, "serving")
        /\ call' = [call EXCEPT ![c] =
              [@ EXCEPT !.step = "register", !.pid = p, !.state = None]]
  BY DEF StartSpawn
<1> DEFINE k == [call[c] EXCEPT !.step = "register", !.pid = p, !.state = None]
<1>3. call' = [call EXCEPT ![c] = k]
  BY <1>2
<1>4. k \in Call /\ k.step = "register" /\ k.name = call[c].name /\ k.pid = p
  BY <1>1 DEF Call, Step, StartSteps
<1> HIDE DEF k
<1> QED
  BY <1>2, <1>3, <1>4 DEF Becomes

LEMMA SendToFacts ==
  ASSUME TypeOK, NEW c \in Client, NEW p \in Pid \cup {Nobody, None}, SendTo(c, p)
  PROVE  \E k \in Call :
           /\ Becomes(c, k) /\ k.step = "send" /\ k.name = call[c].name /\ k.pid = p
           /\ k.known = call[c].known /\ k.served = call[c].served
<1> DEFINE k == [call[c] EXCEPT !.step = "send", !.pid = p]
<1>1. call[c] \in Call
  BY DEF TypeOK
<1>2. call' = [call EXCEPT ![c] = k]
  BY DEF SendTo
<1>3. /\ k \in Call /\ k.step = "send" /\ k.name = call[c].name /\ k.pid = p
      /\ k.known = call[c].known /\ k.served = call[c].served
  BY <1>1 DEF Call, Step, SendSteps
<1> HIDE DEF k
<1> QED
  BY <1>2, <1>3 DEF Becomes

LEMMA SendFacts ==
  ASSUME TypeOK, NEW c \in Client, NEW n \in Name, Send(c, n)
  PROVE  \E k \in Call :
           /\ Becomes(c, k) /\ k.step = "whereis" /\ k.name = n
           /\ k.known = (n \in launched) /\ k.served = {p \in Of(n) : Serves(p) /\ Resolved(n) = p}
<1> DEFINE v == {p \in Of(n) : Serves(p) /\ Resolved(n) = p}
           w == (n \in launched)
           k == [NoCall EXCEPT !.step = "whereis", !.name = n, !.known = w, !.served = v]
<1>1. v \in SUBSET Pid /\ w \in BOOLEAN
  BY DEF Of
<1>2. call' = [call EXCEPT ![c] = k]
  BY DEF Send
<1> HIDE DEF v, w
<1>3. k \in Call /\ k.step = "whereis" /\ k.name = n /\ k.known = w /\ k.served = v
  BY <1>1 DEF Call, NoCall, Step, SendSteps
<1> QED
  BY <1>2, <1>3 DEF Becomes, v, w

\* An actor is spawned: one entry of each of its three functions changes.
LEMMA SpawnFacts ==
  ASSUME TypeOK, NEW p \in Pid, NEW n \in Name, NEW supervised \in BOOLEAN,
         NEW s \in State, NEW f \in Phase, Spawn(p, n, supervised, s, f)
  PROVE  /\ phase[p] = "unused" /\ phase' \in [Pid -> Phase] /\ phase'[p] = f
         /\ fsm' \in [Pid -> Identity]
         /\ fsm'[p].name = n /\ fsm'[p].supervised = supervised
         /\ current' \in [Pid -> State] /\ current'[p] = s /\ other' = other
         /\ \A q \in Pid \ {p} : /\ phase'[q] = phase[q] /\ fsm'[q] = fsm[q]
                                 /\ current'[q] = current[q]
<1>1. [name |-> n, supervised |-> supervised] \in Identity
  BY DEF Identity
<1> QED
  BY <1>1 DEF Spawn, Fresh, TypeOK

-----------------------------------------------------------------------------
(***************************************************************************)
(* Types.                                                                  *)
(***************************************************************************)

\* What a call and an actor have by the time they need it.
Shape ==
    /\ \A c \in Client :
          /\ call[c].step # "idle" => call[c].name \in Name
          /\ call[c].step \in {"publish", "spawn"} => call[c].state \in State
          /\ call[c].step \in {"register", "insert"} => call[c].pid \in Pid
    /\ \A p \in Pid :
          /\ phase[p] # "unused" => fsm[p].name \in Name
          /\ phase[p] = "commit" => other[p] \in State

Typed == TypeOK /\ Shape

LEMMA TypedInit == Init => Typed
BY NoCallFacts, SupervisorAssumption
   DEF Init, Typed, TypeOK, Shape, Identity, Phase, NoCall

\* A client that makes a step of its own leaves the actors alone.
LEMMA TypedCaller ==
  ASSUME Typed, NEW c \in Client, NEW k \in Call, Becomes(c, k),
         UNCHANGED <<conf, inside>>,
         registry' \in [Name -> Pid \cup {None}],
         actors' \in [Name -> Pid \cup {Nobody, None}],
         cache' \in [Name -> State \cup {None}],
         record' \in [Name -> State \cup {None}],
         launched' \subseteq Name, shadowed' \subseteq Pid,
         k.step # "idle" => k.name \in Name,
         k.step \in {"publish", "spawn"} => k.state \in State,
         k.step \in {"register", "insert"} => k.pid \in Pid
  PROVE  Typed'
<1>1. TypeOK'
  BY DEF Typed, TypeOK, Becomes, inside
<1>2. Shape'
  BY DEF Typed, TypeOK, Shape, Becomes, inside
<1> QED
  BY <1>1, <1>2 DEF Typed

LEMMA AfterRegisterType ==
  ASSUME TypeOK, NEW n \in Name, NEW p \in Pid, NEW r \in AfterRegister(n, p)
  PROVE  r \in [Name -> Pid \cup {None}]
BY DEF AfterRegister, TypeOK

LEMMA TypedNextCaller ==
  ASSUME Typed, NEW c \in Client,
         \/ ClientStep(c) \/ Cancel(c)
         \/ \E n \in conf.names :
               \/ \E supervised \in BOOLEAN : Launch(c, n, supervised)
               \/ Send(c, n)
  PROVE  Typed'
<1>a. TypeOK /\ Shape /\ call[c] \in Call /\ conf.names \subseteq Name
  BY SupervisorAssumption DEF Typed, TypeOK, Config
<1>b. call[c].step # "idle" => call[c].name \in Name
  BY <1>a DEF Shape
<1> USE DEF shared, inside, history
<1>1. CASE \E n \in conf.names, supervised \in BOOLEAN : Launch(c, n, supervised)
  <2>1. PICK n \in conf.names, supervised \in BOOLEAN : Launch(c, n, supervised)
    BY <1>1
  <2>2. PICK k \in Call :
          /\ Becomes(c, k) /\ k.name = n
          /\ k.step = IF supervised THEN "first_load" ELSE "load"
    BY <1>a, <2>1, LaunchFacts
  <2> QED
    BY <1>a, <2>1, <2>2, TypedCaller DEF Launch, TypeOK
<1>2. CASE \E n \in conf.names : Send(c, n)
  <2>1. PICK n \in conf.names : Send(c, n)
    BY <1>2
  <2>2. PICK k \in Call : Becomes(c, k) /\ k.name = n /\ k.step = "whereis"
    BY <1>a, <2>1, SendFacts
  <2> QED
    BY <1>a, <2>1, <2>2, TypedCaller DEF Send, TypeOK
<1>3. CASE StartLoad(c)
  <2>1. PICK k \in Call :
          Becomes(c, k) /\ k.step = "publish" /\ k.name = call[c].name /\ k.state \in State
    BY <1>3, <1>a, <1>b, StartLoadFacts DEF StartLoad
  <2> QED
    BY <1>3, <1>a, <1>b, <2>1, TypedCaller DEF StartLoad, TypeOK
<1>4. CASE StartSpawn(c)
  <2>1. PICK p \in Pid, k \in Call :
          /\ Spawn(p, call[c].name, FALSE, call[c].state, "serving")
          /\ Becomes(c, k) /\ k.step = "register" /\ k.name = call[c].name /\ k.pid = p
    BY <1>4, <1>a, StartSpawnFacts
  <2>2. call[c].name \in Name /\ call[c].state \in State /\ "serving" \in Phase
    BY <1>4, <1>a, <1>b DEF StartSpawn, Shape, Phase, Up
  <2>3. /\ phase[p] = "unused" /\ phase' \in [Pid -> Phase] /\ phase'[p] = "serving"
        /\ fsm' \in [Pid -> Identity]
        /\ fsm'[p].name = call[c].name /\ fsm'[p].supervised = FALSE
        /\ current' \in [Pid -> State] /\ current'[p] = call[c].state /\ other' = other
        /\ \A q \in Pid \ {p} : /\ phase'[q] = phase[q] /\ fsm'[q] = fsm[q]
                                /\ current'[q] = current[q]
    <3>1. PICK b \in BOOLEAN : b = FALSE
      OBVIOUS
    <3>2. Spawn(p, call[c].name, b, call[c].state, "serving")
      BY <2>1, <3>1
    <3> QED
      BY <1>a, <2>2, <3>1, <3>2, SpawnFacts
  <2>4. UNCHANGED <<conf, registry, actors, cache, record, history>>
    BY <1>4 DEF StartSpawn
  <2>5. TypeOK'
    BY <1>a, <2>1, <2>3, <2>4 DEF TypeOK, Becomes
  <2>6. Shape'
    BY <1>a, <2>1, <2>2, <2>3 DEF TypeOK, Becomes, Shape
  <2> QED
    BY <2>5, <2>6 DEF Typed
<1>5. CASE Supervise(c)
  <2>1. PICK p \in Pid : Spawn(p, call[c].name, TRUE, Initial, "recover")
    BY <1>5 DEF Supervise
  <2>2. PICK k \in Call : Becomes(c, k) /\ k.step = "insert_nobody" /\ k.name = call[c].name
    BY <1>5, <1>a, GotoFacts DEF Supervise, Step, SpawnSteps
  <2>3. call[c].name \in Name /\ Initial \in State /\ "recover" \in Phase
    BY <1>5, <1>b, SupervisorAssumption DEF Supervise, Phase, Starting
  <2>4. /\ phase[p] = "unused" /\ phase' \in [Pid -> Phase] /\ phase'[p] = "recover"
        /\ fsm' \in [Pid -> Identity]
        /\ fsm'[p].name = call[c].name /\ fsm'[p].supervised = TRUE
        /\ current' \in [Pid -> State] /\ current'[p] = Initial /\ other' = other
        /\ \A q \in Pid \ {p} : /\ phase'[q] = phase[q] /\ fsm'[q] = fsm[q]
                                /\ current'[q] = current[q]
    BY <1>a, <2>1, <2>3, SpawnFacts, Zenon
  <2>5. UNCHANGED <<conf, registry, actors, cache, record, history>>
    BY <1>5 DEF Supervise
  <2>6. TypeOK'
    BY <1>a, <2>2, <2>4, <2>5 DEF TypeOK, Becomes
  <2>7. Shape'
    BY <1>a, <2>2, <2>3, <2>4 DEF TypeOK, Becomes, Shape
  <2> QED
    BY <2>6, <2>7 DEF Typed
<1>6. ASSUME NEW s \in Step, Goto(c, s), UNCHANGED <<conf, inside>>,
             call[c].step # "idle",
             s \in {"publish", "spawn"} => call[c].step = "publish",
             s \in {"register", "insert"} => call[c].step = "register",
             registry' \in [Name -> Pid \cup {None}],
             actors' \in [Name -> Pid \cup {Nobody, None}],
             cache' \in [Name -> State \cup {None}],
             record' \in [Name -> State \cup {None}],
             launched' \subseteq Name, shadowed' \subseteq Pid
      PROVE  Typed'
  <2>1. PICK k \in Call :
          /\ Becomes(c, k) /\ k.step = s
          /\ k.name = call[c].name /\ k.pid = call[c].pid /\ k.state = call[c].state
    BY <1>6, <1>a, GotoFacts
  <2>2. /\ k.step \in {"publish", "spawn"} => k.state \in State
        /\ k.step \in {"register", "insert"} => k.pid \in Pid
    BY <1>6, <1>a, <2>1 DEF Shape
  <2> QED
    BY <1>6, <1>b, <2>1, <2>2, TypedCaller
<1>7. ASSUME Done(c), UNCHANGED <<conf, inside>>,
             registry' \in [Name -> Pid \cup {None}],
             actors' \in [Name -> Pid \cup {Nobody, None}],
             cache' \in [Name -> State \cup {None}],
             record' \in [Name -> State \cup {None}],
             launched' \subseteq Name, shadowed' \subseteq Pid
      PROVE  Typed'
  BY <1>7, TypedCaller, NoCallFacts DEF Done, Becomes
<1>8. ASSUME NEW p \in Pid \cup {Nobody, None}, SendTo(c, p), call[c].step # "idle",
             UNCHANGED <<conf, shared, inside, history>>
      PROVE  Typed'
  <2>1. PICK k \in Call : Becomes(c, k) /\ k.step = "send" /\ k.name = call[c].name
    BY <1>8, <1>a, SendToFacts
  <2> QED
    BY <1>8, <1>a, <1>b, <2>1, TypedCaller DEF TypeOK
<1> USE <1>a, <1>b DEF TypeOK, Step, StartSteps, SpawnSteps, SendSteps, Refusal
<1>9. CASE StartPublish(c)
  <2>1. call[c].state \in State /\ call[c].name \in Name
    BY <1>9 DEF StartPublish, Shape
  <2> QED
    BY <1>6, <1>9, <2>1 DEF StartPublish
<1>10. CASE StartRegister(c)
  <2>1. call[c].pid \in Pid /\ call[c].name \in Name
    BY <1>10 DEF StartRegister, Shape
  <2>2. registry' \in [Name -> Pid \cup {None}] /\ shadowed' \subseteq Pid
    BY <1>10, <2>1, AfterRegisterType DEF StartRegister, Shadow
  <2> QED
    BY <1>6, <1>10, <2>2 DEF StartRegister
<1>11. CASE StartInsert(c)
  <2>1. call[c].pid \in Pid /\ call[c].name \in Name
    BY <1>11 DEF StartInsert, Shape
  <2> QED
    BY <1>7, <1>11, <2>1 DEF StartInsert
<1>12. CASE FirstLoad(c)
  BY <1>6, <1>12 DEF FirstLoad
<1>13. CASE FirstStore(c)
  BY <1>6, <1>13, SupervisorAssumption DEF FirstStore
<1>14. CASE InsertNobody(c)
  BY <1>7, <1>14 DEF InsertNobody
<1>15. CASE Whereis(c)
  BY <1>6, <1>8, <1>15 DEF Whereis
<1>16. CASE ReadActors(c)
  BY <1>6, <1>8, <1>16 DEF ReadActors
<1>17. CASE Accept(c)
  BY <1>7, <1>17 DEF Accept
<1>18. CASE Refuse(c)
  BY <1>6, <1>18 DEF Refuse
<1>19. CASE Return(c) \/ Cancel(c)
  BY <1>7, <1>19 DEF Return, Cancel
<1> QED
  BY <1>1, <1>2, <1>3, <1>4, <1>5, <1>9, <1>10, <1>11, <1>12, <1>13, <1>14, <1>15,
     <1>16, <1>17, <1>18, <1>19 DEF ClientStep


\* The step of an actor that keeps who it is: it goes on to f, or ends.
Works(p, f) ==
    /\ phase[p] \notin {"unused", "dead"} /\ f \in Phase \ {"unused"}
    /\ phase' = [phase EXCEPT ![p] = f]
    /\ UNCHANGED <<conf, fsm, call, history, actors>>
    /\ f \in Starting => phase[p] \in Starting
    /\ f = "crashed" => fsm[p].supervised
    /\ \/ registry' = registry /\ f # "register" /\ (f \in Up => phase[p] \in Up)
       \/ /\ phase[p] = "unregister" /\ f = "register"
          /\ registry' = [registry EXCEPT ![fsm[p].name] = None]
       \/ /\ phase[p] = "register" /\ f = "serving"
          /\ registry' \in AfterRegister(fsm[p].name, p)

\* What it writes.
Writes(p, f) ==
    /\ current' \in [Pid -> State] /\ other' \in [Pid -> State \cup {None}]
    /\ \A q \in Pid \ {p} : current'[q] = current[q] /\ other'[q] = other[q]
    /\ f = "commit" => other'[p] \in State
    /\ cache' \in [Name -> State \cup {None}] /\ record' \in [Name -> State \cup {None}]
    /\ \A n \in Name \ {fsm[p].name} : cache'[n] = cache[n] /\ record'[n] = record[n]
    /\ record[fsm[p].name] # None => record'[fsm[p].name] # None

LEMMA EndFacts ==
  ASSUME TypeOK, NEW p \in Pid, NEW f, End(p, f)
  PROVE  /\ phase' = [phase EXCEPT ![p] = f]
         /\ current' \in [Pid -> State] /\ other' \in [Pid -> State \cup {None}]
         /\ \A q \in Pid \ {p} : current'[q] = current[q] /\ other'[q] = other[q]
BY SupervisorAssumption DEF End, TypeOK

LEMMA PublishFacts ==
  ASSUME TypeOK, NEW p \in Pid, fsm[p].name \in Name, NEW s \in State, Publish(p, s)
  PROVE  /\ cache' \in [Name -> State \cup {None}] /\ cache'[fsm[p].name] = s
         /\ \A n \in Name \ {fsm[p].name} : cache'[n] = cache[n]
BY DEF Publish, TypeOK

LEMMA WorkFacts ==
  ASSUME Typed, NEW p \in Pid,
         ActorStep(p) \/ Handle(p) \/ Panic(p) \/ GiveUp(p)
  PROVE  \E f \in Phase : Works(p, f) /\ Writes(p, f)
<1>a. /\ TypeOK /\ Shape /\ phase \in [Pid -> Phase]
      /\ current \in [Pid -> State] /\ other \in [Pid -> State \cup {None}]
      /\ cache \in [Name -> State \cup {None}] /\ record \in [Name -> State \cup {None}]
  BY DEF Typed, TypeOK
<1>b. phase[p] # "unused" => fsm[p].name \in Name
  BY <1>a DEF Shape
<1>c. ASSUME NEW s \in State, phase[p] # "unused", Publish(p, s), record' = record
      PROVE  /\ cache' \in [Name -> State \cup {None}] /\ record' \in [Name -> State \cup {None}]
             /\ \A n \in Name \ {fsm[p].name} : cache'[n] = cache[n] /\ record'[n] = record[n]
             /\ record[fsm[p].name] # None => record'[fsm[p].name] # None
  BY <1>a, <1>b, <1>c, PublishFacts
<1> USE DEF shared, inside, history, Phase, Starting, Up
<1>1. CASE Recover(p)
  <2>1. PICK f \in {"publish", "unregister"} : phase' = [phase EXCEPT ![p] = f]
    BY <1>1 DEF Recover
  <2>2. current' \in [Pid -> State] /\ \A q \in Pid \ {p} : current'[q] = current[q]
    BY <1>1, <1>a, <1>b DEF Recover
  <2>3. UNCHANGED <<conf, registry, actors, cache, record, fsm, other, call, history>>
    BY <1>1 DEF Recover
  <2>4. phase[p] = "recover" /\ f \in Phase
    BY <1>1 DEF Recover
  <2>5. Works(p, f)
    BY <2>1, <2>3, <2>4 DEF Works
  <2>6. Writes(p, f)
    BY <1>a, <2>2, <2>3 DEF Writes
  <2> QED
    BY <2>4, <2>5, <2>6
<1>2. CASE PublishRecovered(p)
  <2>1. Works(p, "unregister")
    BY <1>2 DEF PublishRecovered, Works
  <2>2. Writes(p, "unregister")
    BY <1>2, <1>a, <1>c DEF PublishRecovered, Writes
  <2> QED
    BY <2>1, <2>2
<1>3. CASE Unregister(p)
  <2>1. Works(p, "register")
    BY <1>3 DEF Unregister, Works
  <2>2. Writes(p, "register")
    BY <1>3, <1>a DEF Unregister, Writes
  <2> QED
    BY <2>1, <2>2
<1>4. CASE Register(p)
  <2>1. Works(p, "serving")
    BY <1>4 DEF Register, Works
  <2>2. Writes(p, "serving")
    BY <1>4, <1>a DEF Register, Writes
  <2> QED
    BY <2>1, <2>2
<1>5. CASE Store(p)
  <2>a. phase[p] = "transit" /\ UNCHANGED <<conf, registry, actors, fsm, current, call, history>>
    BY <1>5 DEF Store
  <2>1. CASE /\ \E t \in State :
                   /\ other' = [other EXCEPT ![p] = t]
                   /\ record' = IF conf.persists
                                  THEN [record EXCEPT ![fsm[p].name] = t] ELSE record
             /\ phase' = [phase EXCEPT ![p] = "commit"]
             /\ UNCHANGED cache
    <3>1. Works(p, "commit")
      BY <2>1, <2>a DEF Works
    <3>2. Writes(p, "commit")
      BY <2>1, <2>a, <1>a, <1>b, SupervisorAssumption DEF Writes
    <3> QED
      BY <3>1, <3>2
  <2>2. CASE /\ Publish(p, current[p])
             /\ phase' = [phase EXCEPT ![p] = "serving"]
             /\ UNCHANGED <<record, other>>
    <3>1. Works(p, "serving")
      BY <2>2, <2>a DEF Works
    <3>2. Writes(p, "serving")
      BY <2>2, <2>a, <1>a, <1>c DEF Writes
    <3> QED
      BY <3>1, <3>2
  <2> QED
    BY <1>5, <2>1, <2>2 DEF Store
<1>6. CASE Commit(p)
  <2>1. Works(p, "entered")
    BY <1>6 DEF Commit, Works
  <2>2. Writes(p, "entered")
    BY <1>6, <1>a DEF Commit, Writes, Shape
  <2> QED
    BY <2>1, <2>2
<1>10. CASE Settle(p)
  <2>a. /\ phase[p] = "entered" /\ Publish(p, current[p])
        /\ UNCHANGED <<conf, registry, actors, record, fsm, call, history>>
    BY <1>10 DEF Settle
  <2>1. CASE /\ phase' = [phase EXCEPT ![p] = "serving"]
             /\ other' = [other EXCEPT ![p] = None]
             /\ UNCHANGED current
    <3>1. Works(p, "serving")
      BY <2>1, <2>a DEF Works
    <3>2. Writes(p, "serving")
      BY <2>1, <2>a, <1>a, <1>c DEF Writes
    <3> QED
      BY <3>1, <3>2
  <2>2. CASE End(p, "dead")
    <3>1. Works(p, "dead")
      BY <2>2, <2>a DEF Works, End
    <3>2. Writes(p, "dead")
      BY <2>2, <2>a, <1>a, <1>c, EndFacts DEF Writes
    <3> QED
      BY <3>1, <3>2
  <2> QED
    BY <1>10, <2>1, <2>2 DEF Settle
<1>7. CASE Handle(p)
  <2>a. phase[p] = "serving" /\ UNCHANGED <<conf, registry, actors, record, fsm, call, history>>
    BY <1>7 DEF Handle
  <2>1. CASE phase' = [phase EXCEPT ![p] = "transit"] /\ UNCHANGED <<cache, current, other>>
    <3>1. Works(p, "transit")
      BY <2>1, <2>a DEF Works
    <3>2. Writes(p, "transit")
      BY <2>1, <2>a, <1>a DEF Writes
    <3> QED
      BY <3>1, <3>2
  <2>2. CASE Publish(p, current[p]) /\ UNCHANGED <<phase, current, other>>
    <3>1. Works(p, "serving")
      BY <2>2, <2>a, <1>a DEF Works
    <3>2. Writes(p, "serving")
      BY <2>2, <2>a, <1>a, <1>c DEF Writes
    <3> QED
      BY <3>1, <3>2
  <2>3. CASE Publish(p, current[p]) /\ End(p, "dead")
    <3>1. Works(p, "dead")
      BY <2>3, <2>a DEF Works, End
    <3>2. Writes(p, "dead")
      BY <2>3, <2>a, <1>a, <1>c, EndFacts DEF Writes
    <3> QED
      BY <3>1, <3>2
  <2> QED
    BY <1>7, <2>1, <2>2, <2>3 DEF Handle
<1>8. CASE Panic(p)
  <2>a. /\ phase[p] \in {"recover", "publish"} \cup Up
        /\ UNCHANGED <<conf, registry, actors, record, fsm, call, history>>
    BY <1>8 DEF Panic
  <2>1. PICK f \in {"crashed", "dead"} : End(p, f) /\ (f = "crashed" => fsm[p].supervised)
    BY <1>8 DEF Panic
  <2>2. Works(p, f)
    BY <2>1, <2>a DEF Works, End
  <2>3. \/ Publish(p, current[p])
        \/ UNCHANGED cache
    BY <1>8 DEF Panic
  <2>4. /\ cache' \in [Name -> State \cup {None}]
        /\ \A n \in Name \ {fsm[p].name} : cache'[n] = cache[n]
    BY <2>a, <2>3, <1>a, <1>c
  <2>5. /\ current' \in [Pid -> State] /\ other' \in [Pid -> State \cup {None}]
        /\ \A q \in Pid \ {p} : current'[q] = current[q] /\ other'[q] = other[q]
    BY <2>1, <1>a, EndFacts
  <2>6. Writes(p, f)
    BY <2>a, <2>1, <2>4, <2>5, <1>a DEF Writes
  <2> QED
    BY <2>2, <2>6
<1>9. CASE GiveUp(p)
  <2>1. Works(p, "dead")
    BY <1>9 DEF GiveUp, Works
  <2>2. Writes(p, "dead")
    BY <1>9, <1>a DEF GiveUp, Writes
  <2> QED
    BY <2>1, <2>2
<1> QED
  BY <1>1, <1>2, <1>3, <1>4, <1>5, <1>6, <1>7, <1>8, <1>9, <1>10 DEF ActorStep

\* A child made again: p is gone, and q is what p was.
LEMMA RestartFacts ==
  ASSUME Typed, NEW p \in Pid, Restart(p)
  PROVE  \E q \in Pid :
           /\ phase[p] = "crashed" /\ phase[q] = "unused" /\ q # p
           /\ phase' \in [Pid -> Phase] /\ phase'[p] = "dead" /\ phase'[q] = "recover"
           /\ fsm' \in [Pid -> Identity] /\ fsm'[q] = fsm[p]
           /\ current' \in [Pid -> State]
           /\ \A r \in Pid \ {q} : fsm'[r] = fsm[r] /\ current'[r] = current[r]
           /\ \A r \in Pid \ {p, q} : phase'[r] = phase[r]
           /\ UNCHANGED <<conf, shared, other, call, history>>
<1>1. PICK q \in Pid :
        /\ Fresh(q)
        /\ phase' = [phase EXCEPT ![p] = "dead", ![q] = "recover"]
        /\ fsm' = [fsm EXCEPT ![q] = fsm[p]]
        /\ current' = [current EXCEPT ![q] = Initial]
  BY DEF Restart
<1>2. phase[p] = "crashed" /\ phase[q] = "unused" /\ q # p
  BY <1>1 DEF Restart, Fresh
<1>3. phase \in [Pid -> Phase] /\ fsm \in [Pid -> Identity] /\ current \in [Pid -> State]
  BY DEF Typed, TypeOK
<1>4. "dead" \in Phase /\ "recover" \in Phase
  BY DEF Phase, Starting
<1>5. /\ phase' \in [Pid -> Phase] /\ phase'[p] = "dead" /\ phase'[q] = "recover"
      /\ \A r \in Pid \ {p, q} : phase'[r] = phase[r]
  BY <1>1, <1>2, <1>3, <1>4
<1>6. /\ fsm' \in [Pid -> Identity] /\ fsm'[q] = fsm[p]
      /\ current' \in [Pid -> State]
      /\ \A r \in Pid \ {q} : fsm'[r] = fsm[r] /\ current'[r] = current[r]
  BY <1>1, <1>3, SupervisorAssumption
<1> QED
  BY <1>2, <1>5, <1>6 DEF Restart

LEMMA TypedNextActor ==
  ASSUME Typed, NEW p \in Pid, ActorStep(p) \/ Environment(p)
  PROVE  Typed'
<1>a. TypeOK /\ Shape
  BY DEF Typed
<1>1. CASE ActorStep(p) \/ Handle(p) \/ Panic(p) \/ GiveUp(p)
  <2>1. PICK f \in Phase : Works(p, f) /\ Writes(p, f)
    BY <1>1, WorkFacts
  <2>2. /\ phase' \in [Pid -> Phase] /\ phase'[p] = f /\ phase[p] # "unused"
        /\ \A q \in Pid \ {p} : phase'[q] = phase[q]
        /\ UNCHANGED <<conf, fsm, call, history, actors>>
    BY <2>1, <1>a DEF Works, TypeOK
  <2>3. registry' \in [Name -> Pid \cup {None}]
    <3>1. fsm[p].name \in Name
      BY <2>2, <1>a DEF Shape
    <3> QED
      BY <2>1, <3>1, <1>a, AfterRegisterType DEF Works, TypeOK
  <2>4. TypeOK'
    BY <1>a, <2>1, <2>2, <2>3 DEF TypeOK, Writes, history
  <2>5. Shape'
    BY <1>a, <2>1, <2>2 DEF Shape, Writes
  <2> QED
    BY <2>4, <2>5 DEF Typed
<1>2. CASE Restart(p)
  <2>1. PICK q \in Pid :
           /\ phase[p] = "crashed" /\ phase[q] = "unused" /\ q # p
           /\ phase' \in [Pid -> Phase] /\ phase'[p] = "dead" /\ phase'[q] = "recover"
           /\ fsm' \in [Pid -> Identity] /\ fsm'[q] = fsm[p]
           /\ current' \in [Pid -> State]
           /\ \A r \in Pid \ {q} : fsm'[r] = fsm[r] /\ current'[r] = current[r]
           /\ \A r \in Pid \ {p, q} : phase'[r] = phase[r]
           /\ UNCHANGED <<conf, shared, other, call, history>>
    BY <1>2, RestartFacts
  <2>2. TypeOK'
    BY <1>a, <2>1 DEF TypeOK, shared, history
  <2>3. Shape'
    BY <1>a, <2>1 DEF Shape
  <2> QED
    BY <2>2, <2>3 DEF Typed
<1>3. CASE Release(p)
  <2>1. TypeOK'
    BY <1>a, <1>3 DEF TypeOK, Release, inside, history
  <2>2. Shape'
    BY <1>a, <1>3 DEF Shape, Release, inside
  <2> QED
    BY <2>1, <2>2 DEF Typed
<1> QED
  BY <1>1, <1>2, <1>3 DEF Environment

LEMMA TypedNext == Typed /\ [Next]_vars => Typed'
<1> SUFFICES ASSUME Typed, [Next]_vars
             PROVE  Typed'
  OBVIOUS
<1>1. CASE UNCHANGED vars
  BY <1>1 DEF vars, shared, inside, history, Typed, TypeOK, Shape
<1>2. CASE Next
  BY <1>2, TypedNextCaller, TypedNextActor DEF Next
<1> QED
  BY <1>1, <1>2

\* The type invariant of the supervisor.
THEOREM SupervisorTypeCorrect == Spec => []TypeOK
<1>1. Init => Typed
  BY TypedInit
<1>2. Typed /\ [Next]_vars => Typed'
  BY TypedNext
<1>3. Typed => TypeOK
  BY DEF Typed
<1> QED
  BY <1>1, <1>2, <1>3, PTL DEF Spec

-----------------------------------------------------------------------------
(***************************************************************************)
(* What the steps of a caller do.                                          *)
(***************************************************************************)

\* What a step that spawns no actor makes of the call.
Ends(c, k) == call[c].step # "register" /\ k.step = "idle"

Begins(c, k) ==
    /\ call[c].step = "idle" /\ k.name \in Name
    /\ k.step \in {"first_load", "load"}
    /\ conf.exclusive => Free(k.name)

GoesOn(c, k) ==
    /\ k.name = call[c].name
    /\ \/ call[c].step = "load" /\ k.step = "publish"
       \/ call[c].step = "publish" /\ k.step = "spawn"
       \/ call[c].step = "first_load" /\ k.step \in {"first_store", "supervise"}
       \/ call[c].step = "first_store" /\ k.step = "supervise"
       \/ call[c].step = "register" /\ k.step = "insert" /\ k.pid = call[c].pid

Asks(c, k) ==
    /\ call[c].step = "idle" /\ k.step = "whereis" /\ k.name \in Name
    /\ k.known = (k.name \in launched)
    /\ k.served = {p \in Of(k.name) : Serves(p) /\ Resolved(k.name) = p}

Answered(c, k) ==
    /\ k.name = call[c].name /\ k.known = call[c].known /\ k.served = call[c].served
    /\ \/ /\ call[c].step = "whereis"
          /\ \/ k.step = "actors" /\ registry[call[c].name] = None
             \/ k.step = "send" /\ k.pid = registry[call[c].name] /\ k.pid # None
       \/ /\ call[c].step = "actors"
          /\ \/ k.step = "not_found" /\ actors[call[c].name] = None
             \/ k.step = "send" /\ k.pid = actors[call[c].name]
       \/ /\ call[c].step = "send" /\ k.step = "unreachable"
          /\ call[c].pid \in Pid => ~ Alive(call[c].pid)

Quiet(c, k) ==
    /\ Becomes(c, k) /\ UNCHANGED <<conf, inside>>
    /\ Ends(c, k) \/ Begins(c, k) \/ GoesOn(c, k) \/ Asks(c, k) \/ Answered(c, k)

\* What a launch enters into the map.
Entry(c) == IF call[c].step = "insert" THEN call[c].pid ELSE Nobody

\* What it writes: the registry and the map at the end of a launch.
Enters(c, k) ==
    /\ \/ UNCHANGED <<registry, shadowed>> /\ (GoesOn(c, k) => k.step # "insert")
       \/ /\ call[c].step = "register" /\ k.step = "insert" /\ GoesOn(c, k)
          /\ registry' \in AfterRegister(call[c].name, call[c].pid)
          /\ Shadow(call[c].name, call[c].pid)
    /\ \/ UNCHANGED <<actors, launched>>
       \/ /\ call[c].step \in {"insert", "insert_nobody"} /\ Ends(c, k)
          /\ launched' = launched \cup {call[c].name}
          /\ actors' = [actors EXCEPT ![call[c].name] = Entry(c)]

\* The cache and the store.
Saves(c, k) ==
    /\ \/ cache' = cache /\ k.step # "spawn"
       \/ /\ call[c].step = "publish" /\ k.step = "spawn" /\ k.state = call[c].state
          /\ cache' = [cache EXCEPT ![call[c].name] = call[c].state]
    /\ \/ record' = record
       \/ call[c].step = "first_store" /\ record' = [record EXCEPT ![call[c].name] = Initial]
    /\ k.step = "supervise" /\ conf.persists => record'[k.name] # None

Simple(c) ==
    \/ StartLoad(c) \/ StartPublish(c) \/ StartRegister(c) \/ StartInsert(c)
    \/ FirstLoad(c) \/ FirstStore(c) \/ InsertNobody(c) \/ Whereis(c)
    \/ ReadActors(c) \/ Accept(c) \/ Refuse(c) \/ Return(c) \/ Cancel(c)
    \/ \E n \in conf.names :
          \/ \E supervised \in BOOLEAN : Launch(c, n, supervised)
          \/ Send(c, n)

LEMMA SimpleFacts ==
  ASSUME Typed, NEW c \in Client, Simple(c)
  PROVE  \E k \in Call : Quiet(c, k) /\ Enters(c, k) /\ Saves(c, k)
<1>a. TypeOK /\ Shape /\ call[c] \in Call /\ conf.names \subseteq Name
  BY SupervisorAssumption DEF Typed, TypeOK, Config
<1>b. call[c].step # "idle" => call[c].name \in Name
  BY <1>a DEF Shape
<1>c. /\ registry \in [Name -> Pid \cup {None}] /\ actors \in [Name -> Pid \cup {Nobody, None}]
      /\ record \in [Name -> State \cup {None}]
  BY <1>a DEF TypeOK
<1> USE DEF Ends, GoesOn
<1>1. CASE \E n \in conf.names, supervised \in BOOLEAN : Launch(c, n, supervised)
  <2>1. PICK n \in conf.names, supervised \in BOOLEAN : Launch(c, n, supervised)
    BY <1>1
  <2>2. PICK k \in Call :
          /\ Becomes(c, k) /\ k.name = n
          /\ k.step = IF supervised THEN "first_load" ELSE "load"
    BY <1>a, <2>1, LaunchFacts
  <2>3. /\ call[c].step = "idle" /\ (conf.exclusive => Free(n))
        /\ UNCHANGED <<conf, shared, inside, history>>
    BY <2>1 DEF Launch
  <2>4. Begins(c, k)
    BY <1>a, <2>2, <2>3 DEF Begins
  <2>5. Quiet(c, k)
    BY <2>2, <2>3, <2>4 DEF Quiet
  <2>6. k.step \in {"load", "first_load"}
    BY <2>2
  <2> QED
    BY <2>3, <2>5, <2>6 DEF Enters, Saves, shared, history
<1>2. CASE \E n \in conf.names : Send(c, n)
  <2>1. PICK n \in conf.names : Send(c, n)
    BY <1>2
  <2>2. PICK k \in Call :
          /\ Becomes(c, k) /\ k.step = "whereis" /\ k.name = n
          /\ k.known = (n \in launched) /\ k.served = {p \in Of(n) : Serves(p) /\ Resolved(n) = p}
    BY <1>a, <2>1, SendFacts
  <2>3. call[c].step = "idle" /\ UNCHANGED <<conf, shared, inside, history>>
    BY <2>1 DEF Send
  <2>4. Asks(c, k)
    BY <1>a, <2>2, <2>3 DEF Asks
  <2>5. Quiet(c, k)
    BY <2>2, <2>3, <2>4 DEF Quiet
  <2> QED
    BY <2>2, <2>3, <2>5 DEF Enters, Saves, shared, history
<1>3. CASE StartLoad(c)
  <2>1. PICK k \in Call :
          Becomes(c, k) /\ k.step = "publish" /\ k.name = call[c].name /\ k.state \in State
    BY <1>3, <1>a, <1>b, StartLoadFacts DEF StartLoad
  <2>2. Quiet(c, k) /\ Enters(c, k) /\ Saves(c, k)
    BY <1>3, <2>1 DEF StartLoad, Quiet, Enters, Saves, shared, history
  <2> QED
    BY <2>2
<1>4. ASSUME NEW s \in Step, Goto(c, s), UNCHANGED <<conf, inside, launched, actors>>,
             \/ call[c].step = "publish" /\ s = "spawn"
             \/ call[c].step = "first_load" /\ s \in {"first_store", "supervise"}
             \/ call[c].step = "first_store" /\ s = "supervise"
             \/ call[c].step = "register" /\ s = "insert",
             \/ UNCHANGED <<registry, shadowed>> /\ s # "insert"
             \/ /\ s = "insert" /\ registry' \in AfterRegister(call[c].name, call[c].pid)
                /\ Shadow(call[c].name, call[c].pid),
             \/ cache' = cache /\ s # "spawn"
             \/ s = "spawn" /\ cache' = [cache EXCEPT ![call[c].name] = call[c].state],
             \/ record' = record
             \/ call[c].step = "first_store" /\ record' = [record EXCEPT ![call[c].name] = Initial],
             s = "supervise" /\ conf.persists => record'[call[c].name] # None
      PROVE  \E k \in Call : Quiet(c, k) /\ Enters(c, k) /\ Saves(c, k)
  <2>1. PICK k \in Call :
          /\ Becomes(c, k) /\ k.step = s
          /\ k.name = call[c].name /\ k.pid = call[c].pid /\ k.state = call[c].state
    BY <1>4, <1>a, GotoFacts
  <2>2. GoesOn(c, k)
    BY <1>4, <2>1
  <2>3. Quiet(c, k)
    BY <1>4, <2>1, <2>2 DEF Quiet
  <2>4. Enters(c, k)
    BY <1>4, <2>1, <2>2 DEF Enters
  <2>5. Saves(c, k)
    BY <1>4, <2>1 DEF Saves
  <2> QED
    BY <2>3, <2>4, <2>5
<1>5. ASSUME Done(c), UNCHANGED <<conf, registry, cache, record, inside, shadowed>>,
             call[c].step # "register",
             \/ UNCHANGED <<actors, launched>>
             \/ /\ call[c].step \in {"insert", "insert_nobody"}
                /\ launched' = launched \cup {call[c].name}
                /\ actors' = [actors EXCEPT ![call[c].name] = Entry(c)]
      PROVE  \E k \in Call : Quiet(c, k) /\ Enters(c, k) /\ Saves(c, k)
  <2>1. Becomes(c, NoCall) /\ NoCall.step = "idle" /\ NoCall \in Call
    BY <1>5, NoCallFacts DEF Done, Becomes
  <2>2. Quiet(c, NoCall)
    BY <1>5, <2>1 DEF Quiet
  <2>3. Enters(c, NoCall)
    BY <1>5, <2>1 DEF Enters
  <2>4. Saves(c, NoCall)
    BY <1>5, <2>1 DEF Saves
  <2> QED
    BY <2>1, <2>2, <2>3, <2>4
<1>6. ASSUME NEW s \in Step, Goto(c, s), UNCHANGED <<conf, shared, inside, history>>,
             \/ call[c].step = "whereis" /\ s = "actors" /\ registry[call[c].name] = None
             \/ call[c].step = "actors" /\ s = "not_found" /\ actors[call[c].name] = None
             \/ /\ call[c].step = "send" /\ s = "unreachable"
                /\ call[c].pid \in Pid => ~ Alive(call[c].pid)
      PROVE  \E k \in Call : Quiet(c, k) /\ Enters(c, k) /\ Saves(c, k)
  <2>1. PICK k \in Call :
          /\ Becomes(c, k) /\ k.step = s
          /\ k.name = call[c].name /\ k.known = call[c].known /\ k.served = call[c].served
    BY <1>6, <1>a, GotoFacts
  <2>2. Answered(c, k)
    BY <1>6, <2>1 DEF Answered
  <2>3. Quiet(c, k)
    BY <1>6, <2>1, <2>2 DEF Quiet
  <2>4. Enters(c, k) /\ Saves(c, k)
    BY <1>6, <2>1 DEF Enters, Saves, shared, history
  <2> QED
    BY <2>3, <2>4
<1>7. ASSUME NEW p \in Pid \cup {Nobody, None}, SendTo(c, p),
             UNCHANGED <<conf, shared, inside, history>>,
             \/ call[c].step = "whereis" /\ p = registry[call[c].name] /\ p # None
             \/ call[c].step = "actors" /\ p = actors[call[c].name]
      PROVE  \E k \in Call : Quiet(c, k) /\ Enters(c, k) /\ Saves(c, k)
  <2>1. PICK k \in Call :
          /\ Becomes(c, k) /\ k.step = "send" /\ k.name = call[c].name /\ k.pid = p
          /\ k.known = call[c].known /\ k.served = call[c].served
    BY <1>7, <1>a, SendToFacts
  <2>2. Answered(c, k)
    BY <1>7, <2>1 DEF Answered
  <2>3. Quiet(c, k)
    BY <1>7, <2>1, <2>2 DEF Quiet
  <2>4. Enters(c, k) /\ Saves(c, k)
    BY <1>7, <2>1 DEF Enters, Saves, shared, history
  <2> QED
    BY <2>3, <2>4
<1> USE <1>a, <1>b, <1>c DEF Step, StartSteps, SpawnSteps, SendSteps, Refusal, shared, history
<1>8. CASE StartPublish(c)
  BY <1>4, <1>8 DEF StartPublish
<1>9. CASE StartRegister(c)
  BY <1>4, <1>9 DEF StartRegister
<1>10. CASE StartInsert(c)
  <2>1. call[c].pid \in Pid
    BY <1>10 DEF StartInsert, Shape
  <2> QED
    BY <1>5, <1>10, <2>1 DEF StartInsert, Entry
<1>11. CASE FirstLoad(c)
  BY <1>4, <1>11 DEF FirstLoad
<1>12. CASE FirstStore(c)
  BY <1>4, <1>12, SupervisorAssumption DEF FirstStore
<1>13. CASE InsertNobody(c)
  BY <1>5, <1>13 DEF InsertNobody, Entry
<1>14. CASE Whereis(c)
  BY <1>6, <1>7, <1>14 DEF Whereis
<1>15. CASE ReadActors(c)
  BY <1>6, <1>7, <1>15 DEF ReadActors
<1>16. CASE Accept(c)
  BY <1>5, <1>16 DEF Accept
<1>17. CASE Refuse(c)
  BY <1>6, <1>17 DEF Refuse
<1>18. CASE Return(c) \/ Cancel(c)
  BY <1>5, <1>18 DEF Return, Cancel
<1> QED
  BY <1>1, <1>2, <1>3, <1>8, <1>9, <1>10, <1>11, <1>12, <1>13, <1>14, <1>15,
     <1>16, <1>17, <1>18 DEF Simple

\* What a step that spawns one does.
Spawns(c, k, p) ==
    /\ Becomes(c, k) /\ k.name = call[c].name
    /\ UNCHANGED <<conf, shared, other, history>>
    /\ phase[p] = "unused" /\ fsm'[p].name = call[c].name
    /\ \A q \in Pid \ {p} : /\ phase'[q] = phase[q] /\ fsm'[q] = fsm[q]
                            /\ current'[q] = current[q]
    /\ \/ /\ call[c].step = "spawn" /\ k.step = "register" /\ k.pid = p
          /\ phase'[p] = "serving" /\ ~ fsm'[p].supervised /\ current'[p] = call[c].state
       \/ /\ call[c].step = "supervise" /\ k.step = "insert_nobody"
          /\ phase'[p] = "recover" /\ fsm'[p].supervised

LEMMA SpawnsFacts ==
  ASSUME Typed, NEW c \in Client, StartSpawn(c) \/ Supervise(c)
  PROVE  \E p \in Pid, k \in Call : Spawns(c, k, p)
<1>a. TypeOK /\ Shape
  BY DEF Typed
<1>1. CASE StartSpawn(c)
  <2>1. PICK p \in Pid, k \in Call :
          /\ Spawn(p, call[c].name, FALSE, call[c].state, "serving")
          /\ Becomes(c, k) /\ k.step = "register" /\ k.name = call[c].name /\ k.pid = p
    BY <1>1, <1>a, StartSpawnFacts
  <2>2. call[c].name \in Name /\ call[c].state \in State /\ "serving" \in Phase
    BY <1>1, <1>a DEF StartSpawn, Shape, Phase, Up
  <2>3. /\ phase[p] = "unused" /\ phase'[p] = "serving"
        /\ fsm'[p].name = call[c].name /\ fsm'[p].supervised = FALSE
        /\ current'[p] = call[c].state /\ other' = other
        /\ \A q \in Pid \ {p} : /\ phase'[q] = phase[q] /\ fsm'[q] = fsm[q]
                                /\ current'[q] = current[q]
    <3>1. PICK b \in BOOLEAN : b = FALSE
      OBVIOUS
    <3>2. Spawn(p, call[c].name, b, call[c].state, "serving")
      BY <2>1, <3>1
    <3> QED
      BY <1>a, <2>2, <3>1, <3>2, SpawnFacts
  <2> QED
    BY <1>1, <2>1, <2>3 DEF StartSpawn, Spawns
<1>2. CASE Supervise(c)
  <2>1. PICK p \in Pid : Spawn(p, call[c].name, TRUE, Initial, "recover")
    BY <1>2 DEF Supervise
  <2>2. PICK k \in Call : Becomes(c, k) /\ k.step = "insert_nobody" /\ k.name = call[c].name
    BY <1>2, <1>a, GotoFacts DEF Supervise, Step, SpawnSteps
  <2>3. call[c].name \in Name /\ Initial \in State /\ "recover" \in Phase
    BY <1>2, <1>a, SupervisorAssumption DEF Supervise, Shape, Phase, Starting
  <2>4. /\ phase[p] = "unused" /\ phase'[p] = "recover"
        /\ fsm'[p].name = call[c].name /\ fsm'[p].supervised = TRUE
        /\ other' = other
        /\ \A q \in Pid \ {p} : /\ phase'[q] = phase[q] /\ fsm'[q] = fsm[q]
                                /\ current'[q] = current[q]
    BY <1>a, <2>1, <2>3, SpawnFacts, Zenon
  <2> QED
    BY <1>2, <2>2, <2>4 DEF Supervise, Spawns
<1> QED
  BY <1>1, <1>2

\* The four kinds of step.
LEMMA Steps ==
  ASSUME Typed, Next
  PROVE  \/ \E c \in Client, k \in Call : Quiet(c, k) /\ Enters(c, k) /\ Saves(c, k)
         \/ \E c \in Client, k \in Call, p \in Pid : Spawns(c, k, p)
         \/ \E p \in Pid :
               \/ ActorStep(p) \/ Handle(p) \/ Panic(p) \/ GiveUp(p)
               \/ Restart(p)
               \/ Release(p)
<1>1. CASE \E c \in Client : Simple(c)
  BY <1>1, SimpleFacts
<1>2. CASE \E c \in Client : StartSpawn(c) \/ Supervise(c)
  BY <1>2, SpawnsFacts
<1>3. CASE \E p \in Pid : ActorStep(p) \/ Environment(p)
  BY <1>3 DEF Environment
<1>4. \/ \E c \in Client : Simple(c) \/ StartSpawn(c) \/ Supervise(c)
      \/ \E p \in Pid : ActorStep(p) \/ Environment(p)
  BY Zenon DEF Next, ClientStep, Simple
<1> QED
  BY <1>1, <1>2, <1>3, <1>4

-----------------------------------------------------------------------------
(***************************************************************************)
(* A name that has been launched is never said not to be there.            *)
(***************************************************************************)

Remembered ==
    /\ \A n \in launched : actors[n] # None
    /\ \A c \in Client :
          call[c].step \in SendSteps \cup Refusal /\ call[c].known => call[c].name \in launched
    /\ NotForgotten

LEMMA RememberedNext ==
  ASSUME Typed, Remembered, [Next]_vars
  PROVE  Remembered'
<1>a. TypeOK /\ launched \subseteq Name
  BY DEF Typed, TypeOK
<1>1. CASE UNCHANGED vars
  BY <1>1 DEF vars, shared, history, Remembered, NotForgotten
<1>2. ASSUME NEW c \in Client, NEW k \in Call, Quiet(c, k), Enters(c, k)
      PROVE  Remembered'
  <2>1. call'[c] = k /\ \A d \in Client \ {c} : call'[d] = call[d]
    BY <1>2, <1>a DEF Quiet, Becomes, TypeOK
  <2>2. launched \subseteq launched' /\ \A n \in launched' : actors'[n] # None
    <3>1. CASE UNCHANGED <<actors, launched>>
      BY <3>1 DEF Remembered
    <3>2. CASE /\ call[c].step \in {"insert", "insert_nobody"}
               /\ launched' = launched \cup {call[c].name}
               /\ actors' = [actors EXCEPT ![call[c].name] = Entry(c)]
      <4>1. Entry(c) # None /\ call[c].name \in Name
        BY <3>2, SupervisorAssumption DEF Entry, Typed, Shape
      <4> QED
        BY <3>2, <4>1, <1>a DEF Remembered, TypeOK
    <3> QED
      BY <1>2, <3>1, <3>2 DEF Enters
  <2>3. k.step \in SendSteps \cup Refusal /\ k.known => k.name \in launched
    BY <1>2 DEF Quiet, Ends, Begins, GoesOn, Asks, Answered, Remembered, SendSteps, Refusal
  <2>4. k.step = "not_found" => ~ k.known
    BY <1>2 DEF Quiet, Ends, Begins, GoesOn, Asks, Answered, Remembered, SendSteps, Refusal
  <2> QED
    BY <2>1, <2>2, <2>3, <2>4 DEF Remembered, NotForgotten
<1>3. ASSUME NEW c \in Client, NEW k \in Call, NEW p \in Pid, Spawns(c, k, p)
      PROVE  Remembered'
  <2>1. call'[c] = k /\ \A d \in Client \ {c} : call'[d] = call[d]
    BY <1>3, <1>a DEF Spawns, Becomes, TypeOK
  <2>2. k.step \notin SendSteps \cup Refusal /\ k.step # "not_found"
    BY <1>3 DEF Spawns, SendSteps, Refusal
  <2>3. UNCHANGED <<actors, history>>
    BY <1>3 DEF Spawns, shared
  <2> QED
    BY <2>1, <2>2, <2>3 DEF history, Remembered, NotForgotten
<1>4. ASSUME UNCHANGED <<call, actors, history>>
      PROVE  Remembered'
  BY <1>4 DEF history, Remembered, NotForgotten
<1>5. ASSUME NEW p \in Pid, ActorStep(p) \/ Environment(p)
      PROVE  UNCHANGED <<call, actors, history>>
  BY <1>5 DEF ActorStep, Environment, Recover, PublishRecovered, Unregister, Register,
     Store, Commit, Settle, Handle, Panic, Restart, GiveUp, Release, shared, inside
<1> QED
  BY <1>1, <1>2, <1>3, <1>4, <1>5, Steps DEF Environment

\* "not found" is never said of a name that has been launched.
THEOREM NotForgottenCorrect == Spec => []NotForgotten
<1>1. Init => Typed /\ Remembered
  BY TypedInit, NoCallFacts DEF Init, Remembered, NotForgotten, SendSteps, Refusal
<1>2. Typed /\ Remembered /\ [Next]_vars => (Typed /\ Remembered)'
  BY TypedNext, RememberedNext
<1>3. Remembered => NotForgotten
  BY DEF Remembered
<1> QED
  BY <1>1, <1>2, <1>3, PTL DEF Spec

-----------------------------------------------------------------------------
(***************************************************************************)
(* Who may take a name.                                                    *)
(***************************************************************************)

\* register leaves a taken name alone unless joerl replaces.
LEMMA AfterRegisterKeeps ==
  ASSUME TypeOK, NEW n \in Name, NEW p \in Pid, NEW r \in AfterRegister(n, p),
         ~ conf.replaces, NEW m \in Name, registry[m] # None
  PROVE  r[m] = registry[m]
BY DEF AfterRegister, TypeOK

\* A living actor keeps its name.
THEOREM NameKeptCorrect == Spec => NameKept
<1> DEFINE Kept == \A n \in Name, p \in Pid :
                     registry[n] = p /\ Alive(p) /\ registry'[n] # p =>
                       \/ conf.replaces
                       \/ \E q \in Of(n) : phase[q] = "unregister" /\ phase'[q] = "register"
<1>1. ASSUME Typed, Next
      PROVE  Kept
  <2> SUFFICES ASSUME NEW n \in Name, NEW p \in Pid,
                      registry[n] = p, Alive(p), registry'[n] # p, ~ conf.replaces
               PROVE  \E q \in Of(n) : phase[q] = "unregister" /\ phase'[q] = "register"
    OBVIOUS
  <2>a. TypeOK /\ Shape /\ registry[n] # None
    BY <1>1, SupervisorAssumption DEF Typed
  <2>1. ASSUME NEW c \in Client, NEW k \in Call, Quiet(c, k), Enters(c, k)
        PROVE  FALSE
    <3>1. call[c].step = "register" /\ registry' \in AfterRegister(call[c].name, call[c].pid)
      BY <2>1 DEF Enters
    <3>2. call[c].name \in Name /\ call[c].pid \in Pid
      BY <2>a, <3>1 DEF Shape
    <3> QED
      BY <2>a, <3>1, <3>2, AfterRegisterKeeps
  <2>2. ASSUME NEW c \in Client, NEW k \in Call, NEW q \in Pid, Spawns(c, k, q)
        PROVE  FALSE
    BY <2>2 DEF Spawns, shared
  <2>3. ASSUME NEW q \in Pid, ActorStep(q) \/ Handle(q) \/ Panic(q) \/ GiveUp(q)
        PROVE  q \in Of(n) /\ phase[q] = "unregister" /\ phase'[q] = "register"
    <3>1. PICK f \in Phase : Works(q, f)
      BY <1>1, <2>3, WorkFacts
    <3>2. fsm[q].name \in Name
      BY <2>a, <3>1 DEF Works, Shape
    <3>3. CASE phase[q] = "register" /\ registry' \in AfterRegister(fsm[q].name, q)
      BY <2>a, <3>2, <3>3, AfterRegisterKeeps
    <3>4. CASE /\ phase[q] = "unregister" /\ f = "register"
               /\ registry' = [registry EXCEPT ![fsm[q].name] = None]
      BY <2>a, <3>1, <3>2, <3>4 DEF Works, Of, TypeOK
    <3> QED
      BY <3>1, <3>3, <3>4 DEF Works
  <2>4. ASSUME NEW q \in Pid, Restart(q)
        PROVE  FALSE
    BY <2>4 DEF Restart, shared
  <2>5. ASSUME NEW q \in Pid, Release(q)
        PROVE  FALSE
    BY <2>5, <2>a DEF Release, Alive, Starting, Up
  <2> QED
    BY <1>1, <2>1, <2>2, <2>3, <2>4, <2>5, Steps
<1>2. ASSUME UNCHANGED vars
      PROVE  Kept
  BY <1>2 DEF vars, shared
<1>3. Typed /\ [Next]_vars => [Kept]_vars
  BY <1>1, <1>2
<1>4. Init => Typed
  BY TypedInit
<1> QED
  BY <1>3, <1>4, TypedNext, PTL DEF Spec, NameKept

-----------------------------------------------------------------------------
(***************************************************************************)
(* One actor and one launch of a name.                                     *)
(***************************************************************************)

Going(p) == phase[p] \notin {"unused", "dead"}

Launching(c) == call[c].step \in StartSteps \cup SpawnSteps

\* The launch has not spawned its actor; it has, and knows which it is.
Before(c) ==
    call[c].step \in {"load", "publish", "spawn", "first_load", "first_store", "supervise"}

Own(c) == call[c].step \in {"register", "insert"}

\* start_fsm spawns an actor that no supervisor restarts and enters it into
\* the map; `started` makes the steps of Starting only in a supervised one.
Kinds ==
    /\ \A c \in Client : Own(c) =>
          /\ fsm[call[c].pid].name = call[c].name /\ ~ fsm[call[c].pid].supervised
          /\ phase[call[c].pid] # "unused"
    /\ \A p \in Pid : phase[p] \in Starting \cup {"crashed"} => fsm[p].supervised
    /\ \A n \in Name, p \in Pid : actors[n] = p => ~ fsm[p].supervised /\ phase[p] # "unused"

\* What the callers' discipline gives.
Alone ==
    /\ \A p, q \in Pid : Going(p) /\ Going(q) /\ fsm[p].name = fsm[q].name => p = q
    /\ \A c, d \in Client :
          Launching(c) /\ Launching(d) /\ call[c].name = call[d].name => c = d
    /\ \A c \in Client, p \in Pid : Before(c) /\ fsm[p].name = call[c].name => ~ Going(p)
    /\ \A c \in Client, p \in Pid :
          Own(c) /\ fsm[p].name = call[c].name /\ Going(p) => p = call[c].pid
    /\ \A c \in Client, p \in Pid :
          /\ call[c].step = "insert_nobody" /\ fsm[p].name = call[c].name /\ Going(p)
          => fsm[p].supervised

LEMMA QuietKinds ==
  ASSUME Typed, Kinds, NEW c \in Client, NEW k \in Call, Quiet(c, k), Enters(c, k)
  PROVE  Kinds'
<1>1. call'[c] = k /\ \A d \in Client \ {c} : call'[d] = call[d]
  BY DEF Quiet, Becomes, Typed, TypeOK
<1>2. UNCHANGED <<fsm, phase>>
  BY DEF Quiet, inside
<1>3. k.step \in {"register", "insert"} =>
        call[c].step = "register" /\ k.name = call[c].name /\ k.pid = call[c].pid
  BY DEF Quiet, Ends, Begins, GoesOn, Asks, Answered
<1>4. ASSUME NEW n \in Name, NEW p \in Pid, actors'[n] = p
      PROVE  ~ fsm[p].supervised /\ phase[p] # "unused"
  <2>1. CASE actors' = actors
    BY <1>4, <2>1 DEF Kinds
  <2>2. CASE /\ call[c].step \in {"insert", "insert_nobody"}
             /\ actors' = [actors EXCEPT ![call[c].name] = Entry(c)]
    <3>1. call[c].name \in Name /\ actors \in [Name -> Pid \cup {Nobody, None}]
      BY <2>2 DEF Typed, TypeOK, Shape
    <3>2. CASE n # call[c].name
      BY <1>4, <2>2, <3>1, <3>2 DEF Kinds
    <3>3. CASE n = call[c].name
      <4>1. Entry(c) = p
        BY <1>4, <2>2, <3>1, <3>3
      <4>2. call[c].step = "insert" /\ call[c].pid = p
        BY <4>1, SupervisorAssumption DEF Entry
      <4> QED
        BY <4>2 DEF Kinds, Own
    <3> QED
      BY <3>2, <3>3
  <2> QED
    BY <2>1, <2>2 DEF Enters
<1> QED
  BY <1>1, <1>2, <1>3, <1>4 DEF Kinds, Own

LEMMA SpawnsKinds ==
  ASSUME Typed, Kinds, NEW c \in Client, NEW k \in Call, NEW p \in Pid, Spawns(c, k, p)
  PROVE  Kinds'
<1>1. call'[c] = k /\ \A d \in Client \ {c} : call'[d] = call[d]
  BY DEF Spawns, Becomes, Typed, TypeOK
<1>2. \A d \in Client \ {c} : Own(d) => call[d].pid \in Pid /\ call[d].pid # p
  BY DEF Spawns, Kinds, Own, Typed, Shape
<1>3. actors' = actors /\ \A n \in Name : actors[n] # p
  BY DEF Spawns, shared, Kinds
<1>4. (\A n \in Name, q \in Pid : actors[n] = q => ~ fsm[q].supervised /\ phase[q] # "unused")'
  BY <1>3 DEF Spawns, Kinds
<1>5. (\A d \in Client : Own(d) =>
          /\ fsm[call[d].pid].name = call[d].name /\ ~ fsm[call[d].pid].supervised
          /\ phase[call[d].pid] # "unused")'
  BY <1>1, <1>2 DEF Spawns, Kinds, Own
<1>6. (\A q \in Pid : phase[q] \in Starting \cup {"crashed"} => fsm[q].supervised)'
  BY DEF Spawns, Kinds, Starting
<1> QED
  BY <1>4, <1>5, <1>6 DEF Kinds

LEMMA WorksKinds ==
  ASSUME Typed, Kinds, NEW p \in Pid, NEW f \in Phase, Works(p, f)
  PROVE  Kinds'
<1>1. /\ phase'[p] = f /\ \A q \in Pid \ {p} : phase'[q] = phase[q]
      /\ UNCHANGED <<fsm, call, actors>> /\ f # "unused"
      /\ f \in Starting \cup {"crashed"} => fsm[p].supervised
  BY DEF Works, Typed, TypeOK, Kinds
<1>2. \A d \in Client : Own(d) => call[d].pid \in Pid
  BY DEF Own, Typed, Shape
<1> QED
  BY <1>1, <1>2 DEF Kinds, Own

LEMMA RestartKinds ==
  ASSUME Typed, Kinds, NEW p \in Pid, Restart(p)
  PROVE  Kinds'
<1>1. PICK q \in Pid :
         /\ phase[p] = "crashed" /\ phase[q] = "unused" /\ q # p
         /\ phase'[p] = "dead" /\ phase'[q] = "recover" /\ fsm'[q] = fsm[p]
         /\ \A r \in Pid \ {q} : fsm'[r] = fsm[r]
         /\ \A r \in Pid \ {p, q} : phase'[r] = phase[r]
         /\ UNCHANGED <<call, actors>>
  BY RestartFacts DEF shared
<1>2. /\ \A d \in Client : Own(d) => call[d].pid \in Pid /\ call[d].pid # q
      /\ \A n \in Name : actors[n] # q
  BY <1>1 DEF Kinds, Own, Typed, Shape
<1>3. fsm[p].supervised
  BY <1>1 DEF Kinds
<1> QED
  BY <1>1, <1>2, <1>3 DEF Kinds, Own, Starting

LEMMA KindsNext ==
  ASSUME Typed, Kinds, [Next]_vars
  PROVE  Kinds'
<1>1. ASSUME UNCHANGED <<fsm, phase, call, actors>>
      PROVE  Kinds'
  BY <1>1 DEF Kinds, Own
<1>2. CASE UNCHANGED vars
  BY <1>1, <1>2 DEF vars, inside, shared
<1>3. ASSUME NEW p \in Pid, Release(p)
      PROVE  Kinds'
  BY <1>1, <1>3 DEF Release, inside
<1> QED
  BY <1>2, <1>3, Steps, QuietKinds, SpawnsKinds, WorkFacts, WorksKinds, RestartKinds

LEMMA QuietAlone ==
  ASSUME Typed, Alone, conf.exclusive, NEW c \in Client, NEW k \in Call, Quiet(c, k)
  PROVE  Alone'
<1>1. call'[c] = k /\ \A d \in Client \ {c} : call'[d] = call[d]
  BY DEF Quiet, Becomes, Typed, TypeOK
<1>2. UNCHANGED <<fsm, phase>>
  BY DEF Quiet, inside
<1>3. \A p \in Pid : Going(p)' = Going(p)
  BY <1>2 DEF Going
<1>4. CASE Begins(c, k)
  <2>1. /\ \A d \in Client : call[d].name = k.name => ~ Launching(d)
        /\ \A p \in Pid : fsm[p].name = k.name => ~ Going(p)
    BY <1>4 DEF Begins, Free, Launching, Of, Going
  <2>2. k.step \in {"load", "first_load"}
    BY <1>4 DEF Begins
  <2> QED
    BY <1>1, <1>2, <1>3, <2>1, <2>2 DEF Alone, Launching, Before, Own
<1>5. CASE GoesOn(c, k)
  BY <1>1, <1>2, <1>3, <1>5
     DEF GoesOn, Alone, Launching, Before, Own, StartSteps, SpawnSteps
<1>6. CASE Ends(c, k) \/ Asks(c, k) \/ Answered(c, k)
  <2>1. k.step \notin StartSteps \cup SpawnSteps
    BY <1>6 DEF Ends, Asks, Answered, StartSteps, SpawnSteps
  <2> QED
    BY <1>1, <1>2, <1>3, <2>1 DEF Alone, Launching, Before, Own, StartSteps, SpawnSteps
<1> QED
  BY <1>4, <1>5, <1>6 DEF Quiet

LEMMA SpawnsAlone ==
  ASSUME Typed, Alone, NEW c \in Client, NEW k \in Call, NEW p \in Pid, Spawns(c, k, p)
  PROVE  Alone'
<1>1. call'[c] = k /\ \A d \in Client \ {c} : call'[d] = call[d]
  BY DEF Spawns, Becomes, Typed, TypeOK
<1>2. /\ \A q \in Pid \ {p} : Going(q)' = Going(q) /\ fsm'[q] = fsm[q]
      /\ fsm'[p].name = call[c].name /\ k.name = call[c].name
  BY DEF Spawns, Going
<1>3. /\ Launching(c) /\ Before(c)
      /\ k.step \in {"register", "insert_nobody"} /\ (k.step = "register" => k.pid = p)
  BY DEF Spawns, Launching, Before, StartSteps, SpawnSteps
<1>4. \A d \in Client \ {c} : call[d].name = call[c].name => ~ Launching(d)
  BY <1>3 DEF Alone
<1>5. \A d \in Client \ {c} : /\ Launching(d)' = Launching(d) /\ Before(d)' = Before(d)
                              /\ Own(d)' = Own(d)
                              /\ Before(d) \/ Own(d) => Launching(d)
  BY <1>1 DEF Launching, Before, Own, StartSteps, SpawnSteps
<1>6. ~ Before(c)' /\ (Own(c)' => k.step = "register")
  BY <1>1, <1>3 DEF Before, Own
<1>7. (\A q, r \in Pid : Going(q) /\ Going(r) /\ fsm[q].name = fsm[r].name => q = r)'
  BY <1>2, <1>3 DEF Alone
<1>8. (\A d, e \in Client : Launching(d) /\ Launching(e) /\ call[d].name = call[e].name => d = e)'
  BY <1>1, <1>2, <1>4, <1>5 DEF Alone
<1>9. (\A d \in Client, q \in Pid : Before(d) /\ fsm[q].name = call[d].name => ~ Going(q))'
  BY <1>1, <1>2, <1>4, <1>5, <1>6 DEF Alone
<1>10. (\A d \in Client, q \in Pid :
          Own(d) /\ fsm[q].name = call[d].name /\ Going(q) => q = call[d].pid)'
  BY <1>1, <1>2, <1>3, <1>4, <1>5, <1>6 DEF Alone
<1>11. (\A d \in Client, q \in Pid :
          /\ call[d].step = "insert_nobody" /\ fsm[q].name = call[d].name /\ Going(q)
          => fsm[q].supervised)'
  <2> SUFFICES ASSUME NEW d \in Client, NEW q \in Pid, call'[d].step = "insert_nobody",
                      fsm'[q].name = call'[d].name, Going(q)'
               PROVE  fsm'[q].supervised
    OBVIOUS
  <2>1. CASE d = c
    <3>1. q = p
      BY <1>1, <1>2, <1>3, <2>1 DEF Alone
    <3> QED
      BY <1>1, <2>1, <3>1 DEF Spawns
  <2>2. CASE d # c
    <3>1. Launching(d) /\ call'[d] = call[d]
      BY <1>1, <2>2 DEF Launching, SpawnSteps
    <3>2. q # p
      BY <1>2, <1>4, <2>2, <3>1
    <3> QED
      BY <1>2, <3>1, <3>2 DEF Alone
  <2> QED
    BY <2>1, <2>2
<1> QED
  BY <1>7, <1>8, <1>9, <1>10, <1>11 DEF Alone

LEMMA WorksAlone ==
  ASSUME Typed, Alone, NEW p \in Pid, NEW f \in Phase, Works(p, f)
  PROVE  Alone'
<1>1. /\ Going(p) /\ \A q \in Pid : Going(q)' => Going(q)
      /\ UNCHANGED <<fsm, call>>
  BY DEF Works, Going, Typed, TypeOK
<1> QED
  BY <1>1 DEF Alone, Launching, Before, Own

LEMMA RestartAlone ==
  ASSUME Typed, Kinds, Alone, NEW p \in Pid, Restart(p)
  PROVE  Alone'
<1>1. PICK q \in Pid :
         /\ phase[p] = "crashed" /\ phase[q] = "unused" /\ q # p
         /\ phase'[p] = "dead" /\ phase'[q] = "recover" /\ fsm'[q] = fsm[p]
         /\ \A r \in Pid \ {q} : fsm'[r] = fsm[r]
         /\ \A r \in Pid \ {p, q} : phase'[r] = phase[r]
         /\ call' = call
  BY RestartFacts
<1>2. /\ Going(p) /\ ~ Going(p)' /\ Going(q)' /\ fsm'[p] = fsm[p]
      /\ \A r \in Pid \ {p, q} : Going(r)' = Going(r) /\ fsm'[r] = fsm[r]
  BY <1>1 DEF Going
<1>3. \A c \in Client : Own(c) => call[c].name # fsm[p].name
  BY <1>1, <1>2 DEF Kinds, Alone
<1>4. \A c \in Client : Before(c) => call[c].name # fsm[p].name
  BY <1>2 DEF Alone
<1>5. \A c \in Client : /\ Launching(c)' = Launching(c) /\ Before(c)' = Before(c)
                        /\ Own(c)' = Own(c) /\ call'[c] = call[c]
  BY <1>1 DEF Launching, Before, Own
<1>6. (\A r, s \in Pid : Going(r) /\ Going(s) /\ fsm[r].name = fsm[s].name => r = s)'
  BY <1>1, <1>2 DEF Alone
<1>7. (\A c, d \in Client : Launching(c) /\ Launching(d) /\ call[c].name = call[d].name => c = d)'
  BY <1>5 DEF Alone
<1>8. (\A c \in Client, r \in Pid : Before(c) /\ fsm[r].name = call[c].name => ~ Going(r))'
  BY <1>1, <1>2, <1>4, <1>5 DEF Alone
<1>9. (\A c \in Client, r \in Pid :
          Own(c) /\ fsm[r].name = call[c].name /\ Going(r) => r = call[c].pid)'
  BY <1>1, <1>2, <1>3, <1>5 DEF Alone
<1>10. (\A c \in Client, r \in Pid :
          /\ call[c].step = "insert_nobody" /\ fsm[r].name = call[c].name /\ Going(r)
          => fsm[r].supervised)'
  <2>1. fsm[p].supervised
    BY <1>1 DEF Kinds
  <2> QED
    BY <1>1, <1>2, <1>5, <2>1 DEF Alone
<1> QED
  BY <1>6, <1>7, <1>8, <1>9, <1>10 DEF Alone

LEMMA AloneNext ==
  ASSUME Typed, Kinds, Alone, conf.exclusive, [Next]_vars
  PROVE  Alone'
<1>1. ASSUME UNCHANGED <<fsm, phase, call>>
      PROVE  Alone'
  BY <1>1 DEF Alone, Going, Launching, Before, Own
<1>2. CASE UNCHANGED vars
  BY <1>1, <1>2 DEF vars, inside
<1>3. ASSUME NEW p \in Pid, Release(p)
      PROVE  Alone'
  BY <1>1, <1>3 DEF Release, inside
<1> QED
  BY <1>2, <1>3, Steps, QuietAlone, SpawnsAlone, WorkFacts, WorksAlone, RestartAlone

-----------------------------------------------------------------------------
(***************************************************************************)
(* Who has a name.                                                         *)
(***************************************************************************)

\* An actor that serves has its name, or is behind an entry that joerl had
\* when start_fsm registered it and does not replace.
HasName(p) ==
    \/ registry[fsm[p].name] = p
    \/ p \in shadowed /\ ~ fsm[p].supervised /\ ~ conf.replaces

Held ==
    /\ \A p \in Pid : Serves(p) => HasName(p)
    /\ \A p \in Pid : phase[p] = "register" => registry[fsm[p].name] = None

LEMMA AfterRegisterFree ==
  ASSUME TypeOK, NEW n \in Name, NEW p \in Pid, NEW r \in AfterRegister(n, p)
  PROVE  /\ \A m \in Name \ {n} : r[m] = registry[m]
         /\ Alive(p) /\ (registry[n] = None \/ conf.replaces) => r[n] = p
BY DEF AfterRegister, TypeOK

\* Who serves is known from the call that its launch is still making.
LEMMA QuietServes ==
  ASSUME Typed, NEW c \in Client, NEW k \in Call, Quiet(c, k), NEW p \in Pid
  PROVE  /\ Serves(p) => Serves(p)'
         /\ Serves(p)' => \/ Serves(p)
                          \/ /\ call[c].step = "register" /\ GoesOn(c, k)
                             /\ call[c].pid = p
<1>1. call'[c] = k /\ \A d \in Client \ {c} : call'[d] = call[d]
  BY DEF Quiet, Becomes, Typed, TypeOK
<1>2. phase' = phase /\ k.step # "register"
  BY DEF Quiet, inside, Ends, Begins, GoesOn, Asks, Answered
<1>3. call[c].step = "register" => GoesOn(c, k)
  BY DEF Quiet, Ends, Begins, Asks, Answered
<1> QED
  BY <1>1, <1>2, <1>3 DEF Serves

LEMMA QuietHeld ==
  ASSUME Typed, Kinds, Alone, Held, conf.exclusive,
         NEW c \in Client, NEW k \in Call, Quiet(c, k), Enters(c, k)
  PROVE  Held'
<1>a. TypeOK /\ Shape
  BY DEF Typed
<1>2. UNCHANGED <<conf, fsm, phase>>
  BY DEF Quiet, inside
<1>3. CASE UNCHANGED <<registry, shadowed>> /\ (GoesOn(c, k) => k.step # "insert")
  <2>1. \A p \in Pid : Serves(p)' => Serves(p)
    BY <1>3, QuietServes DEF GoesOn
  <2> QED
    BY <1>2, <1>3, <2>1 DEF Held, HasName
<1>4. CASE /\ call[c].step = "register" /\ k.step = "insert" /\ GoesOn(c, k)
           /\ registry' \in AfterRegister(call[c].name, call[c].pid)
           /\ Shadow(call[c].name, call[c].pid)
  <2> DEFINE n == call[c].name
             p == call[c].pid
  <2>1. n \in Name /\ p \in Pid
    BY <1>4, <1>a DEF Shape
  <2>2. /\ \A m \in Name \ {n} : registry'[m] = registry[m]
        /\ Alive(p) /\ (registry[n] = None \/ conf.replaces) => registry'[n] = p
        /\ shadowed \subseteq shadowed'
        /\ registry[n] # None => p \in shadowed'
    BY <1>4, <1>a, <2>1, AfterRegisterFree DEF Shadow
  <2>3. fsm[p].name = n /\ ~ fsm[p].supervised
    BY <1>4 DEF Kinds, Own
  <2>4. \A q \in Pid : Going(q) /\ fsm[q].name = n => q = p
    BY <1>4 DEF Alone, Own
  <2>7. ASSUME NEW q \in Pid, Serves(q)'
        PROVE  HasName(q)'
    <3>1. phase[q] \in Up /\ Going(q) /\ Alive(q) /\ fsm[q].name \in Name
      BY <1>2, <1>a, <2>7 DEF Serves, Going, Up, Alive, Shape
    <3>2. CASE q = p
      BY <1>2, <2>2, <2>3, <3>1, <3>2 DEF HasName
    <3>3. CASE q # p
      <4>1. HasName(q)
        BY <2>7, <3>3, QuietServes DEF Held
      <4> QED
        BY <1>2, <2>2, <2>4, <3>1, <3>3, <4>1 DEF HasName
    <3> QED
      BY <3>2, <3>3
  <2>8. ASSUME NEW q \in Pid, phase'[q] = "register"
        PROVE  registry'[fsm'[q].name] = None
    <3>1. Going(q) /\ fsm[q].supervised /\ fsm[q].name \in Name
      BY <1>2, <1>a, <2>8 DEF Kinds, Going, Starting, Shape
    <3>2. fsm[q].name # n
      BY <2>3, <2>4, <3>1
    <3> QED
      BY <1>2, <2>2, <2>8, <3>1, <3>2 DEF Held
  <2> QED
    BY <2>7, <2>8 DEF Held
<1> QED
  BY <1>3, <1>4 DEF Enters

LEMMA SpawnsHeld ==
  ASSUME Typed, Kinds, Held, NEW c \in Client, NEW k \in Call, NEW p \in Pid, Spawns(c, k, p)
  PROVE  Held'
<1>1. call'[c] = k /\ \A d \in Client \ {c} : call'[d] = call[d]
  BY DEF Spawns, Becomes, Typed, TypeOK
<1>2. UNCHANGED <<conf, registry, shadowed>>
  BY DEF Spawns, shared, history
<1>4. ASSUME NEW q \in Pid, Serves(q)'
      PROVE  q # p /\ Serves(q)
  <2>1. q # p
    BY <1>1, <1>4 DEF Spawns, Serves, Up
  <2>2. phase[q] \in Up
    BY <1>4, <2>1 DEF Spawns, Serves
  <2>3. call[c].step # "register"
    BY DEF Spawns
  <2> QED
    BY <1>1, <1>4, <2>1, <2>2, <2>3 DEF Serves
<1>5. \A q \in Pid : phase'[q] = "register" => q # p /\ phase[q] = "register"
  BY DEF Spawns
<1>6. \A q \in Pid \ {p} : fsm'[q] = fsm[q]
  BY DEF Spawns
<1> QED
  BY <1>2, <1>4, <1>5, <1>6 DEF Held, HasName

LEMMA WorksHeld ==
  ASSUME Typed, Kinds, Alone, Held, NEW p \in Pid, NEW f \in Phase, Works(p, f)
  PROVE  Held'
<1> DEFINE n == fsm[p].name
<1>a. TypeOK /\ Shape /\ Going(p) /\ n \in Name
  BY DEF Typed, Works, Going, Shape
<1>1. /\ phase'[p] = f /\ \A q \in Pid \ {p} : phase'[q] = phase[q]
      /\ UNCHANGED <<conf, fsm, call, shadowed>>
  BY <1>a DEF Works, TypeOK, history
<1>2. CASE registry' = registry /\ f # "register" /\ (f \in Up => phase[p] \in Up)
  <2>1. \A q \in Pid : Serves(q)' => Serves(q)
    BY <1>1, <1>2 DEF Serves
  <2> QED
    BY <1>1, <1>2, <2>1 DEF Held, HasName
<1>3. ASSUME phase[p] \in Starting, \A m \in Name \ {n} : registry'[m] = registry[m],
             \/ f = "register" /\ registry'[n] = None
             \/ f = "serving" /\ registry'[n] = p
      PROVE  Held'
  <2>2. \A q \in Pid : Going(q) /\ fsm[q].name = n => q = p
    BY <1>a DEF Alone
  <2>4. ASSUME NEW q \in Pid, Serves(q)'
        PROVE  HasName(q)'
    <3>1. CASE q = p
      BY <1>1, <1>3, <2>4, <3>1 DEF Serves, Up, HasName
    <3>2. CASE q # p
      <4>1. Serves(q) /\ Going(q) /\ fsm[q].name \in Name
        BY <1>1, <1>a, <2>4, <3>2 DEF Serves, Going, Up, Shape
      <4> QED
        BY <1>1, <1>3, <2>2, <3>2, <4>1 DEF Held, HasName
    <3> QED
      BY <3>1, <3>2
  <2>5. ASSUME NEW q \in Pid, phase'[q] = "register"
        PROVE  registry'[fsm'[q].name] = None
    <3>1. CASE q = p
      BY <1>1, <1>3, <2>5, <3>1
    <3>2. CASE q # p
      <4>1. phase[q] = "register" /\ Going(q) /\ fsm[q].name \in Name
        BY <1>1, <1>a, <2>5, <3>2 DEF Going, Shape
      <4> QED
        BY <1>1, <1>3, <2>2, <3>2, <4>1 DEF Held
    <3> QED
      BY <3>1, <3>2
  <2> QED
    BY <2>4, <2>5 DEF Held
<1>4. CASE /\ phase[p] = "unregister" /\ f = "register"
           /\ registry' = [registry EXCEPT ![fsm[p].name] = None]
  <2>1. registry'[n] = None /\ \A m \in Name \ {n} : registry'[m] = registry[m]
    BY <1>4, <1>a DEF TypeOK
  <2>2. phase[p] \in Starting
    BY <1>4 DEF Starting
  <2> QED
    BY <1>3, <1>4, <2>1, <2>2
<1>5. CASE /\ phase[p] = "register" /\ f = "serving"
           /\ registry' \in AfterRegister(fsm[p].name, p)
  <2>1. registry[n] = None /\ Alive(p) /\ phase[p] \in Starting
    BY <1>5 DEF Held, Alive, Starting
  <2> QED
    BY <1>3, <1>5, <1>a, <2>1, AfterRegisterFree
<1> QED
  BY <1>2, <1>4, <1>5 DEF Works

LEMMA RestartHeld ==
  ASSUME Typed, Held, NEW p \in Pid, Restart(p)
  PROVE  Held'
<1>1. PICK q \in Pid :
         /\ phase[q] = "unused" /\ q # p
         /\ phase'[p] = "dead" /\ phase'[q] = "recover"
         /\ \A r \in Pid \ {q} : fsm'[r] = fsm[r]
         /\ \A r \in Pid \ {p, q} : phase'[r] = phase[r]
         /\ UNCHANGED <<conf, call, registry, shadowed>>
  BY RestartFacts DEF shared, history
<1>2. \A r \in Pid : Serves(r)' => r # q /\ Serves(r)
  BY <1>1 DEF Serves, Up
<1> QED
  BY <1>1, <1>2 DEF Held, HasName

LEMMA ReleaseHeld ==
  ASSUME Typed, Held, NEW p \in Pid, Release(p)
  PROVE  Held'
<1>1. /\ registry' = [n \in Name |-> IF registry[n] = p THEN None ELSE registry[n]]
      /\ UNCHANGED <<conf, fsm, phase, call, shadowed>> /\ phase[p] \in {"crashed", "dead"}
  BY DEF Release, inside, history
<1>3. \A q \in Pid : phase[q] # "unused" => fsm[q].name \in Name
  BY DEF Typed, Shape
<1>4. \A q \in Pid : Serves(q)' => Serves(q) /\ q # p /\ fsm[q].name \in Name
  BY <1>1, <1>3 DEF Serves, Up
<1> QED
  BY <1>1, <1>3, <1>4, SupervisorAssumption DEF Held, HasName

LEMMA HeldNext ==
  ASSUME Typed, Kinds, Alone, Held, conf.exclusive, [Next]_vars
  PROVE  Held'
<1>1. CASE UNCHANGED vars
  BY <1>1 DEF vars, shared, inside, history, Held, HasName, Serves
<1> QED
  BY <1>1, Steps, QuietHeld, SpawnsHeld, WorkFacts, WorksHeld, RestartHeld, ReleaseHeld

-----------------------------------------------------------------------------
(***************************************************************************)
(* What a sender knows of the actor that the name led to when it began.    *)
(***************************************************************************)

Leads(p) == Resolved(fsm[p].name) = p

Followed ==
    \A c \in Client : call[c].step \in SendSteps \cup Refusal =>
        \A p \in call[c].served :
            /\ fsm[p].name = call[c].name /\ phase[p] # "unused"
            /\ Alive(p) => Serves(p) /\ Leads(p)
            /\ call[c].step = "actors" /\ Alive(p) => registry[call[c].name] = None
            /\ call[c].step \in Refusal => ~ Alive(p)
            /\ call[c].step = "send" /\ Alive(p) => call[c].pid = p

\* What keeps a sender's knowledge of p true.
Stays(p) ==
    /\ phase'[p] # "unused" /\ fsm'[p] = fsm[p]
    /\ Alive(p)' => Alive(p)
    /\ Serves(p) /\ Alive(p)' => Serves(p)'
    /\ Serves(p) /\ Leads(p) /\ Alive(p)' =>
          /\ Leads(p)'
          /\ registry[fsm[p].name] = None => registry'[fsm[p].name] = None

\* While an actor serves nobody else takes its name, in the registry or in the
\* map.
LEMMA QuietStays ==
  ASSUME Typed, Kinds, Alone, NEW c \in Client, NEW k \in Call, Quiet(c, k), Enters(c, k),
         NEW p \in Pid, phase[p] # "unused"
  PROVE  Stays(p)
<1> DEFINE n == fsm[p].name
<1>a. TypeOK /\ Shape /\ n \in Name
  BY DEF Typed, Shape
<1>1. UNCHANGED <<fsm, phase>> /\ Alive(p)' = Alive(p) /\ (Serves(p) => Serves(p)')
  BY QuietServes DEF Quiet, inside, Alive
<1>2. ASSUME Serves(p), Leads(p)
      PROVE  registry'[n] = registry[n] /\ (actors[n] = p => actors'[n] = p)
  <2>1. Going(p) /\ phase[p] \in Up
    BY <1>2 DEF Serves, Going, Up
  <2>2. registry'[n] = registry[n]
    <3>1. CASE registry' = registry
      BY <3>1
    <3>2. CASE call[c].step = "register" /\ registry' \in AfterRegister(call[c].name, call[c].pid)
      <4>1. call[c].name \in Name /\ call[c].pid \in Pid /\ call[c].pid # p
        BY <1>a, <1>2, <3>2 DEF Shape, Serves
      <4>2. call[c].name # n
        BY <2>1, <3>2, <4>1 DEF Alone, Own
      <4> QED
        BY <1>a, <3>2, <4>1, <4>2, AfterRegisterFree
    <3> QED
      BY <3>1, <3>2 DEF Enters
  <2>3. ASSUME actors[n] = p
        PROVE  actors'[n] = p
    <3>1. CASE actors' = actors
      BY <2>3, <3>1
    <3>2. CASE /\ call[c].step \in {"insert", "insert_nobody"}
               /\ actors' = [actors EXCEPT ![call[c].name] = Entry(c)]
      <4>1. CASE call[c].name # n
        BY <2>3, <3>2, <4>1, <1>a DEF TypeOK
      <4>2. CASE call[c].name = n
        <5>1. ~ fsm[p].supervised
          BY <1>a, <2>3 DEF Kinds
        <5>2. call[c].step = "insert"
          BY <2>1, <3>2, <4>2, <5>1 DEF Alone
        <5>3. call[c].pid = p
          BY <2>1, <4>2, <5>2 DEF Alone, Own
        <5> QED
          BY <1>a, <3>2, <4>2, <5>2, <5>3 DEF TypeOK, Entry
      <4> QED
        BY <4>1, <4>2
    <3> QED
      BY <3>1, <3>2 DEF Enters
  <2> QED
    BY <2>2, <2>3
<1> QED
  BY <1>1, <1>2 DEF Stays, Leads, Resolved

LEMMA WorksStays ==
  ASSUME Typed, Alone, NEW q \in Pid, NEW f \in Phase, Works(q, f),
         NEW p \in Pid, phase[p] # "unused"
  PROVE  Stays(p)
<1> DEFINE n == fsm[p].name
<1>a. TypeOK /\ Shape /\ n \in Name
  BY DEF Typed, Shape
<1>1. /\ phase'[q] = f /\ (p # q => phase'[p] = phase[p])
      /\ UNCHANGED <<fsm, call, actors>> /\ f # "unused"
  BY <1>a DEF Works, TypeOK
<1>2. f \in Starting => phase[q] \in Starting
  BY DEF Works
<1>3. f \in Up => phase[q] \in Up \cup Starting
  BY DEF Works, Starting, Up
<1>4. /\ phase'[p] # "unused" /\ fsm'[p] = fsm[p]
      /\ Alive(p)' => Alive(p)
      /\ Serves(p) /\ Alive(p)' => Serves(p)'
  BY <1>1, <1>2, <1>3 DEF Alive, Serves, Starting, Up
<1>5. ASSUME Serves(p)
      PROVE  registry'[n] = registry[n]
  <2>1. phase[p] \notin {"unregister", "register"} /\ Going(p) /\ Going(q)
    BY <1>5 DEF Serves, Up, Going, Works
  <2>2. fsm[q].name = n => q = p
    BY <2>1 DEF Alone
  <2>3. fsm[q].name \in Name
    BY <1>a, <2>1 DEF Going, Shape
  <2>4. CASE registry' = registry
    BY <2>4
  <2>5. CASE /\ phase[q] = "unregister"
             /\ registry' = [registry EXCEPT ![fsm[q].name] = None]
    BY <1>a, <2>1, <2>2, <2>5 DEF TypeOK
  <2>6. CASE phase[q] = "register" /\ registry' \in AfterRegister(fsm[q].name, q)
    BY <1>a, <2>1, <2>2, <2>3, <2>6, AfterRegisterFree
  <2> QED
    BY <2>4, <2>5, <2>6 DEF Works
<1> QED
  BY <1>1, <1>4, <1>5 DEF Stays, Leads, Resolved

LEMMA SpawnsStays ==
  ASSUME Typed, NEW c \in Client, NEW k \in Call, NEW q \in Pid, Spawns(c, k, q),
         NEW p \in Pid, phase[p] # "unused"
  PROVE  Stays(p)
<1>1. call'[c] = k /\ \A d \in Client \ {c} : call'[d] = call[d]
  BY DEF Spawns, Becomes, Typed, TypeOK
<1>2. p # q /\ phase'[p] = phase[p] /\ fsm'[p] = fsm[p] /\ UNCHANGED <<registry, actors>>
  BY DEF Spawns, shared
<1>3. k.step = "register" => k.pid # p
  BY <1>2 DEF Spawns
<1> QED
  BY <1>1, <1>2, <1>3 DEF Stays, Leads, Resolved, Alive, Serves

LEMMA RestartStays ==
  ASSUME Typed, NEW q \in Pid, Restart(q), NEW p \in Pid, phase[p] # "unused"
  PROVE  Stays(p)
<1>1. PICK r \in Pid :
         /\ phase[q] = "crashed" /\ phase[r] = "unused" /\ r # q
         /\ phase'[q] = "dead" /\ phase'[r] = "recover"
         /\ \A t \in Pid \ {r} : fsm'[t] = fsm[t]
         /\ \A t \in Pid \ {q, r} : phase'[t] = phase[t]
         /\ UNCHANGED <<call, registry, actors>>
  BY RestartFacts DEF shared
<1> QED
  BY <1>1 DEF Stays, Leads, Resolved, Alive, Serves, Starting, Up

LEMMA ReleaseStays ==
  ASSUME Typed, NEW q \in Pid, Release(q), NEW p \in Pid, phase[p] # "unused"
  PROVE  Stays(p)
<1>1. /\ registry' = [n \in Name |-> IF registry[n] = q THEN None ELSE registry[n]]
      /\ UNCHANGED <<fsm, phase, call, actors>> /\ phase[q] \in {"crashed", "dead"}
  BY DEF Release, inside
<1>2. fsm[p].name \in Name
  BY DEF Typed, Shape
<1>3. Alive(p) => p # q
  BY <1>1 DEF Alive, Starting, Up
<1> QED
  BY <1>1, <1>2, <1>3, SupervisorAssumption DEF Stays, Leads, Resolved, Alive, Serves

\* What a sender knew stays true of a call that its step leaves alone.
LEMMA StaysFollowed ==
  ASSUME Typed, Followed, NEW c \in Client, call'[c] = call[c],
         call[c].step \in SendSteps \cup Refusal, NEW p \in call[c].served,
         phase[p] # "unused" => Stays(p)
  PROVE  /\ fsm'[p].name = call'[c].name /\ phase'[p] # "unused"
         /\ Alive(p)' => Serves(p)' /\ Leads(p)'
         /\ call'[c].step = "actors" /\ Alive(p)' => registry'[call'[c].name] = None
         /\ call'[c].step \in Refusal => ~ Alive(p)'
         /\ call'[c].step = "send" /\ Alive(p)' => call'[c].pid = p
BY DEF Followed, Stays

LEMMA FollowedKept ==
  ASSUME Typed, Followed,
         \A c \in Client : call'[c] = call[c] \/ call'[c].step \notin SendSteps \cup Refusal,
         \A p \in Pid : phase[p] # "unused" => Stays(p)
  PROVE  Followed'
<1>1. ASSUME NEW c \in Client, call'[c].step \in SendSteps \cup Refusal,
             NEW p \in call'[c].served
      PROVE  /\ fsm'[p].name = call'[c].name /\ phase'[p] # "unused"
             /\ Alive(p)' => Serves(p)' /\ Leads(p)'
             /\ call'[c].step = "actors" /\ Alive(p)' => registry'[call'[c].name] = None
             /\ call'[c].step \in Refusal => ~ Alive(p)'
             /\ call'[c].step = "send" /\ Alive(p)' => call'[c].pid = p
  <2>1. call'[c] = call[c]
    BY <1>1
  <2>2. p \in Pid
    BY <1>1, <2>1 DEF Typed, TypeOK, Call
  <2> QED
    BY <1>1, <2>1, <2>2, StaysFollowed
<1> QED
  BY <1>1 DEF Followed

\* What the caller that makes a step knows after it.
LEMMA Knows ==
  ASSUME Typed, Followed, NEW c \in Client, NEW k \in Call, Quiet(c, k),
         k.step \in SendSteps \cup Refusal, NEW p \in k.served
  PROVE  /\ fsm[p].name = k.name /\ phase[p] # "unused"
         /\ Alive(p) => Serves(p) /\ Leads(p)
         /\ k.step = "actors" /\ Alive(p) => registry[k.name] = None
         /\ k.step \in Refusal => ~ Alive(p)
         /\ k.step = "send" /\ Alive(p) => k.pid = p
<1>1. p \in Pid
  BY DEF Call
<1>2. CASE Asks(c, k)
  <2>1. fsm[p].name = k.name /\ Serves(p) /\ Leads(p)
    BY <1>1, <1>2 DEF Asks, Of, Leads
  <2> QED
    BY <1>2, <2>1 DEF Asks, Serves, Up, Refusal
<1>3. CASE Answered(c, k)
  <2>1. /\ fsm[p].name = k.name /\ phase[p] # "unused"
        /\ Alive(p) => Serves(p) /\ Leads(p)
        /\ call[c].step = "actors" /\ Alive(p) => registry[k.name] = None
        /\ call[c].step = "send" /\ Alive(p) => call[c].pid = p
    BY <1>3 DEF Answered, Followed, SendSteps
  <2>2. Alive(p) => (IF registry[k.name] # None THEN registry[k.name] ELSE actors[k.name]) = p
    BY <2>1 DEF Leads, Resolved
  <2>3. CASE call[c].step = "whereis"
    BY <1>1, <1>3, <2>1, <2>2, <2>3, SupervisorAssumption DEF Answered, Refusal
  <2>4. CASE call[c].step = "actors"
    BY <1>1, <1>3, <2>1, <2>2, <2>4, SupervisorAssumption DEF Answered, Refusal
  <2>5. CASE call[c].step = "send"
    BY <1>1, <1>3, <2>1, <2>5 DEF Answered, Refusal
  <2> QED
    BY <1>3, <2>3, <2>4, <2>5 DEF Answered
<1>4. CASE Ends(c, k) \/ Begins(c, k) \/ GoesOn(c, k)
  BY <1>4 DEF Ends, Begins, GoesOn, SendSteps, Refusal
<1> QED
  BY <1>2, <1>3, <1>4 DEF Quiet

LEMMA QuietFollowed ==
  ASSUME Typed, Kinds, Alone, Followed, NEW c \in Client, NEW k \in Call,
         Quiet(c, k), Enters(c, k)
  PROVE  Followed'
<1>1. call'[c] = k /\ \A d \in Client \ {c} : call'[d] = call[d]
  BY DEF Quiet, Becomes, Typed, TypeOK
<1>2. \A p \in Pid : phase[p] # "unused" => Stays(p)
  BY QuietStays
<1>3. ASSUME NEW d \in Client, call'[d].step \in SendSteps \cup Refusal,
             NEW p \in call'[d].served
      PROVE  /\ fsm'[p].name = call'[d].name /\ phase'[p] # "unused"
             /\ Alive(p)' => Serves(p)' /\ Leads(p)'
             /\ call'[d].step = "actors" /\ Alive(p)' => registry'[call'[d].name] = None
             /\ call'[d].step \in Refusal => ~ Alive(p)'
             /\ call'[d].step = "send" /\ Alive(p)' => call'[d].pid = p
  <2>1. CASE d # c
    <3>1. call'[d] = call[d] /\ p \in Pid
      BY <1>1, <1>3, <2>1 DEF Typed, TypeOK, Call
    <3> QED
      BY <1>2, <1>3, <3>1, StaysFollowed
  <2>2. CASE d = c
    <3>1. call'[d] = k /\ p \in Pid
      BY <1>1, <1>3, <2>2 DEF Call
    <3>2. /\ fsm[p].name = k.name /\ phase[p] # "unused"
          /\ Alive(p) => Serves(p) /\ Leads(p)
          /\ k.step = "actors" /\ Alive(p) => registry[k.name] = None
          /\ k.step \in Refusal => ~ Alive(p)
          /\ k.step = "send" /\ Alive(p) => k.pid = p
      BY <1>3, <3>1, Knows
    <3>3. Stays(p)
      BY <1>2, <3>1, <3>2
    <3> QED
      BY <3>1, <3>2, <3>3 DEF Stays
  <2> QED
    BY <2>1, <2>2
<1> QED
  BY <1>3 DEF Followed

LEMMA FollowedNext ==
  ASSUME Typed, Kinds, Alone, Followed, [Next]_vars
  PROVE  Followed'
<1>1. CASE UNCHANGED vars
  BY <1>1 DEF vars, inside, shared, Followed, Alive, Serves, Leads, Resolved
<1>2. ASSUME NEW c \in Client, NEW k \in Call, NEW p \in Pid, Spawns(c, k, p)
      PROVE  Followed'
  <2>1. call'[c] = k /\ \A d \in Client \ {c} : call'[d] = call[d]
    BY <1>2 DEF Spawns, Becomes, Typed, TypeOK
  <2>2. k.step \notin SendSteps \cup Refusal
    BY <1>2 DEF Spawns, SendSteps, Refusal
  <2>3. \A d \in Client : call'[d] = call[d] \/ call'[d].step \notin SendSteps \cup Refusal
    BY <2>1, <2>2
  <2> QED
    BY <1>2, <2>3, SpawnsStays, FollowedKept
<1>3. ASSUME NEW p \in Pid, NEW f \in Phase, Works(p, f)
      PROVE  Followed'
  BY <1>3, WorksStays, FollowedKept DEF Works
<1>4. ASSUME NEW p \in Pid, Restart(p)
      PROVE  Followed'
  BY <1>4, RestartStays, FollowedKept DEF Restart
<1>5. ASSUME NEW p \in Pid, Release(p)
      PROVE  Followed'
  BY <1>5, ReleaseStays, FollowedKept DEF Release
<1> QED
  BY <1>1, <1>2, <1>3, <1>4, <1>5, Steps, QuietFollowed, WorkFacts

-----------------------------------------------------------------------------
(***************************************************************************)
(* What is shown.                                                          *)
(***************************************************************************)

\* An actor whose state is in the cache, if it publishes when it starts.
Mirrors(p) ==
    \/ phase[p] \in Up /\ (conf.persists \/ ~ fsm[p].supervised)
    \/ phase[p] \in {"unregister", "register"} /\ conf.persists

\* The state of p that is to be in the cache.
Seen(p) == IF phase[p] = "entered" THEN other[p] ELSE current[p]

Shown ==
    /\ \A p \in Pid : Mirrors(p) => cache[fsm[p].name] = Seen(p)
    /\ \A p \in Pid : conf.persists /\ fsm[p].supervised /\ Going(p) =>
          record[fsm[p].name] # None
    /\ \A c \in Client : call[c].step = "spawn" => cache[call[c].name] = call[c].state
    /\ \A c \in Client : call[c].step = "supervise" /\ conf.persists =>
          record[call[c].name] # None

LEMMA QuietShown ==
  ASSUME Typed, Alone, Shown, NEW c \in Client, NEW k \in Call, Quiet(c, k), Saves(c, k)
  PROVE  Shown'
<1>a. TypeOK /\ Shape
  BY DEF Typed
<1>b. /\ \A d \in Client : call[d].step # "idle" => call[d].name \in Name
      /\ \A p \in Pid : phase[p] # "unused" => fsm[p].name \in Name
  BY <1>a DEF Shape
<1>1. call'[c] = k /\ \A d \in Client \ {c} : call'[d] = call[d]
  BY <1>a DEF Quiet, Becomes, TypeOK
<1>2. UNCHANGED <<conf, fsm, phase, current, other>> /\ \A p \in Pid : Seen(p)' = Seen(p)
  BY DEF Quiet, inside, Seen
<1>3. \A n \in Name : record[n] # None => record'[n] # None
  BY <1>a, SupervisorAssumption DEF Saves, TypeOK
<1>4. (\A p \in Pid : conf.persists /\ fsm[p].supervised /\ Going(p) =>
          record[fsm[p].name] # None)'
  BY <1>b, <1>2, <1>3 DEF Shown, Going
<1>5. (\A d \in Client : call[d].step = "supervise" /\ conf.persists =>
          record[call[d].name] # None)'
  BY <1>b, <1>1, <1>2, <1>3 DEF Shown, Saves
<1>6. CASE cache' = cache /\ k.step # "spawn"
  BY <1>1, <1>2, <1>4, <1>5, <1>6 DEF Shown, Mirrors
<1>7. CASE /\ call[c].step = "publish" /\ k.step = "spawn" /\ k.state = call[c].state
           /\ cache' = [cache EXCEPT ![call[c].name] = call[c].state]
  <2> DEFINE n == call[c].name
  <2>1. n \in Name /\ k.name = n
    BY <1>b, <1>7 DEF Quiet, Ends, Begins, GoesOn, Asks, Answered
  <2>2. cache'[n] = k.state /\ \A m \in Name \ {n} : cache'[m] = cache[m]
    BY <1>a, <1>7, <2>1 DEF TypeOK
  <2>3. \A p \in Pid : Going(p) => fsm[p].name # n
    BY <1>7 DEF Alone, Before
  <2>4. \A d \in Client \ {c} : call[d].step = "spawn" => call[d].name # n
    BY <1>7 DEF Alone, Launching, StartSteps
  <2>5. \A p \in Pid : Mirrors(p)' => Mirrors(p) /\ Going(p) /\ fsm[p].name \in Name
    BY <1>b, <1>2 DEF Mirrors, Going, Up
  <2> QED
    BY <1>b, <1>1, <1>2, <1>4, <1>5, <2>1, <2>2, <2>3, <2>4, <2>5 DEF Shown
<1> QED
  BY <1>6, <1>7 DEF Saves

LEMMA SpawnsShown ==
  ASSUME Typed, Shown, NEW c \in Client, NEW k \in Call, NEW p \in Pid, Spawns(c, k, p)
  PROVE  Shown'
<1>1. call'[c] = k /\ \A d \in Client \ {c} : call'[d] = call[d]
  BY DEF Spawns, Becomes, Typed, TypeOK
<1>2. UNCHANGED <<conf, cache, record>>
  BY DEF Spawns, shared
<1>3. k.step # "spawn" /\ k.step # "supervise"
  BY DEF Spawns
<1>4. \A q \in Pid \ {p} : /\ phase'[q] = phase[q] /\ fsm'[q] = fsm[q]
                           /\ Seen(q)' = Seen(q)
  BY DEF Spawns, Seen
<1>5. fsm'[p].name = call[c].name
  BY DEF Spawns
<1>6. Mirrors(p)' => cache'[fsm'[p].name] = Seen(p)'
  BY <1>2 DEF Spawns, Mirrors, Seen, Up, Shown
<1>7. conf.persists /\ fsm'[p].supervised => record[fsm'[p].name] # None
  BY DEF Spawns, Shown
<1>8. \A q \in Pid \ {p} : Mirrors(q)' = Mirrors(q) /\ Going(q)' = Going(q)
  BY <1>2, <1>4 DEF Mirrors, Going
<1> QED
  BY <1>1, <1>2, <1>3, <1>4, <1>6, <1>7, <1>8 DEF Shown

\* The actor that makes a step publishes what it then is.
LEMMA WorkShows ==
  ASSUME Typed, Kinds, Shown, NEW p \in Pid,
         ActorStep(p) \/ Handle(p) \/ Panic(p) \/ GiveUp(p), Mirrors(p)'
  PROVE  cache'[fsm'[p].name] = Seen(p)'
<1>a. /\ TypeOK /\ phase \in [Pid -> Phase] /\ current \in [Pid -> State]
      /\ other \in [Pid -> State \cup {None}]
      /\ phase[p] # "unused" => fsm[p].name \in Name
  BY DEF Typed, TypeOK, Shape
<1>b. ASSUME NEW s \in State, phase[p] # "unused", Publish(p, s)
      PROVE  cache'[fsm[p].name] = s
  BY <1>a, <1>b, PublishFacts
<1> USE DEF shared, inside, Up
<1>1. CASE Recover(p)
  <2>1. phase'[p] \in {"publish", "unregister"} /\ UNCHANGED <<conf, fsm>> /\ phase[p] = "recover"
    BY <1>1, <1>a DEF Recover
  <2>2. phase'[p] = "unregister" /\ conf.persists
    BY <2>1 DEF Mirrors
  <2>3. record[fsm[p].name] # None
    BY <2>1, <2>2 DEF Kinds, Shown, Going, Starting
  <2>4. phase'[p] = "publish"
    BY <1>1, <1>a, <2>2, <2>3 DEF Recover
  <2> QED
    BY <2>2, <2>4
<1>2. CASE PublishRecovered(p)
  BY <1>2, <1>a, <1>b DEF PublishRecovered, Seen
<1>3. CASE Unregister(p)
  BY <1>3, <1>a DEF Unregister, Mirrors, Shown, Seen
<1>4. CASE Register(p)
  <2>1. phase[p] = "register" /\ UNCHANGED <<conf, fsm, cache, current>> /\ fsm[p].supervised
    BY <1>4 DEF Register, Kinds, Starting
  <2>2. phase'[p] = "serving"
    BY <1>4, <1>a DEF Register
  <2> QED
    BY <2>1, <2>2 DEF Mirrors, Shown, Seen
<1>5. CASE Store(p)
  <2>1. /\ phase[p] = "transit" /\ UNCHANGED <<conf, fsm, current>>
        /\ UNCHANGED cache \/ Publish(p, current[p])
        /\ phase'[p] \in {"commit", "serving"}
    BY <1>5, <1>a DEF Store
  <2> QED
    BY <2>1, <1>a, <1>b DEF Mirrors, Shown, Seen
<1>6. CASE Commit(p)
  <2>1. phase[p] = "commit" /\ UNCHANGED <<conf, cache, fsm>>
    BY <1>6 DEF Commit
  <2>2. phase'[p] = "entered" /\ other'[p] = current[p]
    BY <1>6, <1>a DEF Commit
  <2> QED
    BY <2>1, <2>2 DEF Mirrors, Shown, Seen
<1>10. CASE Settle(p)
  <2>1. phase[p] = "entered" /\ Publish(p, current[p]) /\ fsm' = fsm
    BY <1>10 DEF Settle
  <2>2. CASE phase' = [phase EXCEPT ![p] = "serving"] /\ UNCHANGED current
    BY <1>a, <1>b, <2>1, <2>2 DEF Seen
  <2>3. CASE End(p, "dead")
    BY <1>a, <2>3 DEF End, Mirrors
  <2> QED
    BY <1>10, <2>2, <2>3 DEF Settle
<1>7. CASE Handle(p)
  <2>1. phase[p] = "serving" /\ UNCHANGED <<conf, fsm>>
    BY <1>7 DEF Handle
  <2>2. CASE /\ current' = current /\ (UNCHANGED cache \/ Publish(p, current[p]))
             /\ phase'[p] \in {"serving", "transit"}
    BY <1>a, <1>b, <2>1, <2>2 DEF Mirrors, Shown, Seen
  <2>3. CASE End(p, "dead")
    BY <1>a, <2>3 DEF End, Mirrors
  <2> QED
    BY <1>7, <1>a, <2>1, <2>2, <2>3 DEF Handle
<1>8. CASE Panic(p)
  <2>1. phase'[p] \in {"crashed", "dead"}
    BY <1>8, <1>a DEF Panic, End
  <2> QED
    BY <2>1 DEF Mirrors
<1>9. CASE GiveUp(p)
  BY <1>9, <1>a DEF GiveUp, Mirrors
<1> QED
  BY <1>1, <1>2, <1>3, <1>4, <1>5, <1>6, <1>7, <1>8, <1>9, <1>10 DEF ActorStep

LEMMA WorksShown ==
  ASSUME Typed, Kinds, Alone, Shown, NEW p \in Pid, NEW f \in Phase, Works(p, f), Writes(p, f),
         Mirrors(p)' => cache'[fsm'[p].name] = Seen(p)'
  PROVE  Shown'
<1> DEFINE n == fsm[p].name
<1>a. TypeOK /\ Shape /\ Going(p) /\ n \in Name
  BY DEF Typed, Works, Going, Shape
<1>1. /\ phase'[p] = f /\ \A q \in Pid \ {p} : phase'[q] = phase[q]
      /\ UNCHANGED <<conf, fsm, call>>
  BY <1>a DEF Works, TypeOK
<1>2. /\ \A q \in Pid \ {p} : Seen(q)' = Seen(q)
      /\ \A m \in Name \ {n} : cache'[m] = cache[m] /\ record'[m] = record[m]
      /\ record[n] # None => record'[n] # None
  BY <1>1 DEF Writes, Seen
<1>3. \A q \in Pid \ {p} : Going(q) => fsm[q].name \in Name \ {n}
  BY <1>a DEF Alone, Going, Shape
<1>4. \A d \in Client : call[d].step \in {"spawn", "supervise"} =>
          call[d].name \in Name \ {n}
  BY <1>a DEF Alone, Before, Shape
<1>5. \A q \in Pid \ {p} : Mirrors(q)' => Mirrors(q) /\ Going(q)
  BY <1>1 DEF Mirrors, Going, Up
<1>6. \A q \in Pid : Going(q)' => Going(q)
  BY <1>1, <1>a DEF Going
<1>7. (\A q \in Pid : Mirrors(q) => cache[fsm[q].name] = Seen(q))'
  BY <1>1, <1>2, <1>3, <1>5 DEF Shown
<1>8. (\A q \in Pid : conf.persists /\ fsm[q].supervised /\ Going(q) =>
          record[fsm[q].name] # None)'
  BY <1>1, <1>2, <1>3, <1>6 DEF Shown
<1>9. (\A d \in Client : call[d].step = "spawn" => cache[call[d].name] = call[d].state)'
  BY <1>1, <1>2, <1>4 DEF Shown
<1>10. (\A d \in Client : call[d].step = "supervise" /\ conf.persists =>
          record[call[d].name] # None)'
  BY <1>1, <1>2, <1>4 DEF Shown
<1> QED
  BY <1>7, <1>8, <1>9, <1>10 DEF Shown

LEMMA RestartShown ==
  ASSUME Typed, Shown, NEW p \in Pid, Restart(p)
  PROVE  Shown'
<1>1. PICK q \in Pid :
         /\ phase[p] = "crashed" /\ phase[q] = "unused" /\ q # p
         /\ phase'[p] = "dead" /\ phase'[q] = "recover" /\ fsm'[q] = fsm[p]
         /\ \A r \in Pid \ {q} : fsm'[r] = fsm[r] /\ current'[r] = current[r]
         /\ \A r \in Pid \ {p, q} : phase'[r] = phase[r]
         /\ UNCHANGED <<conf, call, cache, record, other>>
  BY RestartFacts DEF shared
<1>2. /\ \A r \in Pid : Mirrors(r)' => r # q /\ Mirrors(r)
      /\ \A r \in Pid \ {q} : Going(r)' => Going(r)
      /\ \A r \in Pid : Mirrors(r)' => Seen(r)' = Seen(r)
      /\ Going(p)
  BY <1>1 DEF Mirrors, Seen, Going, Up
<1> QED
  BY <1>1, <1>2 DEF Shown

LEMMA ShownNext ==
  ASSUME Typed, Kinds, Alone, Shown, [Next]_vars
  PROVE  Shown'
<1>1. ASSUME UNCHANGED <<conf, cache, record, inside, call>>
      PROVE  Shown'
  BY <1>1 DEF Shown, Mirrors, Seen, Going, inside
<1>2. CASE UNCHANGED vars
  BY <1>1, <1>2 DEF vars, shared
<1>3. ASSUME NEW p \in Pid, ActorStep(p) \/ Handle(p) \/ Panic(p) \/ GiveUp(p)
      PROVE  Shown'
  <2>1. PICK f \in Phase : Works(p, f) /\ Writes(p, f)
    BY <1>3, WorkFacts
  <2>2. Mirrors(p)' => cache'[fsm'[p].name] = Seen(p)'
    BY <1>3, WorkShows
  <2> QED
    BY <2>1, <2>2, WorksShown
<1>4. ASSUME NEW p \in Pid, Release(p)
      PROVE  Shown'
  BY <1>1, <1>4 DEF Release
<1> QED
  BY <1>2, <1>3, <1>4, Steps, QuietShown, SpawnsShown, RestartShown

-----------------------------------------------------------------------------
(***************************************************************************)
(* The theorems.                                                           *)
(***************************************************************************)

\* The inductive invariant: what holds in every environment, and what the
\* discipline of the callers adds.
Order ==
    /\ Typed /\ Kinds
    /\ conf.exclusive => Alone /\ Held /\ Followed /\ Shown

LEMMA OrderInit == Init => Order
<1> SUFFICES ASSUME Init
             PROVE  Order
  OBVIOUS
<1>1. /\ \A c \in Client : call[c].step = "idle"
      /\ \A p \in Pid : phase[p] = "unused"
  BY NoCallFacts DEF Init
<1>2. Typed
  BY TypedInit
<1>3. Kinds
  <2>1. \A n \in Name, p \in Pid : actors[n] # p
    BY SupervisorAssumption DEF Init
  <2> QED
    BY <1>1, <2>1 DEF Kinds, Own, Starting
<1>4. Alone
  BY <1>1 DEF Alone, Going, Launching, Before, Own, StartSteps, SpawnSteps
<1>5. Held
  BY <1>1 DEF Held, Serves, Up
<1>6. Followed
  BY <1>1 DEF Followed, SendSteps, Refusal
<1>7. Shown
  BY <1>1 DEF Shown, Mirrors, Going, Up
<1> QED
  BY <1>2, <1>3, <1>4, <1>5, <1>6, <1>7 DEF Order

LEMMA OrderNext == Order /\ [Next]_vars => Order'
<1> SUFFICES ASSUME Order, [Next]_vars
             PROVE  Order'
  OBVIOUS
<1>1. conf' = conf
  <2>1. ASSUME NEW p \in Pid, ActorStep(p) \/ Environment(p)
        PROVE  conf' = conf
    BY <2>1 DEF ActorStep, Environment, Recover, PublishRecovered, Unregister, Register,
       Store, Commit, Settle, Handle, Panic, Restart, GiveUp, Release
  <2> QED
    BY <2>1, Steps DEF Order, vars, Quiet, Spawns, Environment
<1>2. Typed' /\ Kinds'
  BY TypedNext, KindsNext DEF Order
<1>3. conf.exclusive => (Alone /\ Held /\ Followed /\ Shown)'
  BY AloneNext, HeldNext, FollowedNext, ShownNext DEF Order
<1> QED
  BY <1>1, <1>2, <1>3 DEF Order

LEMMA OrderCorrect == Spec => []Order
BY OrderInit, OrderNext, PTL DEF Spec

\* A name leads to the actor that serves it, unless start_fsm has registered
\* that over an entry which joerl keeps.
THEOREM ReachesCorrect == Spec => []Reaches
<1>1. Order => Reaches
  BY DEF Order, Held, HasName, Reaches
<1> QED
  BY <1>1, OrderCorrect, PTL

\* An error means that the actor that the name led to has ended.
THEOREM RefusedOnlyIfGoneCorrect == Spec => []RefusedOnlyIfGone
<1>1. Order => RefusedOnlyIfGone
  BY DEF Order, Followed, RefusedOnlyIfGone
<1> QED
  BY <1>1, OrderCorrect, PTL

\* What state(name) shows is the state of the actor that serves the name, or
\* the one that a transition under way has just left.
THEOREM ShownIsReachedCorrect == Spec => []ShownIsReached
<1>1. Order => ShownIsReached
  BY DEF Order, Shown, Mirrors, Seen, Serves, ShownIsReached
<1> QED
  BY <1>1, OrderCorrect, PTL

=============================================================================
