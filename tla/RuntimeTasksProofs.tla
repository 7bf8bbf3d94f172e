------------------------- MODULE RuntimeTasksProofs -------------------------
(***************************************************************************)
(* Proofs about RuntimeTasks for any number of descriptors, chains and     *)
(* tasks.                                                                  *)
(*                                                                         *)
(* The generator first (GeneratorInv): its set is what the tasks that are  *)
(* not freed hold, in every sequence.  Then what it is for (SafeInv), when *)
(* awaits follow the order of the starts: a channel's queue is the rest of *)
(* its order, its tokens are counted by the tasks completed and not        *)
(* awaited, so a token that arrives while the host waits for the oldest    *)
(* such task is that task's, and a task is freed only when it is over.     *)
(***************************************************************************)
EXTENDS RuntimeTasks, SequenceTheorems, FiniteSetTheorems, TLAPS

Live == Task \ freed

NonEmpty == \A t \in Task : tasks[t].bds # <<>>

(* A channel at work has a task.                                           *)
Begun == \A c \in Channels : cursor[c] # None => queue[c] # <<>>

(* The task awaited has not been freed: its await frees it.                *)
AwaitingLive == awaiting # 0 => awaiting \notin freed

GeneratorInv == TypeOK /\ NonEmpty /\ Begun /\ AwaitingLive /\ GeneratorIsExact
-----------------------------------------------------------------------------
(* The identifiers that the pass gives to a chain were all free.           *)
LEMMA AssignmentsAreFree ==
    ASSUME NEW chain \in Chains, ~ AlreadyInUse(chain), NEW ids \in Assignments(chain)
    PROVE  /\ ids \in Seq(Ids) /\ ids # <<>>
           /\ \A i \in 1 .. Len(ids) : ids[i] \notin alreadyAssigned
  <1>1. chain \in Seq(Ids \cup {None}) /\ chain # <<>>
    BY TasksAssumption
  <1>2. Len(chain) \in Nat /\ Len(chain) # 0
    BY <1>1
  <1>3. ids \in [1 .. Len(chain) -> Ids] /\ IsAssignment(chain, ids)
    BY DEF Assignments
  <1>4. ids \in Seq(Ids) /\ Len(ids) = Len(chain)
    BY <1>2, <1>3, IsASeq
  <1>5. ASSUME NEW i \in 1 .. Len(chain) PROVE ids[i] \notin alreadyAssigned
    <2>1. CASE chain[i] # None
      BY <2>1, <1>3 DEF IsAssignment, AlreadyInUse
    <2>2. CASE chain[i] = None
      BY <2>2, <1>3 DEF IsAssignment, IsNextBdId, Taken
    <2> QED BY <2>1, <2>2
  <1> QED BY <1>2, <1>4, <1>5

(* What a task is made of.                                                 *)
LEMMA TaskFields ==
    ASSUME TypeOK, NEW t \in Task
    PROVE  tasks[t].chan \in Channels /\ tasks[t].bds \in Seq(Ids) /\ tasks[t].token \in BOOLEAN
  <1>1. tasks[t] \in [chan : Channels, bds : Seq(Ids), token : BOOLEAN]
    BY ElementOfSeq DEF TypeOK, Task
  <1> QED BY <1>1

(* Configuring a task leaves the earlier ones as they were.                *)
LEMMA AppendedTask ==
    ASSUME TypeOK, NEW r, tasks' = Append(tasks, r)
    PROVE  /\ Task' = Task \cup {Len(tasks) + 1} /\ Len(tasks) + 1 \notin Task
           /\ \A t \in Task : tasks'[t] = tasks[t]
           /\ tasks'[Len(tasks) + 1] = r
  <1>1. PICK S : tasks \in Seq(S)
    BY DEF TypeOK
  <1> QED BY <1>1 DEF Task

(* The registers keep their type.                                          *)
LEMMA WriteBdsType ==
    ASSUME TypeOK, NEW t \in Nat, NEW ids \in Seq(Ids)
    PROVE  WriteBds(t, ids) \in
              [Ids -> [task : Task \cup {0, t}, next : Ids \cup {None}]]
  <1>1. ASSUME NEW id \in Ids, \E i \in 1 .. Len(ids) : ids[i] = id
        PROVE  NextBd(ids, CHOOSE i \in 1 .. Len(ids) : ids[i] = id) \in Ids \cup {None}
    <2>1. PICK k : k = CHOOSE i \in 1 .. Len(ids) : ids[i] = id
      OBVIOUS
    <2>2. k \in 1 .. Len(ids)
      BY <1>1, <2>1
    <2>3. NextBd(ids, k) \in Ids \cup {None}
      BY <2>2 DEF NextBd
    <2> QED BY <2>1, <2>3
  <1>2. ASSUME NEW id \in Ids PROVE bd[id] \in [task : Task \cup {0, t}, next : Ids \cup {None}]
    BY DEF TypeOK
  <1> QED BY <1>1, <1>2 DEF WriteBds

(* The order of a channel, and its queue, keep their type when there are   *)
(* more tasks.                                                             *)
LEMMA MoreTasksType ==
    ASSUME TypeOK, Task \subseteq Task'
    PROVE  /\ queue \in [Channels -> Seq(Task')]
           /\ order \in [Channels -> Seq(Task')]
  <1>1. Seq(Task) \subseteq Seq(Task')
    BY SeqMonotonic
  <1> QED BY <1>1 DEF TypeOK
-----------------------------------------------------------------------------
LEMMA GeneratorInit == Init => GeneratorInv
  <1> SUFFICES ASSUME Init PROVE GeneratorInv
    OBVIOUS
  <1>1. Len(tasks) = 0 /\ Task = {}
    BY DEF Init, Task
  <1>2. TypeOK
    BY <1>1, EmptySeq DEF Init, TypeOK
  <1> QED BY <1>1, <1>2 DEF Init, GeneratorInv, NonEmpty, Begun, AwaitingLive, GeneratorIsExact

(* Freeing a live task gives back its identifiers, and those only.         *)
LEMMA FreeBdsExact ==
    ASSUME TypeOK, GeneratorIsExact, NEW t \in Live, FreeBds(t), UNCHANGED tasks
    PROVE  GeneratorIsExact'
  <1>1. Live' = Live \ {t} /\ Task' = Task
    BY DEF Live, Task, FreeBds
  <1>2. \A s \in Task : BdsOf(s)' = BdsOf(s)
    BY DEF BdsOf
  <1>3. \A s, u \in Live' : s # u => BdsOf(s)' \cap BdsOf(u)' = {}
    BY <1>1, <1>2 DEF GeneratorIsExact, Live
  <1>4. alreadyAssigned' = UNION {BdsOf(s)' : s \in Live'}
    <2>1. alreadyAssigned = UNION {BdsOf(s) : s \in Live}
      BY DEF GeneratorIsExact, Live
    <2>2. \A s \in Live \ {t} : BdsOf(s) \cap BdsOf(t) = {}
      BY DEF GeneratorIsExact, Live
    <2>3. alreadyAssigned \ BdsOf(t) = UNION {BdsOf(s) : s \in Live \ {t}}
      BY <2>1, <2>2
    <2>4. \A s \in Live \ {t} : BdsOf(s)' = BdsOf(s)
      BY <1>2 DEF Live
    <2> QED BY <1>1, <2>3, <2>4 DEF FreeBds
  <1> QED BY <1>3, <1>4 DEF GeneratorIsExact, Live

(* A new task holds the identifiers that it was given, and no other task's. *)
LEMMA ConfigureExact ==
    ASSUME TypeOK, GeneratorIsExact,
           NEW c \in Channels, NEW chain \in Chains, NEW token \in BOOLEAN,
           Configure(c, chain, token)
    PROVE  GeneratorIsExact'
  <1>1. PICK ids \in Assignments(chain) :
           /\ tasks' = Append(tasks, [chan |-> c, bds |-> ids, token |-> token])
           /\ alreadyAssigned' = alreadyAssigned \cup {ids[i] : i \in 1 .. Len(ids)}
    BY DEF Configure
  <1>0. PICK new : new = Len(tasks) + 1
    OBVIOUS
  <1> DEFINE given == {ids[i] : i \in 1 .. Len(ids)}
  <1>2. ~ AlreadyInUse(chain) /\ freed' = freed
    BY DEF Configure
  <1>3. given \cap alreadyAssigned = {}
    BY <1>2, AssignmentsAreFree
  <1>4. /\ Task' = Task \cup {new} /\ new \notin Task
        /\ \A t \in Task : tasks'[t] = tasks[t]
        /\ tasks'[new].bds = ids
    <2>1. PICK r : r = [chan |-> c, bds |-> ids, token |-> token] /\ tasks' = Append(tasks, r)
      BY <1>1
    <2>2. r.bds = ids
      BY <2>1
    <2> QED BY <1>0, <2>1, <2>2, AppendedTask
  <1>5. Live' = Live \cup {new}
    <2>1. new \notin freed
      BY <1>4 DEF TypeOK
    <2> QED BY <1>2, <1>4, <2>1 DEF Live
  <1> DEFINE before == [t \in Live |-> BdsOf(t)]
             after == [t \in Live' |-> BdsOf(t)']
  <1>6. (\A t \in Live : after[t] = before[t]) /\ after[new] = given
    <2>1. ASSUME NEW t \in Live PROVE after[t] = before[t]
      <3>1. tasks'[t].bds = tasks[t].bds
        BY <1>4 DEF Live
      <3> QED BY <1>5, <3>1 DEF BdsOf
    <2>2. after[new] = BdsOf(new)'
      BY <1>5
    <2>3. BdsOf(new)' = given
      BY <1>4 DEF BdsOf
    <2> QED BY <2>1, <2>2, <2>3
  <1>7. /\ alreadyAssigned = UNION {before[t] : t \in Live}
        /\ \A s, t \in Live : s # t => before[s] \cap before[t] = {}
    BY DEF GeneratorIsExact, Live
  <1>8. alreadyAssigned' = alreadyAssigned \cup given
    BY <1>1
  <1>9. /\ alreadyAssigned' = UNION {after[t] : t \in Live'}
        /\ \A s, t \in Live' : s # t => after[s] \cap after[t] = {}
    <2> HIDE DEF given, before, after
    <2>1. alreadyAssigned' = UNION {after[t] : t \in Live'}
      BY <1>5, <1>6, <1>7, <1>8
    <2>2. \A t \in Live : before[t] \cap given = {}
      BY <1>3, <1>7
    <2> QED BY <1>5, <1>6, <1>7, <2>1, <2>2
  <1> QED BY <1>9 DEF GeneratorIsExact, Live

(* Nothing the generator depends on changes.                               *)
LEMMA SameExact ==
    ASSUME GeneratorIsExact, UNCHANGED <<tasks, alreadyAssigned, freed>>
    PROVE  GeneratorIsExact'
  <1>1. Live' = Live /\ \A t \in Live : BdsOf(t)' = BdsOf(t)
    BY DEF Live, Task, BdsOf
  <1> QED BY <1>1 DEF GeneratorIsExact, Live
-----------------------------------------------------------------------------
LEMMA ConfigureStep ==
    ASSUME GeneratorInv, NEW c \in Channels, NEW chain \in Chains, NEW token \in BOOLEAN,
           Configure(c, chain, token)
    PROVE  GeneratorInv'
  <1>0. TypeOK /\ NonEmpty /\ Begun /\ AwaitingLive /\ GeneratorIsExact
    BY DEF GeneratorInv
  <1>1. PICK ids \in Assignments(chain) :
           /\ tasks' = Append(tasks, [chan |-> c, bds |-> ids, token |-> token])
           /\ alreadyAssigned' = alreadyAssigned \cup {ids[i] : i \in 1 .. Len(ids)}
           /\ bd' = WriteBds(Len(tasks) + 1, ids)
    BY DEF Configure
  <1>2. /\ ~ AlreadyInUse(chain) /\ awaiting = 0
        /\ UNCHANGED <<rejected, freed, queue, cursor, tokens, awaiting, order, done, awaited>>
    BY DEF Configure, HostRuns
  <1>3. ids \in Seq(Ids) /\ ids # <<>>
    BY <1>2, AssignmentsAreFree
  <1>4. /\ Task' = Task \cup {Len(tasks) + 1}
        /\ \A t \in Task : tasks'[t] = tasks[t]
        /\ tasks'[Len(tasks) + 1].bds = ids
    <2>1. PICK r : r = [chan |-> c, bds |-> ids, token |-> token] /\ tasks' = Append(tasks, r)
      BY <1>1
    <2>2. r.bds = ids
      BY <2>1
    <2> QED BY <1>0, <2>1, <2>2, AppendedTask
  <1>5. TypeOK'
    <2>1. tasks' \in Seq([chan : Channels, bds : Seq(Ids), token : BOOLEAN])
      BY <1>0, <1>1, <1>3, AppendProperties DEF TypeOK
    <2>2. bd' \in [Ids -> [task : Task' \cup {0}, next : Ids \cup {None}]]
      <3>1. Len(tasks) + 1 \in Nat
        BY <1>0 DEF TypeOK
      <3>2. bd' \in [Ids -> [task : Task \cup {0, Len(tasks) + 1}, next : Ids \cup {None}]]
        BY <1>1, <1>3, <3>1, <1>0, WriteBdsType
      <3>3. Task \cup {0, Len(tasks) + 1} = Task' \cup {0}
        BY <1>4
      <3> QED BY <3>2, <3>3
    <2>3. queue' \in [Channels -> Seq(Task')] /\ order' \in [Channels -> Seq(Task')]
      BY <1>0, <1>2, <1>4, MoreTasksType
    <2>4. alreadyAssigned' \subseteq Ids
      BY <1>0, <1>1, <1>3 DEF TypeOK
    <2>5. /\ awaiting' \in Task' \cup {0} /\ done' \subseteq Task'
          /\ awaited' \subseteq Task' /\ freed' \subseteq Task'
      BY <1>0, <1>2, <1>4 DEF TypeOK
    <2> QED BY <1>0, <1>2, <2>1, <2>2, <2>3, <2>4, <2>5 DEF TypeOK
  <1>6. NonEmpty'
    BY <1>0, <1>3, <1>4 DEF NonEmpty
  <1>7. Begun' /\ AwaitingLive'
    BY <1>0, <1>2 DEF Begun, AwaitingLive
  <1>8. GeneratorIsExact'
    BY <1>0, ConfigureExact
  <1> QED BY <1>5, <1>6, <1>7, <1>8 DEF GeneratorInv

(* Every other step leaves the tasks and the descriptors as they are.      *)
LEMMA GeneratorStep == GeneratorInv /\ [Next]_vars => GeneratorInv'
  <1> SUFFICES ASSUME GeneratorInv, [Next]_vars PROVE GeneratorInv'
    OBVIOUS
  <1>0. TypeOK /\ NonEmpty /\ Begun /\ AwaitingLive /\ GeneratorIsExact
    BY DEF GeneratorInv
  <1> DEFINE Kept == UNCHANGED <<tasks, bd>>
  <1>a. Kept => /\ Task' = Task /\ NonEmpty'
                /\ tasks' \in Seq([chan : Channels, bds : Seq(Ids), token : BOOLEAN])
                /\ bd' \in [Ids -> [task : Task' \cup {0}, next : Ids \cup {None}]]
    BY <1>0 DEF TypeOK, NonEmpty, Task
  <1>1. ASSUME NEW c \in Channels, NEW chain \in Chains, NEW token \in BOOLEAN,
               Configure(c, chain, token)
        PROVE  GeneratorInv'
    BY <1>1, ConfigureStep
  <1>2. ASSUME NEW chain \in Chains, RejectConfigure(chain) PROVE GeneratorInv'
    <2>1. Kept /\ UNCHANGED <<alreadyAssigned, freed, device, awaiting, order, done, awaited>>
      BY <1>2 DEF RejectConfigure, device
    <2>2. rejected' \in BOOLEAN
      BY <1>2 DEF RejectConfigure
    <2>3. TypeOK'
      BY <1>0, <1>a, <2>1, <2>2 DEF TypeOK, device
    <2>4. GeneratorIsExact'
      BY <1>0, <2>1, SameExact
    <2> QED BY <1>0, <1>a, <2>1, <2>3, <2>4 DEF GeneratorInv, Begun, AwaitingLive, device
  <1>3. ASSUME NEW t \in Task, Start(t) PROVE GeneratorInv'
    <2>1. Kept /\ UNCHANGED <<alreadyAssigned, rejected, freed, cursor, tokens, awaiting, done, awaited>>
      BY <1>3 DEF Start, compiler
    <2>2. /\ queue' = [queue EXCEPT ![tasks[t].chan] = Append(@, t)]
          /\ order' = [order EXCEPT ![tasks[t].chan] = Append(@, t)]
      BY <1>3 DEF Start
    <2>3. queue' \in [Channels -> Seq(Task)] /\ order' \in [Channels -> Seq(Task)]
      <3>1. tasks[t].chan \in Channels
        BY <1>0, TaskFields
      <3>2. \A c \in Channels : /\ Append(queue[c], t) \in Seq(Task)
                               /\ Append(order[c], t) \in Seq(Task)
        BY <1>0, AppendProperties DEF TypeOK
      <3> QED BY <1>0, <2>2, <3>1, <3>2 DEF TypeOK
    <2>4. TypeOK'
      BY <1>0, <1>a, <2>1, <2>3 DEF TypeOK
    <2>5. Begun'
      <3>1. \A c \in Channels : queue[c] # <<>> => queue'[c] # <<>>
        <4>1. ASSUME NEW c \in Channels PROVE Append(queue[c], t) # <<>>
          <5>1. queue[c] \in Seq(Task)
            BY <1>0 DEF TypeOK
          <5>2. Append(queue[c], t) \in Seq(Task) /\ Len(Append(queue[c], t)) = Len(queue[c]) + 1
            BY <5>1, AppendProperties
          <5>3. Len(queue[c]) \in Nat
            BY <5>1
          <5> QED BY <5>2, <5>3, EmptySeq
        <4> QED BY <1>0, <2>2, <4>1 DEF TypeOK
      <3> QED BY <1>0, <2>1, <3>1 DEF Begun
    <2>6. GeneratorIsExact'
      BY <1>0, <2>1, SameExact
    <2> QED BY <1>0, <1>a, <2>1, <2>4, <2>5, <2>6 DEF GeneratorInv, AwaitingLive
  <1>4. ASSUME NEW t \in Task, Await(t) PROVE GeneratorInv'
    <2>1. Kept /\ UNCHANGED <<compiler, device, order, done, awaited>>
      BY <1>4 DEF Await, compiler, device
    <2>2. awaiting' = t /\ t \notin freed
      BY <1>4 DEF Await
    <2>3. TypeOK'
      BY <1>0, <1>a, <2>1, <2>2 DEF TypeOK, compiler, device
    <2>4. GeneratorIsExact'
      BY <1>0, <2>1, SameExact DEF compiler
    <2> QED BY <1>0, <1>a, <2>1, <2>2, <2>3, <2>4
            DEF GeneratorInv, Begun, AwaitingLive, compiler, device
  <1>5. ASSUME NEW t \in Task, Free(t) PROVE GeneratorInv'
    <2>1. Kept /\ UNCHANGED <<rejected, device, awaiting, order, done, awaited>>
      BY <1>5 DEF Free, device
    <2>2. awaiting = 0 /\ t \in Live /\ FreeBds(t)
      BY <1>5 DEF Free, HostRuns, Live
    <2>3. TypeOK'
      BY <1>0, <1>a, <2>1, <2>2 DEF TypeOK, device, FreeBds, Live
    <2>4. GeneratorIsExact'
      BY <1>0, <2>1, <2>2, FreeBdsExact
    <2> QED BY <1>0, <1>a, <2>1, <2>2, <2>3, <2>4 DEF GeneratorInv, Begun, AwaitingLive, device
  <1>6. CASE AwaitReturns
    <2>1. Kept /\ UNCHANGED <<rejected, queue, cursor, order, done>>
      BY <1>6 DEF AwaitReturns
    <2>2. /\ awaiting # 0 /\ FreeBds(awaiting) /\ Sync(tasks[awaiting].chan)
          /\ awaited' = awaited \cup {awaiting} /\ awaiting' = 0
      BY <1>6 DEF AwaitReturns
    <2>3. awaiting \in Live
      BY <1>0, <2>2 DEF Live, AwaitingLive, TypeOK
    <2>4. tokens' \in [Channels -> Nat]
      <3>1. tasks[awaiting].chan \in Channels
        BY <1>0, <2>3, TaskFields DEF Live
      <3>2. PICK c \in Channels : c = tasks[awaiting].chan
        BY <3>1
      <3>3. tokens[c] > 0 /\ tokens' = [tokens EXCEPT ![c] = @ - 1]
        BY <2>2, <3>2 DEF Sync
      <3>4. tokens \in [Channels -> Nat]
        BY <1>0 DEF TypeOK
      <3>5. tokens[c] - 1 \in Nat
        BY <3>3, <3>4
      <3> QED BY <3>3, <3>4, <3>5
    <2>5. TypeOK'
      BY <1>0, <1>a, <2>1, <2>2, <2>3, <2>4 DEF TypeOK, FreeBds, Live
    <2>6. GeneratorIsExact'
      BY <1>0, <2>1, <2>2, <2>3, FreeBdsExact
    <2> QED BY <1>0, <1>a, <2>1, <2>2, <2>5, <2>6 DEF GeneratorInv, Begun, AwaitingLive
  <1>7. ASSUME NEW c \in Channels, Begin(c) PROVE GeneratorInv'
    <2>1. Kept /\ UNCHANGED <<compiler, queue, tokens, awaiting, order, done, awaited>>
      BY <1>7 DEF Begin, compiler
    <2>2. queue[c] # <<>> /\ cursor' = [cursor EXCEPT ![c] = tasks[Head(queue[c])].bds[1]]
      BY <1>7 DEF Begin
    <2>3. tasks[Head(queue[c])].bds[1] \in Ids
      <3>1. Head(queue[c]) \in Task
        BY <1>0, <2>2 DEF TypeOK
      <3>2. tasks[Head(queue[c])].bds \in Seq(Ids) \ {<<>>}
        BY <1>0, <3>1, TaskFields DEF NonEmpty
      <3> QED BY <3>2
    <2>4. cursor' \in [Channels -> Ids \cup {None}]
      BY <1>0, <2>2, <2>3 DEF TypeOK
    <2>5. TypeOK'
      BY <1>0, <1>a, <2>1, <2>4 DEF TypeOK, compiler
    <2>6. GeneratorIsExact'
      BY <1>0, <2>1, SameExact DEF compiler
    <2>7. Begun'
      BY <1>0, <2>1, <2>2 DEF Begun, TypeOK
    <2> QED BY <1>0, <1>a, <2>1, <2>5, <2>6, <2>7 DEF GeneratorInv, AwaitingLive, compiler
  <1>8. ASSUME NEW c \in Channels, NextInChain(c) PROVE GeneratorInv'
    <2>1. Kept /\ UNCHANGED <<compiler, queue, tokens, awaiting, order, done, awaited>>
      BY <1>8 DEF NextInChain, compiler
    <2>2. cursor[c] # None /\ cursor' = [cursor EXCEPT ![c] = bd[cursor[c]].next]
      BY <1>8 DEF NextInChain
    <2>3. cursor' \in [Channels -> Ids \cup {None}]
      <3>1. cursor[c] \in Ids
        BY <1>0, <2>2 DEF TypeOK
      <3>2. bd[cursor[c]].next \in Ids \cup {None}
        BY <1>0, <3>1 DEF TypeOK
      <3> QED BY <1>0, <2>2, <3>2 DEF TypeOK
    <2>4. TypeOK'
      BY <1>0, <1>a, <2>1, <2>3 DEF TypeOK, compiler
    <2>5. GeneratorIsExact'
      BY <1>0, <2>1, SameExact DEF compiler
    <2>6. Begun'
      BY <1>0, <2>1, <2>2 DEF Begun, TypeOK
    <2> QED BY <1>0, <1>a, <2>1, <2>4, <2>5, <2>6 DEF GeneratorInv, AwaitingLive, compiler
  <1>9. ASSUME NEW c \in Channels, Complete(c) PROVE GeneratorInv'
    <2>1. Kept /\ UNCHANGED <<compiler, awaiting, order, awaited>>
      BY <1>9 DEF Complete, compiler
    <2>2. /\ cursor[c] # None
          /\ cursor' = [cursor EXCEPT ![c] = None]
          /\ tokens' = [tokens EXCEPT ![c] = @ + TokensOf(Head(queue[c]))]
          /\ done' = done \cup {Head(queue[c])}
          /\ queue' = [queue EXCEPT ![c] = Tail(@)]
      BY <1>9 DEF Complete
    <2>3. queue[c] \in Seq(Task) /\ queue[c] # <<>>
      BY <1>0, <2>2 DEF TypeOK, Begun
    <2>4. Head(queue[c]) \in Task /\ Tail(queue[c]) \in Seq(Task)
      BY <2>3
    <2>5. cursor' \in [Channels -> Ids \cup {None}] /\ queue' \in [Channels -> Seq(Task)]
      BY <1>0, <2>2, <2>4 DEF TypeOK
    <2>6. tokens' \in [Channels -> Nat]
      <3>1. TokensOf(Head(queue[c])) \in Nat
        BY DEF TokensOf
      <3> QED BY <1>0, <2>2, <3>1 DEF TypeOK
    <2>7. TypeOK'
      BY <1>0, <1>a, <2>1, <2>2, <2>4, <2>5, <2>6 DEF TypeOK, compiler
    <2>8. GeneratorIsExact'
      BY <1>0, <2>1, SameExact DEF compiler
    <2>9. Begun'
      BY <1>0, <2>2 DEF Begun, TypeOK
    <2> QED BY <1>0, <1>a, <2>1, <2>7, <2>8, <2>9 DEF GeneratorInv, AwaitingLive, compiler
  <1>10. CASE UNCHANGED vars
    <2>1. Kept /\ UNCHANGED <<compiler, device, awaiting, order, done, awaited>>
      BY <1>10 DEF vars, compiler, device
    <2>2. TypeOK'
      BY <1>0, <1>a, <2>1 DEF TypeOK, compiler, device
    <2>3. GeneratorIsExact'
      BY <1>0, <2>1, SameExact DEF compiler
    <2> QED BY <1>0, <1>a, <2>1, <2>2, <2>3
            DEF GeneratorInv, Begun, AwaitingLive, compiler, device
  <1> HIDE DEF Kept
  <1> QED BY <1>1, <1>2, <1>3, <1>4, <1>5, <1>6, <1>7, <1>8, <1>9, <1>10
          DEF Next, Host, Channel, Terminating

(* The host's pass and the device keep their state within range, in every  *)
(* runtime sequence.                                                       *)
THEOREM RuntimeTypeCorrect == Spec => []TypeOK
  <1>1. GeneratorInv => TypeOK
    BY DEF GeneratorInv
  <1> QED BY GeneratorInit, GeneratorStep, <1>1, PTL DEF Spec

(* The exactness of the generator: for any number of descriptors and any   *)
(* sequence, the set from which the pass gives out identifiers is what the *)
(* tasks that are not freed hold.                                          *)
THEOREM GeneratorInvariant == Spec => []GeneratorIsExact
  <1>1. GeneratorInv => GeneratorIsExact
    BY DEF GeneratorInv
  <1> QED BY GeneratorInit, GeneratorStep, <1>1, PTL DEF Spec
-----------------------------------------------------------------------------
(* The second invariant: what has happened on each channel.                *)

Executed(c) == Len(order[c]) - Len(queue[c])

(* A task is started once, on its channel.                                 *)
Ordered == \A c \in Channels :
              /\ \A i \in 1 .. Len(order[c]) : tasks[order[c][i]].chan = c
              /\ \A i, j \in 1 .. Len(order[c]) : order[c][i] = order[c][j] => i = j

(* The queue is the rest of the order.                                     *)
Queued == \A c \in Channels :
              /\ Len(queue[c]) <= Len(order[c])
              /\ \A i \in 1 .. Len(queue[c]) : queue[c][i] = order[c][Executed(c) + i]

(* A channel completes its tasks in the order of their starts.             *)
InOrder == /\ done \subseteq Started
           /\ \A c \in Channels : \A i \in 1 .. Len(order[c]) :
                 order[c][i] \in done <=> i <= Executed(c)

(* Completed tasks whose token nobody has received.                        *)
Outstanding(c) == {t \in done \ awaited : tasks[t].chan = c /\ tasks[t].token}

Counted == \A c \in Channels : tokens[c] = Cardinality(Outstanding(c))

(* The descriptors of a task that is not freed are its own.                *)
Intact == \A t \in Live : \A id \in BdsOf(t) : bd[id].task = t

(* A started task is freed after it completed.                             *)
FreedDone == freed \cap Started \subseteq done

(* The task awaited is the next one of its channel.                        *)
AwaitingNext == awaiting # 0 => /\ awaiting \in Started \ awaited
                                /\ tasks[awaiting].token
                                /\ OldestToken(awaiting)

SafeInv == /\ GeneratorInv /\ Ordered /\ Queued /\ InOrder /\ Counted /\ Intact
           /\ FreedDone /\ AwaitMeansDone /\ AwaitingNext

-----------------------------------------------------------------------------
(* The sequences of a channel, and how far it is.                          *)
LEMMA ChannelFacts ==
    ASSUME TypeOK, NEW c \in Channels
    PROVE  /\ order[c] \in Seq(Task) /\ Len(order[c]) \in Nat
           /\ \A i \in 1 .. Len(order[c]) : order[c][i] \in Task
           /\ queue[c] \in Seq(Task) /\ Len(queue[c]) \in Nat
           /\ Executed(c) \in Int
  BY DEF TypeOK, Executed

LEMMA StartedAt ==
    ASSUME TypeOK, NEW t
    PROVE  t \in Started <=> \E c \in Channels : \E i \in 1 .. Len(order[c]) : t = order[c][i]
  BY DEF Started, StartedOn

(* A started task is in the order of its channel.                          *)
LEMMA StartedOnItsChannel ==
    ASSUME TypeOK, Ordered, NEW t \in Started
    PROVE  /\ t \in Task /\ tasks[t].chan \in Channels
           /\ \E i \in 1 .. Len(order[tasks[t].chan]) : t = order[tasks[t].chan][i]
  <1>1. PICK c \in Channels : \E i \in 1 .. Len(order[c]) : t = order[c][i]
    BY StartedAt
  <1>2. tasks[t].chan = c
    BY <1>1 DEF Ordered
  <1>3. t \in Task
    BY <1>1, ChannelFacts
  <1> QED BY <1>1, <1>2, <1>3

(* A task in the queue of a channel has not completed.                     *)
LEMMA QueuedIsNotDone ==
    ASSUME SafeInv, NEW c \in Channels, NEW i \in 1 .. Len(queue[c])
    PROVE  /\ queue[c][i] \in Started /\ queue[c][i] \notin done
           /\ tasks[queue[c][i]].chan = c
  <1>1. TypeOK /\ Ordered /\ Queued /\ InOrder
    BY DEF SafeInv, GeneratorInv
  <1>2. PICK k : k = Executed(c) + i
    OBVIOUS
  <1>3. k \in 1 .. Len(order[c]) /\ k > Executed(c) /\ queue[c][i] = order[c][k]
    <2>1. PICK n, m : n = Len(order[c]) /\ m = Len(queue[c])
      OBVIOUS
    <2>2. n \in Nat /\ m \in Nat /\ m <= n /\ Executed(c) = n - m
      BY <1>1, <2>1, ChannelFacts DEF Queued, Executed
    <2>3. i \in 1 .. m
      BY <2>1
    <2>4. k \in 1 .. n /\ k > Executed(c)
      BY <1>2, <2>2, <2>3
    <2>5. queue[c][i] = order[c][k]
      BY <1>1, <1>2 DEF Queued
    <2> QED BY <2>1, <2>4, <2>5
  <1>4. Executed(c) \in Int
    BY <1>1, ChannelFacts
  <1>5. order[c][k] \notin done
    BY <1>1, <1>3, <1>4 DEF InOrder
  <1>6. order[c][k] \in Started
    BY <1>1, <1>3, StartedAt
  <1> QED BY <1>1, <1>3, <1>5, <1>6 DEF Ordered

LEMMA SafeInvIsSafe == SafeInv => NoReuseInFlight /\ AwaitMeansDone
  <1> SUFFICES ASSUME SafeInv, NEW c \in Channels, NEW i \in 1 .. Len(queue[c]),
                      NEW id \in BdsOf(queue[c][i])
               PROVE  bd[id].task = queue[c][i]
    BY DEF SafeInv, NoReuseInFlight
  <1>1. queue[c][i] \in Started \ done
    BY QueuedIsNotDone
  <1>2. queue[c][i] \in Live
    <2>1. queue[c][i] \in Task
      BY ChannelFacts DEF SafeInv, GeneratorInv
    <2> QED BY <1>1, <2>1 DEF SafeInv, FreedDone, Live
  <1> QED BY <1>2 DEF SafeInv, Intact

(* Only finitely many tokens are outstanding.                              *)
LEMMA OutstandingFinite ==
    ASSUME TypeOK, NEW c \in Channels
    PROVE  IsFiniteSet(Outstanding(c))
  <1>1. IsFiniteSet(Task)
    BY FS_Interval DEF Task, TypeOK
  <1>2. Outstanding(c) \subseteq Task
    BY DEF Outstanding, TypeOK
  <1> QED BY <1>1, <1>2, FS_Subset

(* The argument for awaits: if the channel has a token for the task        *)
(* awaited, the task has completed, because the token's owner is not after *)
(* it and no earlier token is left.                                        *)
LEMMA TokenMeansDone ==
    ASSUME SafeInv, awaiting # 0, NEW c \in Channels, c = tasks[awaiting].chan,
           tokens[c] > 0
    PROVE  awaiting \in Outstanding(c)
  <1>1. /\ TypeOK /\ Ordered /\ InOrder /\ Counted /\ AwaitingNext
    BY DEF SafeInv, GeneratorInv
  <1>2. awaiting \in Started \ awaited /\ tasks[awaiting].token /\ OldestToken(awaiting)
    BY <1>1 DEF AwaitingNext
  <1>3. PICK u : u \in Outstanding(c)
    <2>1. Cardinality(Outstanding(c)) > 0
      BY <1>1 DEF Counted
    <2> QED BY <2>1, FS_EmptySet
  <1>4. u \in done \ awaited /\ tasks[u].chan = c /\ tasks[u].token
    BY <1>3 DEF Outstanding
  <1>5. PICK i \in 1 .. Len(order[c]) : u = order[c][i]
    BY <1>1, <1>4, StartedOnItsChannel DEF InOrder
  <1>6. PICK j \in 1 .. Len(order[c]) : awaiting = order[c][j]
    BY <1>1, <1>2, StartedOnItsChannel
  <1>7. j <= i
    <2> SUFFICES ASSUME i < j PROVE FALSE
      BY <1>1, ChannelFacts
    <2>1. u \in awaited
      BY <1>2, <1>4, <1>5, <1>6 DEF OldestToken
    <2> QED BY <1>4, <2>1
  <1>8. i <= Executed(c) /\ Executed(c) \in Int
    BY <1>1, <1>4, <1>5, ChannelFacts DEF InOrder
  <1>9. awaiting \in done
    <2>1. j <= Executed(c)
      BY <1>7, <1>8
    <2> QED BY <1>1, <1>6, <2>1 DEF InOrder
  <1> QED BY <1>2, <1>9 DEF Outstanding
-----------------------------------------------------------------------------
LEMMA SafeInit == Init => SafeInv
  <1> SUFFICES ASSUME Init PROVE SafeInv
    OBVIOUS
  <1>1. Task = {} /\ \A c \in Channels : order[c] = <<>> /\ queue[c] = <<>>
    BY DEF Init, Task
  <1>2. \A c \in Channels : Len(order[c]) = 0 /\ Len(queue[c]) = 0
    <2>1. Len(<<>>) = 0
      OBVIOUS
    <2> QED BY <1>1, <2>1
  <1>3. Ordered /\ Queued /\ InOrder
    BY <1>1, <1>2 DEF Ordered, Queued, InOrder, Init
  <1>4. Counted
    <2>1. \A c \in Channels : Outstanding(c) = {}
      BY DEF Outstanding, Init
    <2> QED BY <2>1, FS_EmptySet DEF Counted, Init
  <1>5. Intact /\ FreedDone /\ AwaitMeansDone /\ AwaitingNext
    BY <1>1 DEF Intact, Live, FreedDone, AwaitMeansDone, AwaitingNext, Init
  <1> QED BY <1>3, <1>4, <1>5, GeneratorInit DEF SafeInv

(* A step of the sequence that starts, awaits, frees or completes nothing  *)
(* and writes no descriptor.                                               *)
LEMMA QuietStep ==
    ASSUME SafeInv, GeneratorInv',
           UNCHANGED <<tasks, freed, bd, queue, tokens, awaiting, order, done, awaited>>
    PROVE  SafeInv'
  <1>1. Ordered' /\ Queued' /\ InOrder'
    <2>1. Ordered'
      BY DEF SafeInv, Ordered
    <2>2. Queued'
      BY DEF SafeInv, Queued, Executed
    <2>3. InOrder'
      BY DEF SafeInv, InOrder, Executed, Started, StartedOn
    <2> QED BY <2>1, <2>2, <2>3
  <1>2. Counted'
    BY DEF SafeInv, Counted, Outstanding
  <1>3. Intact' /\ FreedDone'
    BY DEF SafeInv, Intact, Live, Task, BdsOf, FreedDone, Started, StartedOn
  <1>4. AwaitMeansDone' /\ AwaitingNext'
    BY DEF SafeInv, AwaitMeansDone, AwaitingNext, Started, StartedOn, OldestToken
  <1> QED BY <1>1, <1>2, <1>3, <1>4 DEF SafeInv

(* The descriptors of a new task were nobody else's.                       *)
LEMMA ConfigureSafe ==
    ASSUME SafeInv, GeneratorInv',
           NEW c \in Channels, NEW chain \in Chains, NEW token \in BOOLEAN,
           Configure(c, chain, token)
    PROVE  SafeInv'
  <1>0. /\ TypeOK /\ GeneratorIsExact /\ Ordered /\ Queued /\ InOrder /\ Counted
        /\ Intact /\ FreedDone /\ AwaitMeansDone /\ AwaitingNext
    BY DEF SafeInv, GeneratorInv
  <1>1. PICK ids \in Assignments(chain) :
           /\ tasks' = Append(tasks, [chan |-> c, bds |-> ids, token |-> token])
           /\ bd' = WriteBds(Len(tasks) + 1, ids)
    BY DEF Configure
  <1>2. /\ ~ AlreadyInUse(chain) /\ awaiting = 0
        /\ UNCHANGED <<freed, queue, tokens, awaiting, order, done, awaited>>
    BY DEF Configure, HostRuns
  <1>3. PICK new : new = Len(tasks) + 1
    OBVIOUS
  <1>4. /\ Task' = Task \cup {new} /\ new \notin Task
        /\ \A t \in Task : tasks'[t] = tasks[t]
        /\ tasks'[new].bds = ids
    <2>1. PICK r : r = [chan |-> c, bds |-> ids, token |-> token] /\ tasks' = Append(tasks, r)
      BY <1>1
    <2>2. r.bds = ids
      BY <2>1
    <2> QED BY <1>0, <1>3, <2>1, <2>2, AppendedTask
  <1>5. Ordered'
    BY <1>0, <1>2, <1>4, ChannelFacts DEF Ordered
  <1>6. Queued' /\ InOrder' /\ FreedDone' /\ AwaitMeansDone' /\ AwaitingNext'
    <2>1. Queued'
      BY <1>0, <1>2 DEF Queued, Executed
    <2>2. InOrder'
      BY <1>0, <1>2 DEF InOrder, Executed, Started, StartedOn
    <2>3. FreedDone' /\ AwaitMeansDone' /\ AwaitingNext'
      BY <1>0, <1>2 DEF FreedDone, Started, StartedOn, AwaitMeansDone, AwaitingNext
    <2> QED BY <2>1, <2>2, <2>3
  <1>7. Counted'
    <2>1. ASSUME NEW d \in Channels PROVE Outstanding(d)' = Outstanding(d)
      BY <1>0, <1>2, <1>4 DEF Outstanding, TypeOK
    <2>2. ASSUME NEW d \in Channels PROVE tokens'[d] = Cardinality(Outstanding(d)')
      BY <1>0, <1>2, <2>1 DEF Counted
    <2> QED BY <2>2 DEF Counted
  <1>8. Intact'
    <2> SUFFICES ASSUME NEW t \in Live', NEW id \in BdsOf(t)'
                 PROVE  bd'[id].task = t
      BY DEF Intact
    <2>1. \A i \in 1 .. Len(ids) : ids[i] \in Ids /\ ids[i] \notin alreadyAssigned
      BY <1>2, AssignmentsAreFree
    <2>2. CASE t = new
      <3>1. PICK i \in 1 .. Len(ids) : ids[i] = id
        BY <1>4, <2>2 DEF BdsOf
      <3> QED BY <1>1, <1>3, <2>1, <2>2, <3>1 DEF WriteBds
    <2>3. CASE t # new
      <3>1. t \in Live
        BY <1>2, <1>4, <2>3 DEF Live
      <3>2. t \in Task /\ id \in BdsOf(t)
        BY <1>4, <3>1 DEF BdsOf, Live
      <3>3. id \in alreadyAssigned
        BY <1>0, <3>1, <3>2 DEF GeneratorIsExact, Live
      <3>4. id \in Ids /\ ~ \E i \in 1 .. Len(ids) : ids[i] = id
        BY <1>0, <2>1, <3>3 DEF TypeOK
      <3>5. bd'[id] = bd[id]
        BY <1>1, <3>4 DEF WriteBds
      <3> QED BY <1>0, <3>1, <3>2, <3>5 DEF Intact
    <2> QED BY <2>2, <2>3
  <1> QED BY <1>5, <1>6, <1>7, <1>8 DEF SafeInv

(* A started task goes to the end of the order and of the queue.           *)
LEMMA StartSafe ==
    ASSUME SafeInv, GeneratorInv', NEW t \in Task, Start(t)
    PROVE  SafeInv'
  <1>0. /\ TypeOK /\ GeneratorIsExact /\ Ordered /\ Queued /\ InOrder /\ Counted
        /\ Intact /\ FreedDone /\ AwaitMeansDone /\ AwaitingNext
    BY DEF SafeInv, GeneratorInv
  <1>1. PICK c \in Channels : c = tasks[t].chan
    BY <1>0, TaskFields
  <1>2. /\ t \notin Started /\ t \notin freed /\ awaiting = 0
        /\ queue' = [queue EXCEPT ![c] = Append(@, t)]
        /\ order' = [order EXCEPT ![c] = Append(@, t)]
        /\ UNCHANGED <<tasks, alreadyAssigned, freed, bd, tokens, awaiting, done, awaited>>
    BY <1>1 DEF Start, HostRuns, compiler
  <1>3. PICK o, q, n, m : /\ o = order[c] /\ q = queue[c] /\ n = Len(o) /\ m = Len(q)
    OBVIOUS
  <1>4. o \in Seq(Task) /\ q \in Seq(Task) /\ n \in Nat /\ m \in Nat /\ m <= n
    BY <1>0, <1>3, ChannelFacts DEF Queued
  <1>5. /\ order'[c] = Append(o, t) /\ Len(order'[c]) = n + 1
        /\ \A i \in 1 .. n : order'[c][i] = o[i]
        /\ order'[c][n + 1] = t
    BY <1>0, <1>2, <1>3, <1>4, AppendProperties DEF TypeOK
  <1>6. /\ queue'[c] = Append(q, t) /\ Len(queue'[c]) = m + 1
        /\ \A i \in 1 .. m : queue'[c][i] = q[i]
        /\ queue'[c][m + 1] = t
    BY <1>0, <1>2, <1>3, <1>4, AppendProperties DEF TypeOK
  <1>7. \A d \in Channels \ {c} : order'[d] = order[d] /\ queue'[d] = queue[d]
    BY <1>0, <1>2 DEF TypeOK
  <1>8. Executed(c) = n - m /\ Executed(c)' = n - m
    BY <1>3, <1>4, <1>5, <1>6 DEF Executed
  <1>9. \A i \in 1 .. n : o[i] # t
    BY <1>0, <1>2, <1>3, StartedAt
  <1>10. Started' = Started \cup {t}
    <2>1. StartedOn(c)' = StartedOn(c) \cup {t}
      BY <1>3, <1>4, <1>5 DEF StartedOn
    <2>2. \A d \in Channels \ {c} : StartedOn(d)' = StartedOn(d)
      BY <1>7 DEF StartedOn
    <2> QED BY <2>1, <2>2 DEF Started
  <1>11. Ordered'
    <2>1. ASSUME NEW i \in 1 .. n + 1 PROVE tasks[order'[c][i]].chan = c
      <3>1. CASE i = n + 1
        BY <1>1, <1>5, <3>1
      <3>2. CASE i \in 1 .. n
        BY <1>0, <1>3, <1>5, <3>2 DEF Ordered
      <3> QED BY <1>4, <3>1, <3>2
    <2>2. ASSUME NEW i \in 1 .. n + 1, NEW j \in 1 .. n + 1, order'[c][i] = order'[c][j]
          PROVE  i = j
      <3>1. CASE i \in 1 .. n /\ j \in 1 .. n
        <4>1. o[i] = o[j]
          BY <1>5, <2>2, <3>1
        <4> QED BY <1>0, <1>3, <3>1, <4>1 DEF Ordered
      <3>2. CASE i = n + 1 /\ j \in 1 .. n
        BY <1>5, <1>9, <2>2, <3>2
      <3>3. CASE j = n + 1 /\ i \in 1 .. n
        BY <1>5, <1>9, <2>2, <3>3
      <3> QED BY <1>4, <3>1, <3>2, <3>3
    <2>3. /\ \A i \in 1 .. Len(order'[c]) : tasks'[order'[c][i]].chan = c
          /\ \A i, j \in 1 .. Len(order'[c]) : order'[c][i] = order'[c][j] => i = j
      BY <1>2, <1>5, <2>1, <2>2
    <2>4. ASSUME NEW d \in Channels, d # c
          PROVE  /\ \A i \in 1 .. Len(order'[d]) : tasks'[order'[d][i]].chan = d
                 /\ \A i, j \in 1 .. Len(order'[d]) : order'[d][i] = order'[d][j] => i = j
      BY <1>0, <1>2, <1>7, <2>4 DEF Ordered
    <2> QED BY <2>3, <2>4 DEF Ordered
  <1>12. Queued'
    <2>1. Len(queue'[c]) <= Len(order'[c])
      BY <1>4, <1>5, <1>6
    <2>2. ASSUME NEW i \in 1 .. m + 1 PROVE queue'[c][i] = order'[c][n - m + i]
      <3>1. CASE i = m + 1
        BY <1>4, <1>5, <1>6, <3>1
      <3>2. CASE i \in 1 .. m
        <4>1. n - m + i \in 1 .. n
          BY <1>4, <3>2
        <4>2. q[i] = o[n - m + i]
          BY <1>0, <1>3, <1>8, <3>2 DEF Queued
        <4> QED BY <1>5, <1>6, <3>2, <4>1, <4>2
      <3> QED BY <1>4, <3>1, <3>2
    <2>3. ASSUME NEW d \in Channels, d # c
          PROVE  /\ Len(queue'[d]) <= Len(order'[d])
                 /\ \A i \in 1 .. Len(queue'[d]) : queue'[d][i] = order'[d][Executed(d)' + i]
      BY <1>0, <1>7, <2>3 DEF Queued, Executed
    <2>4. \A i \in 1 .. Len(queue'[c]) : queue'[c][i] = order'[c][Executed(c)' + i]
      BY <1>6, <1>8, <2>2
    <2> QED BY <2>1, <2>3, <2>4 DEF Queued
  <1>13. InOrder'
    <2>1. done' \subseteq Started'
      BY <1>0, <1>2, <1>10 DEF InOrder
    <2>2. ASSUME NEW i \in 1 .. n + 1 PROVE order'[c][i] \in done <=> i <= n - m
      <3>1. CASE i = n + 1
        BY <1>0, <1>2, <1>4, <1>5, <3>1 DEF InOrder
      <3>2. CASE i \in 1 .. n
        <4>1. o[i] \in done <=> i <= n - m
          BY <1>0, <1>3, <1>8, <3>2 DEF InOrder
        <4> QED BY <1>5, <3>2, <4>1
      <3> QED BY <1>4, <3>1, <3>2
    <2>3. ASSUME NEW d \in Channels, d # c
          PROVE  \A i \in 1 .. Len(order'[d]) : order'[d][i] \in done <=> i <= Executed(d)'
      BY <1>0, <1>7, <2>3 DEF InOrder, Executed
    <2>4. \A i \in 1 .. Len(order'[c]) : order'[c][i] \in done <=> i <= Executed(c)'
      BY <1>5, <1>8, <2>2
    <2> QED BY <1>2, <2>1, <2>3, <2>4 DEF InOrder
  <1>14. Counted'
    BY <1>0, <1>2 DEF Counted, Outstanding
  <1>15. Intact'
    BY <1>0, <1>2 DEF Intact, Live, Task, BdsOf
  <1>16. FreedDone' /\ AwaitMeansDone' /\ AwaitingNext'
    BY <1>0, <1>2, <1>10 DEF FreedDone, AwaitMeansDone, AwaitingNext
  <1> QED BY <1>11, <1>12, <1>13, <1>14, <1>15, <1>16 DEF SafeInv

(* The host blocks on a task when no earlier token of the channel is left. *)
LEMMA AwaitSafe ==
    ASSUME AwaitInOrder, SafeInv, GeneratorInv', NEW t \in Task, Await(t)
    PROVE  SafeInv'
  <1>0. /\ TypeOK /\ GeneratorIsExact /\ Ordered /\ Queued /\ InOrder /\ Counted
        /\ Intact /\ FreedDone /\ AwaitMeansDone /\ AwaitingNext
    BY DEF SafeInv, GeneratorInv
  <1>1. /\ t \in Started \ awaited /\ tasks[t].token /\ OldestToken(t) /\ awaiting' = t
        /\ UNCHANGED <<tasks, freed, bd, queue, tokens, order, done, awaited>>
    BY DEF Await, compiler, device
  <1>2. Ordered' /\ Queued' /\ InOrder'
    <2>1. Ordered'
      BY <1>0, <1>1 DEF Ordered
    <2>2. Queued'
      BY <1>0, <1>1 DEF Queued, Executed
    <2>3. InOrder'
      BY <1>0, <1>1 DEF InOrder, Executed, Started, StartedOn
    <2> QED BY <2>1, <2>2, <2>3
  <1>3. Counted' /\ AwaitMeansDone'
    BY <1>0, <1>1 DEF Counted, Outstanding, AwaitMeansDone
  <1>4. Intact' /\ FreedDone'
    BY <1>0, <1>1 DEF Intact, Live, Task, BdsOf, FreedDone, Started, StartedOn
  <1>5. AwaitingNext'
    BY <1>1 DEF AwaitingNext, Started, StartedOn, OldestToken
  <1> QED BY <1>2, <1>3, <1>4, <1>5 DEF SafeInv

(* A task that is freed is not running.                                    *)
LEMMA FreeSafe ==
    ASSUME SafeInv, GeneratorInv', NEW t \in Task, Free(t)
    PROVE  SafeInv'
  <1>0. /\ TypeOK /\ GeneratorIsExact /\ Ordered /\ Queued /\ InOrder /\ Counted
        /\ Intact /\ FreedDone /\ AwaitMeansDone /\ AwaitingNext
    BY DEF SafeInv, GeneratorInv
  <1>1. /\ t \in Started => t \in done
        /\ freed' = freed \cup {t} /\ awaiting = 0
        /\ UNCHANGED <<tasks, bd, queue, tokens, awaiting, order, done, awaited>>
    BY DEF Free, FreeBds, HostRuns, device
  <1>2. Ordered' /\ Queued' /\ InOrder'
    <2>1. Ordered'
      BY <1>0, <1>1 DEF Ordered
    <2>2. Queued'
      BY <1>0, <1>1 DEF Queued, Executed
    <2>3. InOrder'
      BY <1>0, <1>1 DEF InOrder, Executed, Started, StartedOn
    <2> QED BY <2>1, <2>2, <2>3
  <1>3. Counted' /\ AwaitMeansDone' /\ AwaitingNext'
    BY <1>0, <1>1 DEF Counted, Outstanding, AwaitMeansDone, AwaitingNext
  <1>4. Intact' /\ FreedDone'
    BY <1>0, <1>1 DEF Intact, Live, Task, BdsOf, FreedDone, Started, StartedOn
  <1> QED BY <1>2, <1>3, <1>4 DEF SafeInv

(* The token that the sync takes is the one of the task awaited.           *)
LEMMA AwaitReturnsSafe ==
    ASSUME SafeInv, GeneratorInv', AwaitReturns
    PROVE  SafeInv'
  <1>0. /\ TypeOK /\ GeneratorIsExact /\ Ordered /\ Queued /\ InOrder /\ Counted
        /\ Intact /\ FreedDone /\ AwaitMeansDone /\ AwaitingNext
    BY DEF SafeInv, GeneratorInv
  <1>1. /\ awaiting # 0 /\ awaiting' = 0
        /\ awaited' = awaited \cup {awaiting} /\ freed' = freed \cup {awaiting}
        /\ UNCHANGED <<tasks, bd, queue, order, done>>
    BY DEF AwaitReturns, FreeBds
  <1>2. PICK t : t = awaiting
    OBVIOUS
  <1>3. PICK c \in Channels : c = tasks[t].chan
    BY <1>0, <1>1, <1>2, TaskFields DEF TypeOK
  <1>4. tokens[c] > 0 /\ tokens' = [tokens EXCEPT ![c] = @ - 1]
    BY <1>2, <1>3 DEF AwaitReturns, Sync
  <1>5. t \in Outstanding(c)
    BY <1>1, <1>2, <1>3, <1>4, TokenMeansDone
  <1>6. Ordered' /\ Queued' /\ InOrder'
    <2>1. Ordered'
      BY <1>0, <1>1 DEF Ordered
    <2>2. Queued'
      BY <1>0, <1>1 DEF Queued, Executed
    <2>3. InOrder'
      BY <1>0, <1>1 DEF InOrder, Executed, Started, StartedOn
    <2> QED BY <2>1, <2>2, <2>3
  <1>7. Counted'
    <2> SUFFICES ASSUME NEW d \in Channels
                 PROVE  tokens'[d] = Cardinality(Outstanding(d)')
      BY DEF Counted
    <2>1. CASE d = c
      <3>1. Outstanding(c)' = Outstanding(c) \ {t}
        BY <1>1, <1>2 DEF Outstanding
      <3>2. Cardinality(Outstanding(c) \ {t}) = Cardinality(Outstanding(c)) - 1
        BY <1>0, <1>5, OutstandingFinite, FS_RemoveElement
      <3>3. tokens'[c] = tokens[c] - 1
        BY <1>0, <1>4 DEF TypeOK
      <3> QED BY <1>0, <2>1, <3>1, <3>2, <3>3 DEF Counted
    <2>2. CASE d # c
      <3>1. Outstanding(d)' = Outstanding(d)
        BY <1>1, <1>2, <1>3, <2>2 DEF Outstanding
      <3>2. tokens'[d] = tokens[d]
        BY <1>0, <1>4, <2>2 DEF TypeOK
      <3> QED BY <1>0, <3>1, <3>2 DEF Counted
    <2> QED BY <2>1, <2>2
  <1>8. Intact'
    BY <1>0, <1>1 DEF Intact, Live, Task, BdsOf
  <1>9. FreedDone' /\ AwaitMeansDone' /\ AwaitingNext'
    BY <1>0, <1>1, <1>2, <1>5
       DEF FreedDone, Started, StartedOn, AwaitMeansDone, AwaitingNext, Outstanding
  <1> QED BY <1>6, <1>7, <1>8, <1>9 DEF SafeInv

(* A channel completes the oldest task of its order that is left.          *)
LEMMA CompleteSafe ==
    ASSUME SafeInv, GeneratorInv', NEW c \in Channels, Complete(c)
    PROVE  SafeInv'
  <1>0. /\ TypeOK /\ GeneratorIsExact /\ Ordered /\ Queued /\ InOrder /\ Counted
        /\ Intact /\ FreedDone /\ AwaitMeansDone /\ AwaitingNext
    BY DEF SafeInv, GeneratorInv
  <1>1. /\ queue[c] # <<>>
        /\ tokens' = [tokens EXCEPT ![c] = @ + TokensOf(Head(queue[c]))]
        /\ done' = done \cup {Head(queue[c])}
        /\ queue' = [queue EXCEPT ![c] = Tail(@)]
        /\ UNCHANGED <<tasks, freed, bd, awaiting, order, awaited>>
    BY DEF Complete, compiler, SafeInv, GeneratorInv, Begun
  <1>2. PICK o, q, n, m, t : /\ o = order[c] /\ q = queue[c] /\ n = Len(o) /\ m = Len(q)
                             /\ t = Head(q)
    OBVIOUS
  <1>3. o \in Seq(Task) /\ q \in Seq(Task) /\ n \in Nat /\ m \in Nat \ {0} /\ m <= n
    BY <1>0, <1>1, <1>2, ChannelFacts, EmptySeq DEF Queued
  <1>4. /\ queue'[c] = Tail(q) /\ Len(queue'[c]) = m - 1
        /\ \A i \in 1 .. m - 1 : queue'[c][i] = q[i + 1]
    BY <1>0, <1>1, <1>2, <1>3 DEF TypeOK
  <1>5. \A d \in Channels \ {c} : queue'[d] = queue[d]
    BY <1>0, <1>1 DEF TypeOK
  <1>6. Executed(c) = n - m /\ Executed(c)' = n - m + 1
    <2>1. Executed(c) = n - m
      BY <1>2 DEF Executed
    <2>2. Len(order'[c]) = n /\ Len(queue'[c]) = m - 1
      BY <1>1, <1>2, <1>4
    <2>3. Executed(c)' = n - (m - 1)
      BY <2>2 DEF Executed
    <2> QED BY <1>3, <2>1, <2>3
  <1>7. t = q[1] /\ t = o[n - m + 1] /\ n - m + 1 \in 1 .. n
    <2>1. t = q[1] /\ 1 \in 1 .. m
      BY <1>2, <1>3
    <2>2. q[1] = order[c][Executed(c) + 1]
      BY <1>0, <1>2, <2>1 DEF Queued
    <2>3. t = o[Executed(c) + 1]
      BY <1>2, <2>1, <2>2
    <2>4. n - m + 1 \in 1 .. n
      BY <1>3
    <2> QED BY <1>6, <2>1, <2>3, <2>4
  <1>8. t \in Started \ done /\ tasks[t].chan = c /\ t \in Task
    BY <1>2, <1>3, <1>7, QueuedIsNotDone
  <1>9. Ordered'
    BY <1>0, <1>1 DEF Ordered
  <1>10. Queued'
    <2>1. ASSUME NEW i \in 1 .. m - 1 PROVE queue'[c][i] = order[c][n - m + 1 + i]
      <3>1. i + 1 \in 1 .. m /\ n - m + (i + 1) = n - m + 1 + i
        BY <1>3
      <3>2. q[i + 1] = o[n - m + (i + 1)]
        BY <1>0, <1>2, <1>6, <3>1 DEF Queued
      <3> QED BY <1>2, <1>4, <3>1, <3>2
    <2>2. /\ Len(queue'[c]) <= Len(order'[c])
          /\ \A i \in 1 .. Len(queue'[c]) : queue'[c][i] = order'[c][Executed(c)' + i]
      <3>1. Len(queue'[c]) = m - 1 /\ Len(order'[c]) = n /\ order'[c] = o
        BY <1>1, <1>2, <1>4
      <3>2. m - 1 <= n
        BY <1>3
      <3>3. ASSUME NEW i \in 1 .. Len(queue'[c])
            PROVE  queue'[c][i] = order'[c][Executed(c)' + i]
        <4>1. i \in 1 .. m - 1
          BY <3>1
        <4>2. queue'[c][i] = order[c][n - m + 1 + i]
          BY <2>1, <4>1
        <4> QED BY <1>2, <1>6, <3>1, <4>2
      <3> QED BY <3>1, <3>2, <3>3
    <2>3. ASSUME NEW d \in Channels, d # c
          PROVE  /\ Len(queue'[d]) <= Len(order'[d])
                 /\ \A i \in 1 .. Len(queue'[d]) : queue'[d][i] = order'[d][Executed(d)' + i]
      <3>1. queue'[d] = queue[d] /\ order'[d] = order[d]
        BY <1>1, <1>5, <2>3
      <3>2. Executed(d)' = Executed(d)
        BY <3>1 DEF Executed
      <3> QED BY <1>0, <3>1, <3>2 DEF Queued
    <2> QED BY <2>2, <2>3 DEF Queued
  <1>11. InOrder'
    <2>1. done' \subseteq Started'
      BY <1>0, <1>1, <1>2, <1>8 DEF InOrder, Started, StartedOn
    <2>2. ASSUME NEW i \in 1 .. n PROVE o[i] \in done' <=> i <= n - m + 1
      <3>0. i \in 1 .. Len(order[c]) /\ n - m + 1 \in 1 .. Len(order[c])
        BY <1>2, <1>7
      <3>1. o[i] \in done <=> i <= n - m
        <4>1. order[c][i] \in done <=> i <= Executed(c)
          BY <1>0, <3>0 DEF InOrder
        <4> QED BY <1>2, <1>6, <4>1
      <3>2. o[i] = t <=> i = n - m + 1
        <4>1. order[c][i] = order[c][n - m + 1] => i = n - m + 1
          BY <1>0, <3>0 DEF Ordered
        <4> QED BY <1>2, <1>7, <4>1
      <3>3. o[i] \in done' <=> o[i] \in done \/ o[i] = t
        BY <1>1, <1>2
      <3>4. i <= n - m + 1 <=> i <= n - m \/ i = n - m + 1
        BY <1>3
      <3> QED BY <3>1, <3>2, <3>3, <3>4
    <2>3. \A i \in 1 .. Len(order'[c]) : order'[c][i] \in done' <=> i <= Executed(c)'
      BY <1>1, <1>2, <1>6, <2>2
    <2>4. ASSUME NEW d \in Channels, d # c, NEW i \in 1 .. Len(order[d])
          PROVE  order[d][i] \in done' <=> i <= Executed(d)'
      <3>1. order[d][i] # t
        BY <1>0, <1>8, <2>4 DEF Ordered
      <3>2. Executed(d)' = Executed(d)
        BY <1>1, <1>5, <2>4 DEF Executed
      <3> QED BY <1>0, <1>1, <1>2, <2>4, <3>1, <3>2 DEF InOrder
    <2> QED BY <1>1, <2>1, <2>3, <2>4 DEF InOrder
  <1>12. Counted'
    <2> SUFFICES ASSUME NEW d \in Channels
                 PROVE  tokens'[d] = Cardinality(Outstanding(d)')
      BY DEF Counted
    <2>0. t \notin awaited
      BY <1>0, <1>8 DEF AwaitMeansDone
    <2>1. CASE d = c /\ tasks[t].token
      <3>1. Outstanding(c)' = Outstanding(c) \cup {t} /\ t \notin Outstanding(c)
        BY <1>1, <1>2, <1>8, <2>0, <2>1 DEF Outstanding
      <3>2. Cardinality(Outstanding(c) \cup {t}) = Cardinality(Outstanding(c)) + 1
        BY <1>0, <3>1, OutstandingFinite, FS_AddElement
      <3>3. tokens'[c] = tokens[c] + 1
        BY <1>0, <1>1, <1>2, <2>1 DEF TypeOK, TokensOf
      <3> QED BY <1>0, <2>1, <3>1, <3>2, <3>3 DEF Counted
    <2>2. CASE d # c \/ ~ tasks[t].token
      <3>1. Outstanding(d)' = Outstanding(d)
        BY <1>1, <1>2, <1>8, <2>2 DEF Outstanding
      <3>2. tokens'[d] = tokens[d]
        <4>1. tokens \in [Channels -> Nat] /\ tokens' = [tokens EXCEPT ![c] = @ + TokensOf(t)]
          BY <1>0, <1>1, <1>2 DEF TypeOK
        <4>2. CASE d # c
          BY <4>1, <4>2
        <4>3. CASE ~ tasks[t].token
          <5>1. TokensOf(t) = 0
            BY <4>3 DEF TokensOf
          <5> QED BY <4>1, <5>1
        <4> QED BY <2>2, <4>2, <4>3
      <3> QED BY <1>0, <3>1, <3>2 DEF Counted
    <2> QED BY <2>1, <2>2
  <1>13. Intact' /\ FreedDone'
    BY <1>0, <1>1 DEF Intact, Live, Task, BdsOf, FreedDone, Started, StartedOn
  <1>14. AwaitMeansDone' /\ AwaitingNext'
    BY <1>0, <1>1 DEF AwaitMeansDone, AwaitingNext, Started, StartedOn, OldestToken
  <1> QED BY <1>9, <1>10, <1>11, <1>12, <1>13, <1>14 DEF SafeInv

LEMMA SafeStep == AwaitInOrder /\ SafeInv /\ [Next]_vars => SafeInv'
  <1> SUFFICES ASSUME AwaitInOrder, SafeInv, [Next]_vars PROVE SafeInv'
    OBVIOUS
  <1>0. GeneratorInv'
    BY GeneratorStep DEF SafeInv
  <1>1. ASSUME NEW c \in Channels, NEW chain \in Chains, NEW token \in BOOLEAN,
               Configure(c, chain, token)
        PROVE  SafeInv'
    BY <1>0, <1>1, ConfigureSafe
  <1>2. ASSUME NEW chain \in Chains, RejectConfigure(chain) PROVE SafeInv'
    BY <1>0, <1>2, QuietStep DEF RejectConfigure, device
  <1>3. ASSUME NEW t \in Task, Start(t) PROVE SafeInv'
    BY <1>0, <1>3, StartSafe
  <1>4. ASSUME NEW t \in Task, Await(t) PROVE SafeInv'
    BY <1>0, <1>4, AwaitSafe
  <1>5. ASSUME NEW t \in Task, Free(t) PROVE SafeInv'
    BY <1>0, <1>5, FreeSafe
  <1>6. CASE AwaitReturns
    BY <1>0, <1>6, AwaitReturnsSafe
  <1>7. ASSUME NEW c \in Channels, Begin(c) \/ NextInChain(c) PROVE SafeInv'
    BY <1>0, <1>7, QuietStep DEF Begin, NextInChain, compiler
  <1>8. ASSUME NEW c \in Channels, Complete(c) PROVE SafeInv'
    BY <1>0, <1>8, CompleteSafe
  <1>9. CASE UNCHANGED vars
    BY <1>0, <1>9, QuietStep DEF vars, compiler, device
  <1> QED BY <1>1, <1>2, <1>3, <1>4, <1>5, <1>6, <1>7, <1>8, <1>9
          DEF Next, Host, Channel, Terminating

LEMMA SafeInvariant == ASSUME AwaitInOrder PROVE Spec => []SafeInv
  <1>1. Init => SafeInv
    BY SafeInit
  <1>2. SafeInv /\ [Next]_vars => SafeInv'
    BY SafeStep
  <1> QED BY <1>1, <1>2, PTL DEF Spec

(* A sync waits for some token of a channel, not for that of its task: if  *)
(* the tasks of a channel that issue a token are awaited in the order of   *)
(* their starts, an await still means that its task has completed.         *)
THEOREM AwaitsWaitForTheirTask ==
    ASSUME AwaitInOrder
    PROVE  Spec => []AwaitMeansDone
  <1>1. SafeInv => AwaitMeansDone
    BY SafeInvIsSafe
  <1> QED BY <1>1, SafeInvariant, PTL

(* Identifiers are reused while the device runs: under the same condition  *)
(* no descriptor is overwritten that a queued or running task has yet to   *)
(* use, for any number of descriptors, channels and tasks.                 *)
THEOREM ReuseIsSafe ==
    ASSUME AwaitInOrder
    PROVE  Spec => []NoReuseInFlight
  <1>1. SafeInv => NoReuseInFlight
    BY SafeInvIsSafe
  <1> QED BY <1>1, SafeInvariant, PTL
=============================================================================
