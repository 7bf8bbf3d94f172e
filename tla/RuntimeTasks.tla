---------------------------- MODULE RuntimeTasks ----------------------------
(***************************************************************************)
(* DMA tasks of a runtime sequence on one shim tile.  A task is a chain of *)
(* buffer descriptors for one channel: the sequence configures it, starts  *)
(* it, and awaits or frees it.  AIEAssignRuntimeSequenceBDIDs gives every  *)
(* descriptor an identifier in one linear pass over the sequence, reusing  *)
(* those of tasks that were awaited or freed; AIEDMATasksToNPU turns a     *)
(* configure into writes of the descriptor registers, a start into a push  *)
(* on the channel's queue, and an await into a sync on the channel.        *)
(*                                                                         *)
(* The sequence has no branches, so what the compiler does at one of its   *)
(* operations depends only on the operations before: the module makes both *)
(* steps at once, the compiler's and the host's, and lets the channels run *)
(* in parallel.  Sequences are chosen operation by operation.              *)
(***************************************************************************)
EXTENDS Integers, Sequences

CONSTANTS Channels,        \* the DMA channels of the tile
          NumBds,          \* targetModel.getNumBDs()
          Chains,          \* chains of a task: for each descriptor the
                           \* identifier written by the user, or None
          MaxTasks,        \* tasks of a sequence (bound)
          AwaitInOrder     \* only sequences that await the tasks of a channel
                           \* that issue a token in the order of their starts

None == -1
Ids == 0 .. (NumBds - 1)

ASSUME TasksAssumption == /\ NumBds \in Nat \ {0}
                          /\ Chains \subseteq Seq(Ids \cup {None}) \ {<<>>}
                          /\ MaxTasks \in Nat
                          /\ AwaitInOrder \in BOOLEAN

VARIABLES tasks,            \* the tasks configured so far: channel,
                            \* descriptors, whether it issues a token
          alreadyAssigned,  \* BdIdGenerator: identifiers in use
          rejected,         \* a pass refused the sequence
          bd,               \* [id] descriptor register: the task that wrote
                            \* it, and the identifier of the next descriptor
          queue,            \* [channel] tasks pushed and not completed
          cursor,           \* [channel] the descriptor it executes, or None
          tokens,           \* [channel] completion tokens not received yet
          awaiting,         \* the task on which the host is blocked, or 0
          order,            \* [channel] tasks started, in order (history)
          done, awaited,    \* tasks completed; awaits returned (history)
          freed             \* tasks that were freed (history)

compiler == <<tasks, alreadyAssigned, rejected, freed>>
device == <<bd, queue, cursor, tokens>>
vars == <<compiler, device, awaiting, order, done, awaited>>

Task == 1 .. Len(tasks)
BdsOf(t) == {tasks[t].bds[i] : i \in 1 .. Len(tasks[t].bds)}
StartedOn(c) == {order[c][i] : i \in 1 .. Len(order[c])}
Started == UNION {StartedOn(c) : c \in Channels}

TypeOK == /\ tasks \in Seq([chan : Channels, bds : Seq(Ids), token : BOOLEAN])
          /\ alreadyAssigned \subseteq Ids
          /\ rejected \in BOOLEAN
          /\ bd \in [Ids -> [task : Task \cup {0}, next : Ids \cup {None}]]
          /\ queue \in [Channels -> Seq(Task)]
          /\ cursor \in [Channels -> Ids \cup {None}]
          /\ tokens \in [Channels -> Nat]
          /\ awaiting \in Task \cup {0}
          /\ order \in [Channels -> Seq(Task)]
          /\ done \subseteq Task /\ awaited \subseteq Task /\ freed \subseteq Task

Init == /\ tasks = <<>> /\ alreadyAssigned = {} /\ rejected = FALSE
        /\ bd = [id \in Ids |-> [task |-> 0, next |-> None]]
        /\ queue = [c \in Channels |-> <<>>]
        /\ cursor = [c \in Channels |-> None]
        /\ tokens = [c \in Channels |-> 0]
        /\ awaiting = 0
        /\ order = [c \in Channels |-> <<>>]
        /\ done = {} /\ awaited = {} /\ freed = {}

-----------------------------------------------------------------------------
(* Identifiers.                                                            *)

UserIds(chain) == {chain[i] : i \in 1 .. Len(chain)} \ {None}

(* An identifier written by the user is in use, or is written twice.       *)
AlreadyInUse(chain) ==
    \E i \in 1 .. Len(chain) :
        /\ chain[i] # None
        /\ chain[i] \in alreadyAssigned \/ \E j \in 1 .. i - 1 : chain[j] = chain[i]

(* Slip: identifiers in use are given again.                               *)
TakenIgnoresOthers(chain, ids, i) ==
    UserIds(chain) \cup {ids[j] : j \in {k \in 1 .. i - 1 : chain[k] = None}}

(* The identifiers in use when the i-th descriptor of a chain gets its own: *)
(* those of the user come first.                                           *)
Taken(chain, ids, i) ==
    alreadyAssigned \cup UserIds(chain)
        \cup {ids[j] : j \in {k \in 1 .. i - 1 : chain[k] = None}}

(* nextBdId: the lowest identifier that is free.                           *)
IsNextBdId(id, taken) == /\ id \in Ids \ taken
                         /\ \A other \in Ids \ taken : id <= other

IsAssignment(chain, ids) ==
    \A i \in 1 .. Len(chain) : IF chain[i] # None THEN ids[i] = chain[i]
                               ELSE IsNextBdId(ids[i], Taken(chain, ids, i))

Assignments(chain) == {ids \in [1 .. Len(chain) -> Ids] : IsAssignment(chain, ids)}

-----------------------------------------------------------------------------
(* The sequence, as the compiler and the host go through it.               *)

HostRuns == awaiting = 0 /\ ~ rejected

(* Slip: the last descriptor of a chain is followed by the first.          *)
NextBdLoops(ids, i) == IF i < Len(ids) THEN ids[i + 1] ELSE ids[1]

(* hoistNextBdOpsIntoAttrs: each descriptor names the next one.  Chains    *)
(* follow the order of their blocks, and end.                              *)
NextBd(ids, i) == IF i < Len(ids) THEN ids[i + 1] ELSE None

(* NpuWriteBdOp for every descriptor of the chain of task t.               *)
WriteBds(t, ids) ==
    [id \in Ids |-> IF \E i \in 1 .. Len(ids) : ids[i] = id
                    THEN [task |-> t,
                          next |-> NextBd(ids, CHOOSE i \in 1 .. Len(ids) : ids[i] = id)]
                    ELSE bd[id]]

Configure(c, chain, token) ==
    /\ HostRuns /\ Len(tasks) < MaxTasks
    /\ ~ AlreadyInUse(chain)
    /\ \E ids \in Assignments(chain) :
          /\ tasks' = Append(tasks, [chan |-> c, bds |-> ids, token |-> token])
          /\ alreadyAssigned' = alreadyAssigned \cup {ids[i] : i \in 1 .. Len(ids)}
          /\ bd' = WriteBds(Len(tasks) + 1, ids)
    /\ UNCHANGED <<rejected, freed, queue, cursor, tokens,
                   awaiting, order, done, awaited>>

(* "already in use" or "Allocator exhausted": the pass fails.  What came   *)
(* before is a sequence of its own, and goes on here.                      *)
RejectConfigure(chain) ==
    /\ HostRuns /\ Len(tasks) < MaxTasks
    /\ AlreadyInUse(chain) \/ Assignments(chain) = {}
    /\ rejected' = TRUE
    /\ UNCHANGED <<tasks, alreadyAssigned, freed, device, awaiting, order, done, awaited>>

(* NpuPushQueueOp with the first descriptor of the task.  A task is started *)
(* once, and not after it was freed.                                       *)
Start(t) ==
    /\ HostRuns
    /\ t \in Task \ (Started \cup freed)
    /\ queue' = [queue EXCEPT ![tasks[t].chan] = Append(@, t)]
    /\ order' = [order EXCEPT ![tasks[t].chan] = Append(@, t)]
    /\ UNCHANGED <<compiler, bd, cursor, tokens, awaiting, done, awaited>>

(* No task that was started on the channel before t has a token left.      *)
OldestToken(t) ==
    LET started == order[tasks[t].chan]
    IN  \A i, j \in 1 .. Len(started) :
            i < j /\ started[j] = t /\ tasks[started[i]].token => started[i] \in awaited

(* The host reaches an await: a task without a token is refused            *)
(* (DMAAwaitTaskOpPattern).                                                *)
Await(t) ==
    /\ HostRuns
    /\ t \in Started \ (awaited \cup freed)
    /\ tasks[t].token
    /\ AwaitInOrder => OldestToken(t)
    /\ awaiting' = t
    /\ UNCHANGED <<compiler, device, order, done, awaited>>

(* Slips: the sync leaves the token; the sync does not wait.               *)
SyncKeepsToken(c) == tokens[c] > 0 /\ UNCHANGED tokens
SyncNoWait(c) == tokens' = [tokens EXCEPT ![c] = @ - 1]

(* NpuSyncOp: blocks until there is a token of the channel, whichever task *)
(* issued it.                                                              *)
Sync(c) == tokens[c] > 0 /\ tokens' = [tokens EXCEPT ![c] = @ - 1]

(* Slip: the identifiers stay in use.                                      *)
FreeNoBds(t) == alreadyAssigned' = alreadyAssigned /\ freed' = freed \cup {t}

(* runOnFreeBDs: frees those identifiers of the task that are in use,      *)
(* whoever uses them.                                                      *)
FreeBds(t) == /\ alreadyAssigned' = alreadyAssigned \ BdsOf(t)
              /\ freed' = freed \cup {t}

(* The sync returns, and the dma_free_task that the pass put after the     *)
(* await frees the task.                                                   *)
AwaitReturns ==
    /\ awaiting # 0
    /\ Sync(tasks[awaiting].chan)
    /\ FreeBds(awaiting)
    /\ awaited' = awaited \cup {awaiting}
    /\ awaiting' = 0
    /\ UNCHANGED <<tasks, rejected, bd, queue, cursor, order, done>>

(* A dma_free_task of the sequence, which its author puts where the task   *)
(* has completed for some other reason, or was not started.                *)
Free(t) ==
    /\ HostRuns
    /\ t \in Task \ freed
    /\ t \in Started => t \in done
    /\ FreeBds(t)
    /\ UNCHANGED <<tasks, rejected, device, awaiting, order, done, awaited>>

Host == \/ \E c \in Channels, chain \in Chains, token \in BOOLEAN : Configure(c, chain, token)
        \/ \E chain \in Chains : RejectConfigure(chain)
        \/ \E t \in Task : Start(t) \/ Await(t) \/ Free(t)

-----------------------------------------------------------------------------
(* The channels.                                                           *)

(* An idle channel takes the next task of its queue: the pushed word names *)
(* the first descriptor.                                                   *)
Begin(c) ==
    /\ cursor[c] = None /\ queue[c] # <<>>
    /\ cursor' = [cursor EXCEPT ![c] = tasks[Head(queue[c])].bds[1]]
    /\ UNCHANGED <<compiler, bd, queue, tokens, awaiting, order, done, awaited>>

(* The channel ends a descriptor and goes to the one it names.             *)
NextInChain(c) ==
    /\ cursor[c] # None
    /\ bd[cursor[c]].next # None
    /\ cursor' = [cursor EXCEPT ![c] = bd[cursor[c]].next]
    /\ UNCHANGED <<compiler, bd, queue, tokens, awaiting, order, done, awaited>>

(* Slip: the push of a task does not ask for its token.                    *)
NoTokens(t) == 0

(* The tokens that a completed task issues, as its push asked for.         *)
TokensOf(t) == IF tasks[t].token THEN 1 ELSE 0

(* The channel ends the last descriptor of its task.                       *)
Complete(c) ==
    /\ cursor[c] # None
    /\ bd[cursor[c]].next = None
    /\ cursor' = [cursor EXCEPT ![c] = None]
    /\ tokens' = [tokens EXCEPT ![c] = @ + TokensOf(Head(queue[c]))]
    /\ done' = done \cup {Head(queue[c])}
    /\ queue' = [queue EXCEPT ![c] = Tail(@)]
    /\ UNCHANGED <<compiler, bd, awaiting, order, awaited>>

Channel(c) == Begin(c) \/ NextInChain(c) \/ Complete(c)

(* The sequence may end anywhere; what was started runs to its end.        *)
Terminating == awaiting = 0 /\ (\A c \in Channels : queue[c] = <<>>) /\ UNCHANGED vars

Next == Host \/ AwaitReturns \/ (\E c \in Channels : Channel(c)) \/ Terminating

Spec == Init /\ [][Next]_vars

(* A channel runs on by itself, and a sync that has its token returns.     *)
Fairness == WF_vars(AwaitReturns) /\ \A c \in Channels : WF_vars(Channel(c))
FairSpec == Spec /\ Fairness

-----------------------------------------------------------------------------
(* "After waiting for BD IDs, they can definitely safely be reused": no    *)
(* descriptor of a task that is running or queued is overwritten by a      *)
(* later task, although identifiers are reused at compile time and freed   *)
(* by syncs on a channel and not on a task.                                *)
NoReuseInFlight ==
    \A c \in Channels : \A i \in 1 .. Len(queue[c]) :
        \A id \in BdsOf(queue[c][i]) : bd[id].task = queue[c][i]

(* dma_await_task blocks "until the referenced previously started DMA task *)
(* has completed", although the sync only waits for a token of the channel.*)
AwaitMeansDone == awaited \subseteq done

(* The generator's set is what the tasks that are not freed hold, and no   *)
(* identifier is held twice: frees do not leak identifiers, and do not     *)
(* free those of a later task.                                             *)
GeneratorIsExact ==
    LET live == Task \ freed
    IN  /\ alreadyAssigned = UNION {BdsOf(t) : t \in live}
        /\ \A s, t \in live : s # t => BdsOf(s) \cap BdsOf(t) = {}

(* Every task that is started completes, and every await returns.          *)
TasksComplete == \A t \in 1 .. MaxTasks : (t \in Started) ~> (t \in done)
AwaitsReturn == (awaiting # 0) ~> (awaiting = 0)
=============================================================================
