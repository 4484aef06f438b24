----------------------------- MODULE TaskQueues -----------------------------
(***************************************************************************)
(* The task queues of one IKEv2 task manager (task_manager_v2.c): queued   *)
(* tasks with an earliest start, the active tasks of the exchange this     *)
(* peer initiated, the passive tasks of the exchange the peer initiated,   *)
(* and how initiate(), process_response(), build_response() with          *)
(* handle_collisions(), reset(), adopt_tasks(), the make-before-break      *)
(* reauthentication and flush() move tasks between them.                   *)
(*                                                                         *)
(* A task is [id, type]; ids are handed out in order. The tasks'           *)
(* build()/process() are outside this repository: a task takes part in     *)
(* a fixed number of exchanges (NEED_MORE until its last, then SUCCESS),   *)
(* may fail (at most MaxFail times), and IKE_INIT may call reset() while   *)
(* processing its response (COOKIE / INVALID_KE_PAYLOAD, at most MaxReset *)
(* times). Responses always arrive: loss is TaskManager's business.        *)
(***************************************************************************)
EXTENDS Integers, Sequences, SequencesExt, FiniteSets, FiniteSetsExt

CONSTANTS
    MaxIds,     \* how many tasks may be created
    TaskTypes,  \* the task types the peer configuration produces
    MaxFail,    \* bound on task failures
    MaxReset,   \* bound on reset() calls of IKE_INIT
    SplitStates,\* IKE_SA states in which clients call the split queue_ike
    None        \* EXCHANGE_TYPE_UNDEFINED

ASSUME MaxIds \in Nat /\ MaxFail \in Nat /\ MaxReset \in Nat

VARIABLE tq     \* the task manager: queues, IKE_SA state and ghosts

(***************************************************************************)
(* The task lists the code builds and scans.                               *)
(***************************************************************************)
\* queue_ike(): the tasks of IKE_SA_INIT and IKE_AUTH (ME not built)
IkeChain == <<"VENDOR", "INIT", "NATD", "CERT_PRE", "AUTH", "CERT_POST",
              "CONFIG", "AUTH_LIFETIME", "MOBIKE", "ESTABLISH">>
\* queue_ike_init_only() and queue_ike_auth_only()
IkeInitOnly == <<"VENDOR", "INIT", "NATD">>
IkeAuthOnly == <<"CERT_PRE", "AUTH", "CERT_POST", "CONFIG", "AUTH_LIFETIME",
                 "MOBIKE", "ESTABLISH">>

\* initiate() in IKE_CREATED: after VENDOR, and only if INIT activates
CreatedChain == <<"INIT", "NATD", "CERT_PRE", "AUTH", "CERT_POST", "CONFIG",
                  "AUTH_LIFETIME", "MOBIKE", "ESTABLISH", "CHILD_CREATE">>

\* mutant: DPD left out of the priority list
EstablishedPriorityNoDpd ==
    << <<"MOBIKE", "INFORMATIONAL">>, <<"IKE_DELETE", "INFORMATIONAL">>,
       <<"IKE_REDIRECT", "INFORMATIONAL">>, <<"CHILD_DELETE", "INFORMATIONAL">>,
       <<"IKE_REAUTH", "INFORMATIONAL">>, <<"CHILD_CREATE", "CREATE_CHILD_SA">>,
       <<"CHILD_REKEY", "CREATE_CHILD_SA">>, <<"IKE_REKEY", "CREATE_CHILD_SA">>,
       <<"AUTH_LIFETIME", "INFORMATIONAL">>,
       <<"REAUTH_COMPLETE", "INFORMATIONAL">>, <<"VERIFY_PEER_CERT", "INFORMATIONAL">> >>

\* initiate() in IKE_ESTABLISHED: the first task type that activates, and
\* the exchange it starts
EstablishedPriority ==
    << <<"MOBIKE", "INFORMATIONAL">>, <<"IKE_DELETE", "INFORMATIONAL">>,
       <<"IKE_REDIRECT", "INFORMATIONAL">>, <<"CHILD_DELETE", "INFORMATIONAL">>,
       <<"IKE_REAUTH", "INFORMATIONAL">>, <<"CHILD_CREATE", "CREATE_CHILD_SA">>,
       <<"CHILD_REKEY", "CREATE_CHILD_SA">>, <<"IKE_REKEY", "CREATE_CHILD_SA">>,
       <<"IKE_DPD", "INFORMATIONAL">>, <<"AUTH_LIFETIME", "INFORMATIONAL">>,
       <<"REAUTH_COMPLETE", "INFORMATIONAL">>, <<"VERIFY_PEER_CERT", "INFORMATIONAL">> >>

\* initiate() with active tasks: the exchange the first typed one needs
ActiveExchange(t) ==
    CASE t = "INIT" -> "IKE_SA_INIT"
      [] t = "AUTH" -> "IKE_AUTH"
      [] t \in {"CHILD_CREATE", "CHILD_REKEY", "IKE_REKEY"} -> "CREATE_CHILD_SA"
      [] t = "MOBIKE" -> "INFORMATIONAL"
      [] OTHER -> None

\* exchanges a task activated in IKE_CREATED takes part in: IKE_INIT and
\* NATD only IKE_SA_INIT, the others IKE_SA_INIT and IKE_AUTH
\* mutant: every task counts one exchange too many
ChainRoundsOffByOne(t) == IF t \in {"INIT", "NATD"} THEN 2 ELSE 3

ChainRounds(t) == IF t \in {"INIT", "NATD"} THEN 1 ELSE 2

(***************************************************************************)
(* has_queued(QUEUED, t) and activate_task(t): the first due queued task   *)
(* of type t moves to the tail of the active list.                         *)
(***************************************************************************)
QueuedTypes(s) == {s.queued[i].type : i \in 1..Len(s.queued)}

DuePos(s, t) == {i \in 1..Len(s.queued) : s.queued[i].type = t /\ s.queued[i].due}

ActivateTask(s, t, rounds) ==
    IF DuePos(s, t) = {} THEN s
    ELSE LET i == Min(DuePos(s, t))
         IN [s EXCEPT !.queued = RemoveAt(@, i),
                      !.active = Append(@, [id |-> s.queued[i].id, type |-> t,
                                            left |-> rounds])]

\* the ids a list holds
IdsOf(seq) == {seq[i].id : i \in 1..Len(seq)}

\* tasks adopted (transitively) by the tasks ids: destroyed with them
Adoptees(s, ids) == {a[2] : a \in {x \in s.adopted : x[1] \in ids}}

\* task->destroy() of the tasks ids, with what they adopted
Destroy(s, ids) ==
    [s EXCEPT !.gone = @ \cup ids \cup Adoptees(s, ids),
              !.adopted = {a \in @ : a[1] \notin ids}]

(***************************************************************************)
(* flush() on DESTROY_ME: the queued, passive and active tasks are         *)
(* destroyed, and so is the IKE_SA.                                        *)
(***************************************************************************)
Flush(s) ==
    [Destroy(s, IdsOf(s.queued) \cup IdsOf(s.passive) \cup IdsOf(s.active))
        EXCEPT !.queued = <<>>, !.passive = <<>>, !.active = <<>>,
               !.sa = "DESTROYED", !.itype = None]

\* queue_task_delayed(): a new task at the tail, due now unless delayed
QueueTask(s, t, delayed) ==
    [s EXCEPT !.queued = Append(@, [id |-> s.next, type |-> t, due |-> ~delayed]),
              !.next = @ + 1]

\* queue_ike() and its halves: queue_task() of every type not queued yet
QueueList(s, list) ==
    FoldLeft(LAMBDA acc, t : IF t \in QueuedTypes(acc) \/ t \notin TaskTypes
                             THEN acc ELSE QueueTask(acc, t, FALSE),
             s, list)

\* queue_mobike_task() (and the MOBIKE variant of queue_dpd()): at most one
QueueMobike(s) ==
    IF "MOBIKE" \in QueuedTypes(s) THEN s ELSE QueueTask(s, "MOBIKE", FALSE)

(***************************************************************************)
(* initiate(): nothing while an exchange is in the air; with no active     *)
(* task, activation by IKE_SA state decides the exchange; otherwise the    *)
(* first active task with a known exchange does. The build pass may fail   *)
(* (flush(), DESTROY_ME); else the request is sent. The IKE_SA enters      *)
(* CONNECTING with IKE_SA_INIT (ike_sa_t.initiate).                        *)
(***************************************************************************)
\* activate_task() of each type of list in turn (no type twice): the first
\* due task of each type moves, the tasks appended in the list's order
ActivateList(s, list) ==
    LET hit == SelectSeq(list, LAMBDA t : DuePos(s, t) # {})
        pos == {Min(DuePos(s, t)) : t \in ToSet(hit)}
        keep == SelectSeq([i \in 1..Len(s.queued) |-> i], LAMBDA i : i \notin pos)
    IN [s EXCEPT !.queued = [k \in 1..Len(keep) |-> s.queued[keep[k]]],
                 !.active = @ \o [k \in 1..Len(hit) |->
                                   [id |-> s.queued[Min(DuePos(s, hit[k]))].id,
                                    type |-> hit[k], left |-> ChainRounds(hit[k])]]]

ActivateCreated(s) ==
    LET s1 == ActivateTask(s, "VENDOR", ChainRounds("VENDOR"))
    IN IF DuePos(s1, "INIT") = {} THEN [st |-> s1, exchange |-> None]
       ELSE [st |-> ActivateList(s1, CreatedChain), exchange |-> "IKE_SA_INIT"]

ActivateEstablished(s) ==
    LET hits == {j \in 1..Len(EstablishedPriority) :
                    DuePos(s, EstablishedPriority[j][1]) # {}}
        e == EstablishedPriority[Min(hits)]
    IN IF hits = {} THEN [st |-> s, exchange |-> None]
       ELSE [st |-> ActivateTask(s, e[1], 1), exchange |-> e[2]]

Activation(s) ==
    CASE s.sa = "CREATED" -> ActivateCreated(s)
      [] s.sa = "ESTABLISHED" -> ActivateEstablished(s)
      [] OTHER -> [st |-> s, exchange |-> None]

FromActive(s) ==
    LET typed == {i \in 1..Len(s.active) : ActiveExchange(s.active[i].type) # None}
    IN IF typed = {} THEN None ELSE ActiveExchange(s.active[Min(typed)].type)

\* the exchange initiate() chooses, and the state after activation
Chosen(s) ==
    IF s.active = <<>> THEN Activation(s) ELSE [st |-> s, exchange |-> FromActive(s)]

\* the build pass and sending of the chosen exchange
Send(s, a) ==
    IF a.exchange = None THEN {a.st}
    ELSE {[a.st EXCEPT !.itype = a.exchange,
                       !.sa = IF a.exchange = "IKE_SA_INIT" THEN "CONNECTING" ELSE @]}
         \cup (IF s.fails < MaxFail THEN {[Flush(a.st) EXCEPT !.fails = @ + 1]} ELSE {})

\* (s and a are bound as set members so that TLC evaluates each once)
Initiate(s) ==
    IF s.itype # None THEN {s}
    ELSE UNION {UNION {Send(v, a) : a \in {Chosen(v)}} : v \in {s}}

(***************************************************************************)
(* process_response()'s process pass over the active tasks before task k: *)
(* each takes part in one more exchange; those done return SUCCESS and    *)
(* are destroyed. IKE_ESTABLISH's completion establishes the IKE_SA.      *)
(***************************************************************************)
Processed(s, k) ==
    LET stepped == [i \in 1..Len(s.active) |->
                       IF i < k THEN [s.active[i] EXCEPT !.left = @ - 1] ELSE s.active[i]]
        done == {stepped[i] : i \in {j \in 1..Len(stepped) : stepped[j].left = 0}}
    IN [Destroy(s, {d.id : d \in done}) EXCEPT
            !.active = SelectSeq(stepped, LAMBDA x : x.left > 0),
            !.sa = IF \E d \in done : d.type = "ESTABLISH" THEN "ESTABLISHED" ELSE @]

(***************************************************************************)
(* reset(): the active tasks go back to the head of the queue in their    *)
(* order, every queued task becomes due now, no exchange is in the air;   *)
(* the IKE_SA that called it is back in CREATED (ike_sa_t.reset).          *)
(***************************************************************************)
\* mutant: the active tasks are dropped instead of requeued
ResetLosesActive(s) ==
    [s EXCEPT !.queued = [i \in 1..Len(@) |-> [@[i] EXCEPT !.due = TRUE]],
              !.active = <<>>, !.itype = None, !.sa = "CREATED"]

Reset(s) ==
    [s EXCEPT !.queued = [i \in 1..Len(s.active) |->
                            [id |-> s.active[i].id, type |-> s.active[i].type, due |-> TRUE]]
                         \o [i \in 1..Len(@) |-> [@[i] EXCEPT !.due = TRUE]],
              !.active = <<>>, !.itype = None, !.sa = "CREATED"]

(***************************************************************************)
(* process_response(): every active task processes the response, then     *)
(* the exchange is done and initiate() starts the next one. A task may    *)
(* fail (the IKE_SA is destroyed); IKE_INIT may reset() the task manager, *)
(* and process_response() then restarts with initiate().                  *)
(***************************************************************************)
ProcessResponse(s) ==
    LET n == Len(s.active)
        ok == Initiate([Processed(s, n + 1) EXCEPT !.itype = None])
        failed == IF s.fails < MaxFail /\ n > 0
                  THEN {[Flush(s) EXCEPT !.fails = @ + 1]} ELSE {}
        resets == IF s.resets >= MaxReset THEN {}
                  ELSE UNION {Initiate(Reset([Processed(s, k) EXCEPT !.resets = @ + 1])) :
                                k \in {i \in 1..n : s.active[i].type = "INIT"}}
    IN ok \cup failed \cup resets

(***************************************************************************)
(* handle_collisions(): a passive IKE_REKEY or IKE_DELETE meets the first  *)
(* active IKE_REKEY, a passive CHILD_REKEY the first active CHILD_REKEY;   *)
(* that task's collide() may adopt it. The index of the active task that   *)
(* is asked, 0 for none.                                                  *)
(***************************************************************************)
Related(a, p) ==
    \/ a = "IKE_REKEY" /\ p \in {"IKE_REKEY", "IKE_DELETE"}
    \/ a = "CHILD_REKEY" /\ p = "CHILD_REKEY"

Collider(s, task) ==
    LET rel == {i \in 1..Len(s.active) : Related(s.active[i].type, task.type)}
    IN IF rel = {} THEN 0 ELSE Min(rel)

(***************************************************************************)
(* build_response() for the passive task: SUCCESS removes it and destroys *)
(* it unless adopted; NEED_MORE keeps it unless adopted; FAILED removes   *)
(* it if adopted, sends the response and destroys the IKE_SA.             *)
(***************************************************************************)
BuildResponse(s, outcome, collide) ==
    LET task == s.passive[1]
        c == Collider(s, task)
        adopted == c # 0 /\ collide
        s1 == IF adopted
              THEN [s EXCEPT !.passive = Tail(@),
                             !.adopted = @ \cup {<<s.active[c].id, task.id>>}]
              ELSE s
    IN CASE outcome = "SUCCESS" ->
              IF adopted THEN s1 ELSE [Destroy(s, {task.id}) EXCEPT !.passive = Tail(@)]
         [] outcome = "NEED_MORE" -> s1
         [] outcome = "FAILED" -> [Flush(s1) EXCEPT !.fails = @ + 1]

\* process_request(): with no passive task, the request creates its task
Spawn(s, t) ==
    IF s.passive # <<>> THEN s
    ELSE [s EXCEPT !.passive = <<[id |-> s.next, type |-> t]>>, !.next = @ + 1]

\* trigger_mbb_reauth(): the queued CHILD_CREATE tasks migrate to the new SA
MigrateChildCreate(s) ==
    [s EXCEPT !.queued = SelectSeq(@, LAMBDA x : x.type # "CHILD_CREATE"),
              !.moved = @ \cup {s.queued[i].id : i \in
                                  {j \in 1..Len(s.queued) : s.queued[j].type = "CHILD_CREATE"}}]

\* adopt_tasks(): the old SA's queued tasks (new ids, in their order) go to
\* the head of the queue, due now
AdoptTasks(s, types) ==
    [s EXCEPT !.queued = [i \in 1..Len(types) |->
                            [id |-> s.next + i - 1, type |-> types[i], due |-> TRUE]] \o @,
              !.next = @ + Len(types)]

-----------------------------------------------------------------------------
Init ==
    tq = [sa |-> "CREATED", queued |-> <<>>, active |-> <<>>, passive |-> <<>>,
          itype |-> None, adopted |-> {}, gone |-> {}, moved |-> {},
          next |-> 1, fails |-> 0, resets |-> 0]

Alive == tq.sa # "DESTROYED"

\* a client call: a queue_*() method, then ike_sa_t's initiate()
Call(s1) == /\ s1.next <= MaxIds + 1
            /\ tq' \in Initiate(s1)

\* task types clients queue one by one (queue_ike_rekey, queue_ike_delete,
\* queue_ike_reauth, queue_child, queue_child_rekey, queue_child_delete,
\* queue_dpd without MOBIKE)
ClientTypes == {"IKE_REKEY", "IKE_DELETE", "IKE_REAUTH", "CHILD_CREATE",
                "CHILD_REKEY", "CHILD_DELETE", "IKE_DPD"} \cap TaskTypes

QueueIkeCall == Alive /\ tq.sa = "CREATED" /\ Call(QueueList(tq, IkeChain))

QueueSplitCall ==
    /\ Alive /\ tq.sa \in SplitStates
    /\ \E list \in {IkeInitOnly, IkeAuthOnly} : Call(QueueList(tq, list))

QueueTaskCall ==
    /\ Alive
    /\ \E t \in ClientTypes, delayed \in BOOLEAN : Call(QueueTask(tq, t, delayed))

QueueMobikeCall == Alive /\ "MOBIKE" \in TaskTypes /\ Call(QueueMobike(tq))

ReauthMbbCall == Alive /\ tq.sa = "ESTABLISHED" /\ Call(MigrateChildCreate(tq))

\* adopt_tasks() on the established new IKE_SA of an IKE rekey (its caller,
\* in ike_sa.c, decides when; the break-before-make reestablish that adopts
\* into a CREATED SA is not modelled)
AdoptCall ==
    /\ Alive /\ tq.sa = "ESTABLISHED"
    /\ \E t \in ClientTypes : Call(AdoptTasks(tq, <<t>>))

\* initiate_tasks_job: a delayed task's start time has come
Due(i) ==
    /\ Alive /\ i \in 1..Len(tq.queued) /\ ~tq.queued[i].due
    /\ tq' \in Initiate([tq EXCEPT !.queued[i].due = TRUE])

\* the response of the exchange in the air arrives
Respond ==
    /\ Alive /\ tq.itype # None
    /\ tq' \in ProcessResponse(tq)

\* a request of the peer arrives on the established SA
Request ==
    /\ Alive /\ tq.sa = "ESTABLISHED"
    /\ \E t \in {"IKE_REKEY", "IKE_DELETE", "CHILD_REKEY", "IKE_DPD"} \cap TaskTypes,
          outcome \in {"SUCCESS", "NEED_MORE", "FAILED"}, collide \in BOOLEAN :
        LET s1 == Spawn(tq, t)
        IN /\ s1.next <= MaxIds + 1
           /\ outcome = "FAILED" => tq.fails < MaxFail
           /\ tq' = BuildResponse(s1, outcome, collide)

Next ==
    \/ QueueIkeCall \/ QueueSplitCall \/ QueueTaskCall \/ QueueMobikeCall
    \/ ReauthMbbCall \/ AdoptCall
    \/ \E i \in 1..Len(tq.queued) : Due(i)
    \/ Respond \/ Request

Spec == Init /\ [][Next]_tq

\* the peer answers every request, and the scheduler runs every
\* initiate_tasks job; clients and the peer's own requests are not fair
FairSpec ==
    /\ Spec
    /\ WF_tq(Respond)
    /\ WF_tq(\E i \in 1..Len(tq.queued) : Due(i))

-----------------------------------------------------------------------------
TypeOK ==
    /\ tq.sa \in {"CREATED", "CONNECTING", "ESTABLISHED", "DESTROYED"}
    /\ \A i \in 1..Len(tq.queued) : tq.queued[i].type \in TaskTypes
    /\ \A i \in 1..Len(tq.active) : tq.active[i].left \in 1..2
    /\ tq.next \in 1..MaxIds + 1
    /\ tq.fails \in 0..MaxFail /\ tq.resets \in 0..MaxReset

\* the ids in a list, in order
IdSeq(seq) == [i \in 1..Len(seq) |-> seq[i].id]

(***************************************************************************)
(* Every task created is owned by exactly one holder: one position of the *)
(* queued, active or passive list, an active or queued task that adopted  *)
(* it in handle_collisions(), the new SA it migrated to, or nobody once   *)
(* destroyed (spec section 5: a task is owned by one queue at a time).    *)
(* Broken if reset(), flush(), build_response() or adopt_tasks() loses a  *)
(* task, keeps it twice, or destroys one its adopter still holds.         *)
(***************************************************************************)
TaskOwnership ==
    LET listed == IdSeq(tq.queued) \o IdSeq(tq.active) \o IdSeq(tq.passive)
        placed == ToSet(listed)
        held == {a[2] : a \in tq.adopted}
    IN /\ IsInjective(listed)
       /\ Cardinality(held) = Cardinality(tq.adopted)
       /\ {a[1] : a \in tq.adopted} \subseteq IdsOf(tq.active) \cup IdsOf(tq.queued)
       /\ placed \cap (held \cup tq.gone \cup tq.moved) = {}
       /\ held \cap (tq.gone \cup tq.moved) = {}
       /\ tq.gone \cap tq.moved = {}
       /\ placed \cup held \cup tq.gone \cup tq.moved = 1..tq.next - 1

(***************************************************************************)
(* Every task that waits in the queue of an established IKE_SA eventually *)
(* leaves it: initiate(), run after each response and by each             *)
(* initiate_tasks job, activates it, or the SA is destroyed. Broken if a  *)
(* task waits in a state in which initiate()'s priority list activates    *)
(* nothing of its type, or a delayed task's job never makes it due.       *)
(***************************************************************************)
QueuedTaskRuns ==
    \A i \in 1..MaxIds :
        (i \in IdsOf(tq.queued) /\ tq.sa = "ESTABLISHED") ~> (i \notin IdsOf(tq.queued))

====
