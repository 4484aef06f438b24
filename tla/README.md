# TLA+ models of the IKEv2 task manager with selective fragment retransmission

This directory holds TLA+ models of `src/src/libcharon/sa/ikev2/task_manager_v2.c`. That file is strongSwan's IKEv2 task manager with the selective fragment retransmission (SFR) extension. It also models the random number adapter of the OQS post-quantum KEM plugin (`src/src/libstrongswan/plugins/oqs/`). It also holds the TLC configurations that check the models.

## The system

One task manager serves one IKE_SA on each of its two peers. Its parts:

| Part | Code | State |
|---|---|---|
| Initiator half | `initiate`, `process_response`, `retransmit` | `initiating.{mid,type,retransmitted,packets}`, `current_retransmit_job` |
| Responder half | `process_message` (request branch), `is_retransmit`, `reject_request`, `handle_fragment`, `process_request`, `build_response` | `responding.{mid,hash,prev_hash,packets,defrag}` |
| Fragment tracker (SFR) | `generate_message`, `create_fragment_tracker`, `add_fragment_to_tracker`, `update_fragment_ack_status`, `retransmit_missing_fragments_simple` | `outgoing_tracker` with its per-fragment `acknowledged` flags and `acked_fragments` |
| FRAGMENT_ACK codec | `send_immediate_fragment_ack`, `process_fragment_ack` | `fragment_ack_data_t` (16-bit message ID and counts, 8×16-bit bitmap, network byte order) |
| SFR negotiation | `build_response` adds the notify to the IKE_SA_INIT response; `process_response` and `process_request` latch it | `peer_supports_selective_retransmission` |
| Task queues and collisions | `queue_*`, `activate_task`, `handle_collisions`, `adopt_tasks`, `reset`, `flush` | `queued_tasks`, `active_tasks`, `passive_tasks` |
| Timers | `retransmit` arms the next retransmit job (`schedule_job` in seconds on the selective path, `schedule_job_ms` on the whole-message path); `process_message` arms the half-open delete job on a virgin SA's first config lookup | the scheduler's jobs and their deadlines |
| OQS plugin and DRBG adapter (`oqs_plugin.c`, `oqs_drbg.c`) | `oqs_plugin_create`, `destroy`, `oqs_drbg_init`, `oqs_drbg_deinit`, `oqs_drbg_set`, `oqs_drbg_rand` | `drbg_key`, a `thread_value_t` holding one `drbg_t *` per thread |

How the parts interact:

- The sender of a fragmented request (more than one fragment, SFR enabled) creates a tracker.
- The receiver ACKs every fragment it absorbs. The ACK is an INFORMATIONAL *request* with MID 0.
- The sender's `process_message` routes the ACK to `process_fragment_ack`. Because of the MID-0 exception in `reject_request`, this works even while the SA is half-open.
- The retransmit job is scheduled by `retransmit()`.
  - If the tracker is complete, the job exits early.
  - If the peer advertised SFR, the job resends only unacknowledged fragments.
  - Otherwise it resends the whole message.
- `process_response` completes an exchange, advances the MID and starts the next exchange inline. It drops the job reference ("logical cancel") but keeps the tracker.

Hard behaviours:

- Stale jobs of completed exchanges.
- Lost, duplicated and reordered fragments, ACKs and responses.
- The MID-0 ACK channel crossing both sliding windows.
- Duplicate detection by the hash of fragment 1.
- The already-processed check on reassembled requests.
- Give-up after `retransmit.tries`.

## Modules

### `FragmentAck.tla`: the FRAGMENT_ACK codec (pure operators)

- `AckFor(mid, held, defragTotal, fno)` is the record that `send_immediate_fragment_ack` builds. The arguments are what the reassembler reports:
  - a merged message reports nothing, and the code then infers the total from `fragment_number`;
  - `htons` is modelled on a little-endian host as a byte swap, with 16-bit truncation.
- `AckedBy(ack, trackerMid, total)` is what `update_fragment_ack_status` marks, behind the message-ID check of `process_fragment_ack`.
- The helpers are `HtoNs`/`NtoHs`, `Word`, `Bit` and `WireWord`. The bitwise OR uses the community `Bitwise` module.

### `MCFragmentAck.tla`: checks the codec over bounded inputs

- A reassembler absorbs candidate fragments in every order. The candidates are 1, 2, 3, 16, 17, 64, 65 and 66: both ends of a 16-bit word and both sides of the 64-bit limit.
- After each fragment, the ACK sent is decoded and compared with the reference: the set of fragments actually held.

### `TaskManager.tla`: both peers' task managers over an unreliable network

State:

| Variable | Holds |
|---|---|
| `tm[p]` | peer `p`'s `private_task_manager_t`, reduced to the fields the handlers test (see below) |
| `net` | the set of packets in flight |
| `lost`, `dups` | how many losses and duplications have happened, for their bounds |

The fields of `tm[p]`:

| Model field | Code |
|---|---|
| `sa` | the IKE_SA state |
| `imid`, `itype`, `iretx` | `initiating.mid`, `.type`, `.retransmitted` |
| `tracker` | `outgoing_tracker` |
| `psup` | `peer_supports_selective_retransmission` |
| `rmid`, `rhash`, `rprev`, `rcache`, `rdefrag` | `responding.mid`, `.hash`, `.prev_hash`, `.packets`, `.defrag` |
| `jobs` | a bag of the MIDs of scheduled retransmit jobs |
| `work` | the index of the next exchange its tasks start |

Two fields are ghosts that exist only for the properties:

- `got` holds the fragments the reassembler absorbed;
- `down` records why the SA was destroyed.

Each handler is an operator that returns `[st, out, status]`, so a whole call of the code is one step:

| Operator | Code |
|---|---|
| `Retransmit`, with `RetransmitMain`, `GiveUp` and `MissingFragments` | `retransmit` and `retransmit_missing_fragments_simple` |
| `Initiate` and `CanStart` | `initiate` |
| `ProcessResponse` and `ReceiveResponse` | `process_response` and the response branch of `process_message` |
| `ReceiveRequest`, `IsRetransmit`, `RejectRequest`, `HandleFragment`, `AlreadyProcessed`, `ProcessRequest`, `ProcessAndAdvance`, `ProcessFragmentAck` and `FragmentAckPacket` | the request path |

The actions:

- `Start(p)` is `ike_sa_t.initiate` with a task queued.
- `RetransmitJob(p, mid)` is a job firing. A non-SUCCESS status destroys the SA, as `ike_sa_t.retransmit` does.
- `Deliver(msg)`, `Duplicate(msg)` and `Lose(msg)` model the network.

Abstractions:

- A packet is a record. Its SHA-1 hash is the record itself, and each ACK carries a fresh `seq` because it is freshly encrypted.
- Tasks are reduced to the exchange types they produce, given per peer by `Work`. Their effect on the SA state is also modelled: IKE_SA_INIT makes it CONNECTING and IKE_AUTH makes it ESTABLISHED.
- Responses are one packet.
- A retransmit job fires only when nothing is in flight. This is the timeout-longer-than-round-trip assumption, and it also stands in for the selective path's 1800 s delay.

### `MCTaskManager.tla`: instantiates the model

It defines the work lists, the fragment counts and the SFR settings that the cfg files choose:

| Definition | What it sets |
|---|---|
| `WorkChild` | initiator: IKE_SA_INIT, IKE_AUTH, CREATE_CHILD_SA; responder: a DPD |
| `WorkSetup` | initiator: IKE_SA_INIT, IKE_AUTH; responder: nothing |
| `FragsAuth` | IKE_AUTH in 2 fragments |
| `FragsAuthChild` | IKE_AUTH and CREATE_CHILD_SA in 2 fragments each |
| `SfrBoth` | SFR enabled on both peers |
| `SfrInitiatorOnly` | SFR enabled on the initiator only |
| `SfrResponderOnly` | SFR enabled on the responder only |

### `ExchangeWindow.tla`: what the two task managers promise each other

An abstract specification, modelled from RFC 7296 section 2.3 and spec section 4.1:

- each peer runs its exchanges one at a time (`Begin`, `Complete`);
- the other peer serves each request exactly once and in order (`Serve`);
- an exchange completes only after it was served;
- either peer's SA may be destroyed at any time (`Fail`); a destroyed peer neither serves nor completes.

`ExchangeEnds` says every begun exchange completes or its SA is destroyed.

`TaskManager.tla` instantiates it as `Window` with this refinement mapping:

| ExchangeWindow | TaskManager |
|---|---|
| `started[p]` | exchanges p's work list has started (`work - 1`) |
| `open[p]` | `initiating.type` is not UNDEFINED |
| `done[p]` | `initiating.mid` |
| `served[p]` | the other peer's `responding.mid` |
| `up[p]` | the IKE_SA is not destroyed |

`WindowSpec == Window!Spec` and `WindowEnds == Window!ExchangeEnds` are checked as properties of `FairSpec`. The refinement holds only when the responder sends no FRAGMENT_ACKs (SFR on the initiator only). With SFR on both peers, the first MID-0 ACK advances a MID without any exchange (finding `ack_consumes_mid`), and that breaks `done = initiating.mid`.

### `TaskQueues.tla`: the task queues of one task manager

The state is one record `tq`:

| Field | Code |
|---|---|
| `queued` | `queued_tasks`: `[id, type, due]`, where `due` means the start time has passed |
| `active` | `active_tasks`: `[id, type, left]`, where `left` counts the exchanges still to take part in |
| `passive` | `passive_tasks` |
| `itype` | `initiating.type` |
| `sa` | the IKE_SA state (CREATED, CONNECTING, ESTABLISHED, DESTROYED) |
| `adopted`, `gone`, `moved` | ghosts: adoptions in `handle_collisions`, destroyed tasks, tasks migrated to a new SA |
| `next`, `fails`, `resets` | the next task id and the failure and reset budgets |

The operations are functional operators that return the new state, or a set of states where the outcome is open:

- `QueueTask`, `QueueList` (with `has_queued`), `QueueMobike`
- `ActivateTask`, `ActivateList`, `Activation` (the CREATED chain and the ESTABLISHED priority list), `FromActive`, `Initiate` (with the build pass and its failure → `Flush`)
- `Processed` and `ProcessResponse`: the process pass, IKE_INIT's `reset()` and the restart through `initiate()`
- `Collider` and `BuildResponse`: `handle_collisions` inside `build_response`
- `Spawn`, `MigrateChildCreate`, `AdoptTasks`

Each action is one entry point. A client's `queue_*` call is combined with the `ike_sa_t.initiate()` that follows it (`QueueIkeCall`, `QueueSplitCall`, `QueueTaskCall`, `QueueMobikeCall`, `ReauthMbbCall`, `AdoptCall`). The other actions are:

- `Due(i)`: an `initiate_tasks` job;
- `Respond`: a response arrives;
- `Request`: a request of the peer arrives.

The tasks' own `build()`/`process()` live outside this repository. They are abstracted as follows:

- Tasks activated in CREATED take part in two exchanges, except IKE_INIT and NATD (one). Tasks activated on an established SA take part in one.
- Any exchange may fail, at most `MaxFail` times.
- IKE_INIT may call `reset()` while processing its response, at most `MaxReset` times. `ike_sa_t.reset` puts the SA back to CREATED.
- A collision's `collide()` result is a free choice.

`MCTaskQueues.tla` chooses the task types:

- `ChainAndRekey`: VENDOR, the IKE_SA_INIT/IKE_AUTH chain, CHILD_CREATE, IKE_REKEY, IKE_DELETE, DPD.
- `ChainAndDpd`: the chain without VENDOR, MOBIKE, DPD.
- `BeforeAndAfterInit`: the SA states in which the split `queue_ike_*` halves are called.

### `OqsDrbg.tla`: the OQS random number adapter across worker threads

liboqs draws randomness through one global callback, `oqs_drbg_rand()`, which is not given the KEM object. So a KEM stores its DRBG in the calling thread's slot of `drbg_key` with `oqs_drbg_set()` just before it calls into liboqs, and the callback reads the slot back. The KEM objects (`oqs_kem.c`) are not in this repository; they are modelled from the spec: a KEM owns one DRBG from creation to destruction, sets it before each liboqs call that draws, and runs on one thread at a time (spec section 5).

| Variable | Code |
|---|---|
| `loaded` | the plugin object returned by `oqs_plugin_create()` exists |
| `key` | `drbg_key`: `"none"` (static NULL), `"live"` after `oqs_drbg_init()`, `"destroyed"` after `oqs_drbg_deinit()` |
| `slot[t]` | `drbg_key->get()` on thread `t` |
| `heap[d]` | a `drbg_t` is allocated at address `d` |
| `drbgOf[k]` | KEM `k`'s DRBG, `NULL` while `k` does not exist |
| `pc[t]` | the KEM whose liboqs call thread `t` is inside, between its set and its draw |

`OqsDrbgInit`, `OqsDrbgDeinit`, `OqsDrbgSet` (ignores `NULL`) and `OqsDrbgRand` translate `oqs_drbg.c`. `OqsPluginCreate` and `OqsPluginDestroy` translate the plugin's constructor and `destroy()`, which the plugin loader calls. Destroy is guarded by "no KEM exists": the daemon destroys its IKE_SAs before it unloads plugins. The KEM actions are `KemCreate(k, d)` (allocate a DRBG at a free address), `KemDestroy(k)` (free it; the address may be reused), `KemSetDrbg(t, k)` and `KemDraw(t)`. A KEM call is two steps, so the other thread can run in between. `MCOqsDrbg.tla` uses 2 threads, 2 KEMs and 3 addresses.

### `RetransmitTimers.tla`: the deadlines of one fragmented IKE_AUTH exchange

`TaskManager` lets a job fire once nothing is in flight, so it says nothing about *when*. This module adds a discrete clock (`now`, in ms) to one IKE_AUTH exchange, from the moment after IKE_SA_INIT:

| Variable | Code |
|---|---|
| `jobs` | the initiator's scheduled retransmit jobs, as `[mid, at]` records. Initially this is the IKE_SA_INIT job (MID 0, `schedule_job_ms(retransmission_timeout(0))`), which `process_response` never cancels (1413-1422) |
| `deleteAt` | the deadline of the responder's `delete_ike_sa_job`, armed when `process_message` first finds the SA's config |
| `iretx`, `acked`, `isa` | `initiating.retransmitted`, the tracker's acknowledged fragments, the initiator's SA state |
| `held`, `rsa` | the responder's defrag message and SA state |

- `ScheduleJob(t, s)` and `ScheduleJobMs(t, ms)` model the two scheduler calls by their units: `t + s * 1000` and `t + ms`.
- `Retransmit(mid, t)` is `retransmit()` reduced to what it sends and the jobs it arms:
  - the early exit when all fragments are acknowledged;
  - for the stale IKE_SA_INIT job, the recursion into `retransmit(initiating.mid)` while the tracker misses fragments (873-886); otherwise a silent exit.
- `RetransmitMain(t)` is the main block for IKE_AUTH:
  - give-up after `Tries`;
  - on the selective path, all fragments on the first send and only the missing ones after, then `schedule_job(1800)`;
  - on the whole-message path, all fragments, then `schedule_job_ms(retransmission_timeout(n))`.
- `Backoff(n)` is `retransmission_timeout` without jitter. That function is not in this repository, so it is modelled from spec section 4.2.
- `ReceiveFrag` is `handle_fragment`: it holds the fragment, sends the SFR ACK, and completes IKE_AUTH on the last fragment.
- `DeleteJob` is `delete_ike_sa_job(FALSE)`: it destroys the SA unless the SA is established.
- Packets cross the network in a time negligible against every timer. So a timer expires only when nothing is in flight and IKE_AUTH has been sent, and time then jumps to the earliest deadline.
- The model follows the exchange until an SA is established or destroyed. What a stale job does afterwards is `TaskManager`'s subject.

`MCRetransmitTimers.tla` sets 3 fragments, as in the spec's scenario B. It uses a half-open timeout of 30 s, the value of `HALF_OPEN_IKE_SA_TIMEOUT` in strongSwan (defined outside this repository); any value below 1800 s gives the same trace. The whole-message backoff has a 4 s base and factor 1.8.

## Runs

| Run | cfg | Expect | Shows |
|---|---|---|---|
| fragmentack_pass | MCFragmentAck.cfg | pass | ACKs of incomplete messages list exactly the held fragments (MIDs 0, 1, 65535; 2–64 fragments) |
| taskmanager_safety | MCTaskManager.cfg | pass | `TypeOK`, `AckSound`, `RequestWindow` with both peers on SFR, 1 loss, 1 duplicate, Tries = 1 (43,862 states) |
| stale_giveup | MCTaskManager_StaleGiveUp.cfg | violation | SFR on the initiator only: the stale job of IKE_AUTH destroys the SA with no loss |
| ack_consumes_mid | MCTaskManager_AckMid.cfg | violation | the first MID-0 ACK advances the responder's `initiating.mid` |
| child_fragment_drop | MCTaskManager_ChildDrop.cfg | violation | a fragmented CREATE_CHILD_SA is ACKed and dropped; it never completes |
| lost_response_stall | MCTaskManager_LostResponse.cfg | violation | a lost IKE_AUTH response after full ACK is never recovered |
| response_hash_overwrite | MCTaskManager_HashOverwrite.cfg | violation | an ACK response overwrites the request hash; one loss then tears the SA down |
| window_refinement | MCTaskManager_Window.cfg | pass | SFR on the initiator only, 1 loss, 1 duplicate: the two task managers implement `ExchangeWindow`, and every exchange ends (2,621 states) |
| taskqueues_ownership | MCTaskQueues.cfg | pass | `TypeOK` and `TaskOwnership` across every queue operation, the split calls, collisions, 1 failure and 1 reset (6 tasks, 414,639 states) |
| taskqueues_live | MCTaskQueues_Live.cfg | pass | `QueuedTaskRuns` under `FairSpec`: every task waiting on an established SA leaves the queue (7 tasks, 2,604 states) |
| halfopen_before_retry | MCRetransmitTimers.cfg | violation | SFR on both peers, two losses and Tries = 2: the stale IKE_SA_INIT job resends the lost fragment at 4 s, that resend is lost, the next retry is 1,800,000 ms out, and the responder's half-open job destroys its SA at 30,000 ms |
| oqs_drbg_threads | MCOqsDrbg.cfg | pass | `DrawsOwnDrbg`: with two threads interleaving set and draw, DRBG addresses reused, and plugin reloads, every draw uses the calling KEM's own DRBG (381 states) |

Each violation is recorded as a finding in `PROJECT.json`. Every property of a passing run has a mutant, and each mutant is an operator defined just before the definition it replaces:

| Property | Mutant | What it changes |
|---|---|---|
| `HeldFragmentsAcked` | `WireWordHostOrder` | `htons` is missing |
| `TypeOK` | `GiveUpLate` | off by one in the give-up test |
| `AckSound` | `AckForAllFragments` | the ACK claims every fragment |
| `RequestWindow` | `IsRetransmitPrevAsNew` | a retransmission is processed as a new request |
| `WindowSpec` | `IsRetransmitPrevAsNew` | a retransmitted request is served a second time |
| `WindowEnds` | `RetransmitMainNoReschedule` | the whole-message path does not schedule its next job |
| `TypeOK` (TaskQueues) | `ChainRoundsOffByOne` | a task counts one exchange too many |
| `TaskOwnership` | `ResetLosesActive` | `reset()` drops the active tasks instead of requeueing them |
| `QueuedTaskRuns` | `EstablishedPriorityNoDpd` | DPD is missing from `initiate()`'s priority list |
| `DrawsOwnDrbg` | `OqsDrbgSetShared` | `oqs_drbg_set()` stores into one process-wide slot instead of the thread's |

The stale-job recursion at line 886 (`retransmit(initiating.mid)` from a job of an earlier exchange) also breaks spec section 8 invariant 5, "at most one live retransmit job". With both peers on SFR, two live jobs appear as soon as IKE_AUTH is sent. This is a symptom of the defect at line 629, which `stale_giveup` shows destroying a healthy SA. It is listed as a hazard, not given a run of its own.

`halfopen_before_retry` is a question of units. Line 776 passes `timeout = 1800` to `schedule_job`, which takes seconds; line 2754 passes `half_open_timeout` seconds to the same call, and the code's own log line says "next retransmit in %d ms". So the selective retries are 30 minutes apart, while the responder gives up after 30 s. A first lost fragment is still recovered. The IKE_SA_INIT job, armed about 4 s after IKE_SA_INIT and never cancelled, fires during IKE_AUTH, and its stale-job branch resends the missing fragments. A second loss of that fragment then has no retry before the half-open deadline, although `retransmit.tries` is not spent. `LossesRecovered` holds with the spec's 1800 ms (573 states with Tries = 2, and 1,040 states with Tries = 3 and three losses) and on the whole-message path. So the violation comes from the unit alone.

The ACK sent for the fragment that completes a message is built after the merge (line 4025). The reassembler then reports nothing, and the code takes `fragment_number` as the total. With arrival order 1, 3, 2, the final ACK lists only 1..2, where spec section 4.7 asks for all fragments. TLC shows this when `HeldFragmentsAcked` is also stated for merged messages. It costs nothing, because the tracker accumulates and the ACK for fragment 3 already listed it. It is kept as a hazard, not a run.

### Bounds and why they suffice

- Two fragments for IKE_AUTH are enough for:
  - a partial ACK (a strict subset);
  - out-of-order arrival;
  - fragment 1 and a later fragment being treated differently by the hash and by `is_retransmit`.
- `Tries = 1` already exercises both the give-up test and a retransmission. A give-up needs `retransmitted > tries`, so it takes two job runs.
- In TaskManager, one loss and one duplicate reach every hazard listed, as the violation runs show. Each TaskManager finding needs at most one loss.
- Wider fragment counts are covered by the codec model instead: 64 fragments and the edges of each 16-bit word. Beyond the passing bounds the code is wrong, and both cases are listed as hazards:
  - With 66 fragments, fragment 65 is never acknowledged.
  - From MID 65536 on, the 16-bit ACK field no longer matches the tracker.

  TLC finds `HeldFragmentsAcked` violated in both cases.
- TaskQueues, safety: 6 task ids.
  - `queue_ike` uses 4 of them (VENDOR, INIT, AUTH, ESTABLISH; NATD, CERT and CONFIG behave like AUTH).
  - That leaves room for an active IKE_REKEY plus a colliding passive IKE_REKEY or IKE_DELETE, or for a CHILD_CREATE that MBB reauthentication migrates.
  - One failure and one reset reach the flush and the requeue paths.
- OqsDrbg: 2 threads are the least that can interleave between a set and a draw. 2 KEMs and 3 addresses let one KEM's DRBG be freed and its address reallocated to the other KEM while a thread's slot still points at it.
- RetransmitTimers: 3 fragments are scenario B. Two losses with `Tries = 2` are the least that gets past the stale IKE_SA_INIT job's resend, while leaving the initiator retries it has not spent. The clock takes only the deadlines the code arms, so its values stay few.
- TaskQueues, liveness: 7 ids, with a chain of 4 (MOBIKE instead of VENDOR). Three more tasks can then be queued, adopted ahead of a queued one, or requested by the peer.

### Fairness

The liveness properties of `TaskManager` (`WindowEnds`, and `ExchangeCompletes` in the violation runs) are checked under `FairSpec`, which assumes weak fairness of `Start`, `RetransmitJob` and `Deliver`. The code justifies each:

- The scheduler runs every due job.
- The receiver processes every packet that arrives.
- A queued task is initiated when the SA is idle.

In `TaskQueues`, `FairSpec` assumes weak fairness of `Respond` and of the `initiate_tasks` jobs (`Due`):

- The peer answers every request; loss belongs to `TaskManager`.
- The scheduler runs every job it was given.

Clients and the peer's requests are not fair. `QueuedTaskRuns` is about tasks waiting on an established SA. In CREATED only a client's `queue_ike()` lets `initiate()` start anything. In CONNECTING, `initiate()` activates nothing: its state switch has no case for it (see the split-method hazard below).

`RetransmitTimers` has one invariant and no fairness. Its deadlock check is off because the exchange really stops once an SA is established or destroyed.

`OqsDrbg` states only safety and action properties, so it assumes no fairness. Its deadlock check is on: plugins can always be loaded or unloaded and KEMs created.

Loss and duplication are not fair. Deadlock is not checked because an established SA whose exchanges are all done has nothing left to do.

## Not modelled, and why

- In `TaskQueues`, the tasks' `build`/`process`, `create_task_enumerator`/`remove_task` (called only from ike_sa.c) and the ME tasks are not modelled. `TaskQueues` and `TaskManager` are separate models: the tracker and jobs that `reset()` destroys live in `TaskManager`, which has no reset.
- Suppose `queue_ike_auth_only()` is called after the IKE_SA_INIT of `queue_ike_init_only()`. `initiate()` in IKE_CONNECTING activates nothing, so IKE_AUTH would never be sent. The callers of the split methods are not in this repository, so this is listed as a hazard rather than checked as a finding.
- The MOBIKE routability-check branch of `retransmit`, deferred exchanges, MID sync and IKE_INTERMEDIATE are all outside this first model.
- `message_t` reassembly (message.c) is not in this repository. It is modelled from the spec as a set of held fragment numbers that ignores duplicates.
- The statistics and logging functions are left out; no decision depends on them.
- The unused `retransmit_missing_fragments` is left out because it has no caller.
- The OQS plugin's feature table is reduced to "`oqs_kem_create` is registered while the plugin is loaded". Its KE method list selects algorithms, and no decision of this code depends on which one.
- The bytes a DRBG generates are not modelled. So a failing `generate()` in `oqs_drbg_rand()` (only logged; the buffer is left unfilled) is listed as a hazard, not checked. So is `oqs_drbg_set(NULL)` keeping the thread's previous DRBG: the KEMs that would pass it are not in this repository.
- Timer jitter is left out: `retransmission_timeout` is not in this repository, and the finding is about the selective path's fixed delay, which has no jitter. The timers module covers IKE_AUTH only. An IKE_SA_INIT fragment loss is resent on the whole-message path, because SFR support is not yet known then.
- The test programs are left out. `test_hqc_128.c` creates KEMs after `library_init()` without loading the oqs plugin, so `oqs_drbg_init()` never runs there; Within the daemon, the KEM constructor is reachable only through the loaded plugin, so no property is stated about `drbg_key` being live; it would hold by construction. `test_simple.c` re-implements the tracker and codec and is a candidate for checking against `FragmentAck`.
- The memory defects in the tracker (an invalid free and a leak) and the uninitialised `packet` are below the level of a protocol model. They are listed as hazards.

## Plan for later sittings

1. Compose `TaskQueues` with `TaskManager`: replace `Work` with activation from the queues, and add `reset()`'s destruction of the tracker while jobs are pending. `process_response()` returns `initiate()` right after a reset. It neither advances the MID nor drops `current_retransmit_job`. So the old IKE_SA_INIT job (MID 0) stays live beside the new one, and both whole-message retransmit jobs count against the same give-up budget.
2. Model the test_simple.c codec and check it against `FragmentAck`.
