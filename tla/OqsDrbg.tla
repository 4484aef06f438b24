------------------------------ MODULE OqsDrbg ------------------------------
(***************************************************************************)
(* The random number adapter of the OQS plugin (oqs_drbg.c) and the plugin *)
(* object that creates and destroys it (oqs_plugin.c).                     *)
(*                                                                         *)
(* liboqs draws all the randomness of a KEM key pair or encapsulation      *)
(* through one global callback, oqs_drbg_rand().  The callback cannot be   *)
(* given the KEM object, so the KEM stores its own DRBG in a thread_value_t *)
(* with oqs_drbg_set() just before it calls into liboqs, and the callback  *)
(* reads the DRBG of the calling thread back.  Worker threads run the KEM  *)
(* calls of different IKE_SAs concurrently (spec section 5), each call     *)
(* being two steps of its thread: the set, then liboqs' draw.              *)
(*                                                                         *)
(* The KEM objects (oqs_kem.c) are not part of this repository; what they  *)
(* do is taken from the spec: a KEM owns one DRBG from creation to         *)
(* destruction, sets it before every liboqs call that draws randomness,    *)
(* and is used by one thread at a time (spec section 5: an IKE_SA is held  *)
(* exclusively while one of its operations runs).  A DRBG is a heap        *)
(* object: once freed its address may be handed out to the next KEM.      *)
(***************************************************************************)

CONSTANTS
    Threads,    \* worker threads calling into liboqs
    Kems,       \* KEM objects (oqs_kem_t), each of one IKE_SA key exchange
    Drbgs,      \* heap addresses a drbg_t may be allocated at
    NULL        \* the NULL pointer, and a thread with no KEM call running

ASSUME NULL \notin Kems \cup Drbgs

VARIABLES
    loaded,     \* the plugin object exists (oqs_plugin_create() returned it)
    key,        \* drbg_key: "none" before the first init, "live", "destroyed"
    slot,       \* slot[t]: the value drbg_key holds for thread t
    heap,       \* heap[d]: the drbg_t at address d is allocated
    drbgOf,     \* drbgOf[k]: the DRBG of KEM k, NULL while k does not exist
    pc          \* pc[t]: the KEM whose liboqs call thread t is in, or NULL

vars == <<loaded, key, slot, heap, drbgOf, pc>>

-----------------------------------------------------------------------------
(* oqs_drbg.c *)

\* oqs_drbg_init(): a fresh thread value, NULL on every thread
OqsDrbgInit ==
    /\ key' = "live"
    /\ slot' = [t \in Threads |-> NULL]

\* oqs_drbg_deinit(): the thread value is destroyed, drbg_key dangles
OqsDrbgDeinit ==
    /\ key' = "destroyed"
    /\ UNCHANGED slot

\* oqs_drbg_set(drbg) on thread t: a NULL DRBG is ignored and the thread
\* keeps whatever it held; the new slots of drbg_key
OqsDrbgSetShared(t, d) ==
    IF d # NULL THEN [x \in Threads |-> d] ELSE slot

OqsDrbgSet(t, d) ==
    IF d # NULL THEN [slot EXCEPT ![t] = d] ELSE slot

\* oqs_drbg_rand() on thread t: the DRBG it generates from, NULL when the
\* thread holds none (the buffer is then left as it was)
OqsDrbgRand(t) == slot[t]

-----------------------------------------------------------------------------
(* oqs_plugin.c *)

\* oqs_plugin_create(), the plugin loader loading "oqs"
OqsPluginCreate ==
    /\ ~loaded
    /\ loaded' = TRUE
    /\ OqsDrbgInit
    /\ UNCHANGED <<heap, drbgOf, pc>>

\* destroy(), the plugin loader unloading "oqs": the daemon has destroyed
\* every IKE_SA, and so every KEM, before it unloads its plugins
OqsPluginDestroy ==
    /\ loaded
    /\ \A k \in Kems : drbgOf[k] = NULL
    /\ loaded' = FALSE
    /\ OqsDrbgDeinit
    /\ UNCHANGED <<heap, drbgOf, pc>>

\* get_features(): oqs_kem_create is registered for the KE methods while
\* the plugin is loaded
KemRegistered == loaded

-----------------------------------------------------------------------------
(* The KEM objects, from the spec *)

\* oqs_kem_create(): a new KEM allocates its DRBG at a free address d
KemCreate(k, d) ==
    /\ KemRegistered
    /\ drbgOf[k] = NULL
    /\ ~heap[d]
    /\ heap' = [heap EXCEPT ![d] = TRUE]
    /\ drbgOf' = [drbgOf EXCEPT ![k] = d]
    /\ UNCHANGED <<loaded, key, slot, pc>>

\* destroy(): the KEM frees its DRBG; no thread is inside a call of k
KemDestroy(k) ==
    /\ drbgOf[k] # NULL
    /\ \A t \in Threads : pc[t] # k
    /\ heap' = [heap EXCEPT ![drbgOf[k]] = FALSE]
    /\ drbgOf' = [drbgOf EXCEPT ![k] = NULL]
    /\ UNCHANGED <<loaded, key, slot, pc>>

\* get_public_key() or set_public_key() of k on thread t: oqs_drbg_set()
\* with k's DRBG, before the liboqs key pair or encapsulation call
KemSetDrbg(t, k) ==
    /\ pc[t] = NULL
    /\ drbgOf[k] # NULL
    /\ \A u \in Threads : pc[u] # k
    /\ slot' = OqsDrbgSet(t, drbgOf[k])
    /\ pc' = [pc EXCEPT ![t] = k]
    /\ UNCHANGED <<loaded, key, heap, drbgOf>>

\* the liboqs call draws its randomness through oqs_drbg_rand() and returns
KemDraw(t) ==
    /\ pc[t] # NULL
    /\ pc' = [pc EXCEPT ![t] = NULL]
    /\ UNCHANGED <<loaded, key, slot, heap, drbgOf>>

Init ==
    /\ loaded = FALSE
    /\ key = "none"
    /\ slot = [t \in Threads |-> NULL]
    /\ heap = [d \in Drbgs |-> FALSE]
    /\ drbgOf = [k \in Kems |-> NULL]
    /\ pc = [t \in Threads |-> NULL]

Next ==
    \/ OqsPluginCreate
    \/ OqsPluginDestroy
    \/ \E k \in Kems, d \in Drbgs : KemCreate(k, d)
    \/ \E k \in Kems : KemDestroy(k)
    \/ \E t \in Threads, k \in Kems : KemSetDrbg(t, k)
    \/ \E t \in Threads : KemDraw(t)

Spec == Init /\ [][Next]_vars

-----------------------------------------------------------------------------
(* Properties *)

\* Every draw liboqs makes for a KEM call generates from the DRBG that KEM
\* owns now: never from the DRBG another thread set in between, never from
\* a freed DRBG, nor from one reallocated at the same address for another
\* KEM.  This is what the thread_value_t of oqs_drbg_set() and
\* oqs_drbg_rand() is for.
DrawsOwnDrbg ==
    [][\A t \in Threads :
         KemDraw(t) => OqsDrbgRand(t) = drbgOf[pc[t]]]_vars

=============================================================================
