---------------------------- MODULE ProjectCache ----------------------------
(* The caches between a reader and the active deployment of one project:     *)
(* ProjectResolver keeps an instance per version and locale, which names a   *)
(* deployment's directory, and CachedProject keeps what the instances answer *)
(* in Redis, under keys that name the project and the question only.         *)
(* revalidate_project drops both after a deployment or a deletion.           *)
EXTENDS Naturals, FiniteSets

CONSTANTS
    MaxIds,         \* a bound on the deployments
    Options,        \* the versions and locales that readers ask for
    Keys,           \* the cached questions
    Lenient,        \* those whose answer for a missing directory is an empty one
    Readers,        \* the requests that read the project
    MaxSuppliers,   \* a bound on the suppliers at work
    MayFail         \* whether Redis and the activation may fail

ASSUME CacheAssumption == /\ MaxIds \in Nat \ {0} /\ MaxSuppliers \in Nat /\ Options # {}
                          /\ Lenient \subseteq Keys /\ MayFail \in BOOLEAN

Ids == 1 .. MaxIds
Default == CHOOSE o \in Options : TRUE     \* of a reader that has not chosen yet
Empty == MaxIds + 1             \* the answer computed from a missing directory
Revalidations == {"deploy", "delete"}

VARIABLES
    \* Publication, as in module Deployment.
    issued, active, previous, dirs, publishing,
    \* Revalidations: how far each is, and the keys its scan has found.
    rv, found,
    \* The caches.  resolved[o] is the deployment of the instance for o, or 0;
    \* redis[k] is the deployment whose answer is stored, Empty, or 0.
    resolved, redis,
    \* Readers: how far each is, the instance's deployment and its options.
    at, dep, option,
    \* The detached suppliers: <<deployment, options, key, answer>>; answer is
    \* 0 until it is computed.
    suppliers,
    \* For the properties: undisturbed[r] says that no reader or supplier of an
    \* older deployment was at work so far during r, and that nothing was
    \* published; clean, that such a revalidation has ended since the last
    \* publication.
    undisturbed, clean

deployVars == <<issued, active, previous, dirs, publishing>>
rvVars == <<rv, found>>
readerVars == <<at, dep, option>>
vars == <<deployVars, rvVars, resolved, redis, readerVars, suppliers, undisturbed, clean>>

TypeOK ==
    /\ {issued, active, previous} \subseteq 0 .. MaxIds /\ dirs \subseteq Ids
    /\ publishing \in {"idle", "withdrawn", "published"}
    /\ rv \in [Revalidations -> {"idle", "scan", "delete", "skip", "invalidate"}]
    /\ found \in [Revalidations -> SUBSET Keys]
    /\ resolved \in [Options -> 0 .. MaxIds] /\ redis \in [Keys -> 0 .. Empty]
    /\ at \in [Readers -> {"start", "check", "insert", "hold"}]
    /\ dep \in [Readers -> 0 .. MaxIds] /\ option \in [Readers -> Options]
    /\ suppliers \subseteq Ids \X Options \X Keys \X (0 .. Empty)
    /\ undisturbed \in [Revalidations -> BOOLEAN] /\ clean \in BOOLEAN

Init ==
    /\ issued = 0 /\ active = 0 /\ previous = 0 /\ dirs = {} /\ publishing = "idle"
    /\ rv = [r \in Revalidations |-> "idle"] /\ found = [r \in Revalidations |-> {}]
    /\ resolved = [o \in Options |-> 0] /\ redis = [k \in Keys |-> 0]
    /\ at = [h \in Readers |-> "start"] /\ dep = [h \in Readers |-> 0]
    /\ option = [h \in Readers |-> Default]
    /\ suppliers = {}
    /\ undisturbed = [r \in Revalidations |-> FALSE] /\ clean = TRUE
-----------------------------------------------------------------------------
(* Publication.  The pipeline has left a directory; set_active_deployment    *)
(* withdraws one deployment and activates the other.                         *)
Withdraw ==
    /\ publishing = "idle" /\ rv["deploy"] = "idle" /\ issued < MaxIds
    /\ publishing' = "withdrawn"
    /\ issued' = issued + 1
    /\ dirs' = dirs \cup {issued'}
    /\ previous' = active /\ active' = 0
    /\ UNCHANGED <<rvVars, resolved, redis, readerVars, suppliers>>
Activate ==
    /\ publishing = "withdrawn"
    /\ publishing' = "published" /\ active' = issued
    /\ UNCHANGED <<issued, previous, dirs, rvVars, resolved, redis, readerVars, suppliers>>
(* A failed deployment loses its directory; nothing is revalidated.          *)
FailActivate ==
    /\ MayFail /\ publishing = "withdrawn"
    /\ publishing' = "idle" /\ dirs' = dirs \ {issued}
    /\ UNCHANGED <<issued, active, previous, rvVars, resolved, redis, readerVars, suppliers>>

(* The directory of the previous deployment goes before the caches do.       *)
RemovePrevious ==
    /\ publishing = "published"
    /\ publishing' = "idle" /\ dirs' = dirs \ {previous}
    /\ rv' = [rv EXCEPT !["deploy"] = "scan"]
    /\ UNCHANGED <<issued, active, previous, found, resolved, redis, readerVars, suppliers>>

(* delete_deployment of the active one.                                      *)
DeleteActive ==
    /\ rv["delete"] = "idle" /\ active # 0
    /\ active' = 0
    /\ rv' = [rv EXCEPT !["delete"] = "scan"]
    /\ UNCHANGED <<issued, previous, dirs, publishing, found, resolved, redis, readerVars, suppliers>>
-----------------------------------------------------------------------------
(* revalidate_project: first Redis, by a scan and a deletion of what it      *)
(* found, then the resolver.  An error of Redis is logged only.              *)
Scan(r) ==
    /\ rv[r] = "scan"
    /\ \/ /\ rv' = [rv EXCEPT ![r] = "delete"]
          /\ found' = [found EXCEPT ![r] = {k \in Keys : redis[k] # 0}]
       \/ MayFail /\ rv' = [rv EXCEPT ![r] = "skip"] /\ UNCHANGED found
    /\ UNCHANGED <<deployVars, resolved, redis, readerVars, suppliers>>

Erase(r) ==
    /\ rv[r] = "delete"
    /\ \/ /\ rv' = [rv EXCEPT ![r] = "invalidate"]
          /\ redis' = [k \in Keys |-> IF k \in found[r] THEN 0 ELSE redis[k]]
       \/ MayFail /\ rv' = [rv EXCEPT ![r] = "skip"] /\ UNCHANGED redis
    /\ found' = [found EXCEPT ![r] = {}]
    /\ UNCHANGED <<deployVars, resolved, readerVars, suppliers>>

(* A mutated form: one of the instances goes, not all of the project's.      *)
InvalidateOne(r) ==
    /\ rv[r] \in {"invalidate", "skip"}
    /\ rv' = [rv EXCEPT ![r] = "idle"]
    /\ resolved' = [resolved EXCEPT ![CHOOSE o \in Options : TRUE] = 0]
    /\ UNCHANGED <<deployVars, found, redis, readerVars, suppliers>>

(* A mutated form: the cache forgets the project altogether.                 *)
InvalidateUntyped(r) ==
    /\ rv[r] \in {"invalidate", "skip"}
    /\ rv' = [rv EXCEPT ![r] = "idle"]
    /\ resolved' = [o \in {p \in Options : resolved[p] = active} |-> active]
    /\ UNCHANGED <<deployVars, found, redis, readerVars, suppliers>>

Invalidate(r) ==
    /\ rv[r] \in {"invalidate", "skip"}
    /\ rv' = [rv EXCEPT ![r] = "idle"]
    /\ resolved' = [o \in Options |-> 0]
    /\ UNCHANGED <<deployVars, found, redis, readerVars, suppliers>>
-----------------------------------------------------------------------------
(* A reader.  resolve answers from its cache, or looks the deployment up,    *)
(* checks that its directory is there and inserts the instance.              *)
Resolve(h) ==
    /\ at[h] = "start"
    /\ \E o \in Options :
        /\ option' = [option EXCEPT ![h] = o]
        /\ IF resolved[o] # 0
           THEN at' = [at EXCEPT ![h] = "hold"] /\ dep' = [dep EXCEPT ![h] = resolved[o]]
           ELSE /\ active # 0
                /\ at' = [at EXCEPT ![h] = "check"] /\ dep' = [dep EXCEPT ![h] = active]
    /\ UNCHANGED <<deployVars, rvVars, resolved, redis, suppliers>>

Leave(h) == /\ at' = [at EXCEPT ![h] = "start"]
            /\ dep' = [dep EXCEPT ![h] = 0] /\ option' = [option EXCEPT ![h] = Default]

CheckoutExists(h) ==
    /\ at[h] = "check"
    /\ IF dep[h] \in dirs
       THEN at' = [at EXCEPT ![h] = "insert"] /\ UNCHANGED <<dep, option>>
       ELSE Leave(h)
    /\ UNCHANGED <<deployVars, rvVars, resolved, redis, suppliers>>

Insert(h) ==
    /\ at[h] = "insert"
    /\ at' = [at EXCEPT ![h] = "hold"]
    /\ resolved' = [resolved EXCEPT ![option[h]] = dep[h]]
    /\ UNCHANGED <<deployVars, rvVars, redis, dep, option, suppliers>>

(* get_or_resolve when Redis has no answer: a supplier, unless the instance  *)
(* has one for this key already.  On a hit nothing changes.                  *)
StartSupplier(h, k) ==
    /\ at[h] = "hold" /\ redis[k] = 0
    /\ \A s \in suppliers : <<s[1], s[2], s[3]>> # <<dep[h], option[h], k>>
    /\ Cardinality(suppliers) < MaxSuppliers
    /\ suppliers' = suppliers \cup {<<dep[h], option[h], k, 0>>}
    /\ UNCHANGED <<deployVars, rvVars, resolved, redis, readerVars>>

(* The reader has its answers, or its client has gone.                       *)
Release(h) ==
    /\ at[h] = "hold" /\ Leave(h)
    /\ UNCHANGED <<deployVars, rvVars, resolved, redis, suppliers>>

(* The supplier reads the directory.  An error is not cached.                *)
Compute(s) ==
    /\ s[4] = 0
    /\ LET rest == suppliers \ {s}
           answer(d) == rest \cup {<<s[1], s[2], s[3], d>>}
       IN suppliers' = IF s[1] \in dirs THEN answer(s[1])
                       ELSE IF s[3] \in Lenient THEN answer(Empty) ELSE rest
    /\ UNCHANGED <<deployVars, rvVars, resolved, redis, readerVars>>

Store(s) ==
    /\ s[4] # 0
    /\ redis' = [redis EXCEPT ![s[3]] = s[4]]
    /\ suppliers' = suppliers \ {s}
    /\ UNCHANGED <<deployVars, rvVars, resolved, readerVars>>

(* Redis drops a key (its time is over), the resolver an instance (it holds  *)
(* 128 of all projects).                                                     *)
Expire(k) ==
    /\ redis[k] # 0 /\ redis' = [redis EXCEPT ![k] = 0]
    /\ UNCHANGED <<deployVars, rvVars, resolved, readerVars, suppliers>>
Evict(o) ==
    /\ resolved[o] # 0 /\ resolved' = [resolved EXCEPT ![o] = 0]
    /\ UNCHANGED <<deployVars, rvVars, redis, readerVars, suppliers>>
-----------------------------------------------------------------------------
Step ==
    \/ Withdraw \/ Activate \/ FailActivate \/ RemovePrevious \/ DeleteActive
    \/ \E r \in Revalidations : Scan(r) \/ Erase(r) \/ Invalidate(r)
    \/ \E h \in Readers :
        \/ Resolve(h) \/ CheckoutExists(h) \/ Insert(h) \/ Release(h)
        \/ \E k \in Keys : StartSupplier(h, k)
    \/ \E s \in suppliers : Compute(s) \/ Store(s)
    \/ \E k \in Keys : Expire(k)
    \/ \E o \in Options : Evict(o)

(* Someone works with a deployment that is not the active one.               *)
OldWork == \/ \E h \in Readers : dep[h] \notin {0, active}
           \/ \E s \in suppliers : s[1] # active

Watch ==
    /\ undisturbed' = [r \in Revalidations |->
            /\ rv'[r] \notin {"idle", "skip"} /\ ~OldWork'
            /\ rv[r] # "idle" => undisturbed[r] /\ active' = active]
    /\ clean' = /\ active' = active
                /\ \/ clean
                   \/ \E r \in Revalidations : rv[r] = "invalidate" /\ rv'[r] = "idle" /\ undisturbed[r]

Next == Step /\ Watch
Spec == Init /\ [][Next]_vars
-----------------------------------------------------------------------------
(* A revalidation during which nobody works with an older deployment leaves  *)
(* no instance of an older deployment to be found, until the next change,    *)
(* nor an answer of one, or of a directory that had gone: whatever earlier   *)
(* races, failures and evictions have left behind.                           *)
CachesAreFresh ==
    clean => /\ \A o \in Options : resolved[o] \in {0, active}
             /\ \A k \in Keys : redis[k] \in {0, active}
=============================================================================
