----------------------------- MODULE Credentials -----------------------------
(***************************************************************************)
(* Credentials stores (registry/remote/credentials): Login, Logout and     *)
(* Credential on a DynamicStore with a memory store to fall back on.  The  *)
(* DynamicStore uses a credential helper, the native store, or the config  *)
(* file, whose content Config keeps in memory and saves as a whole.        *)
(*                                                                         *)
(* Taking and leaving the lock of Config and of OnceOrRetry, saving the    *)
(* file and running a helper program are steps.  The process may stop at   *)
(* any point and be started again with other options.  It is the only one  *)
(* that writes the config file.                                            *)
(***************************************************************************)
EXTENDS Naturals, FiniteSets, TLC

CONSTANTS
    Procs,         \* goroutines
    Registries,    \* registries to log in to; Docker may be one
    Docker,        \* docker.io
    Programs,      \* sets of calls <<method, registry, kind of credential>>; a
                   \* behaviour makes the calls of one of them
    Files,         \* what to start with, see file
    Helper,        \* the helper program that credHelpers names
    InFallback,    \* addresses with a credential in the fallback store
    DefaultNative, \* the platform's native store if it is installed, or ""
    MaxFaults, MaxRestarts

VARIABLES
    file,          \* the config file: credsStore, credHelpers and legacy (sets of
                   \* addresses; legacy: with an entry under a URL), and auths
    mem,           \* Config: the same fields
    opts,          \* StoreOptions
    detected,      \* detectedCredsStore
    native,        \* native[s][a]: what native store s has for address a
    rwLock, onceLock, onceDone,
    job,           \* job[p]: the call that p is in
    todo,          \* the calls that are still to be made
    faults, restarts,
    cand,          \* history: cand[a]: values that may be the last put, by calls that returned
    tried          \* history: tried[a]: values of calls that have not returned without error

vars == <<file, mem, opts, detected, native, rwLock, onceLock, onceDone, job, todo, faults,
          restarts, cand, tried>>

Free == "free"
Index == "https://index.docker.io/v1/"
DockerHost == "registry-1.docker.io"

\* A credential: the number of the call that it came with, and which of a username with a
\* password ("basic"), a refresh token and an access token it has; "colon"
\* has a colon in the username, and "none" is no credential.
Value(n, k) == [n |-> n, kind |-> k]
Empty == Value(0, "none")

\* Where the registry is: what auth.Client asks credentials for.
Host(r) == IF r = Docker THEN DockerHost ELSE r

ServerAddressFromRegistry(r) == IF r = Docker THEN Index ELSE r

\* A mutant: the host is taken for the server address.
SameAddress(h) == h

ServerAddressFromHostname(h) == IF h = DockerHost THEN Index ELSE h

Addresses == {ServerAddressFromRegistry(r) : r \in Registries} \cup {Host(r) : r \in Registries}
NativeStores == {DefaultNative, Helper} \cup ({f.credsStore : f \in Files} \ {""})

\* What a native store keeps: a refresh token, or else username and password.
NativeForm(v) ==
    CASE v.kind \in {"refresh", "all"} -> Value(v.n, "refresh")
      [] v.kind = "access" -> Value(v.n, "none")
      [] OTHER -> v

\* The file keeps all of a credential, but for usernames with a colon.
ValidateCredentialFormat(v) == v.kind # "colon"

IsAuthConfigured(c) ==
    \/ c.credsStore # "" \/ c.credHelpers # {} \/ c.legacy # {}
    \/ \E a \in Addresses : c.auths[a] # Empty

\* NewStore: the file is loaded, the native store detected.
DetectedFor(o, c) == IF o.detect /\ ~IsAuthConfigured(c) THEN DefaultNative ELSE ""

AllOptions == [plaintext : BOOLEAN, detect : BOOLEAN]

\* may: what Get may return; over: the values that were there before a put.
Idle == [op |-> "none", pc |-> "idle", a |-> "", v |-> Empty, store |-> "", may |-> {},
         over |-> {}, out |-> "none"]

Init ==
    /\ \E f \in Files : file = f @@ [auths |-> [a \in Addresses |-> Empty]]
    /\ mem = file
    /\ opts \in AllOptions
    /\ detected = DetectedFor(opts, file)
    /\ native = [s \in NativeStores |-> [a \in Addresses |-> Empty]]
    /\ rwLock = Free /\ onceLock = Free /\ onceDone = FALSE
    /\ job = [p \in Procs |-> Idle]
    /\ todo \in Programs
    /\ faults = 0 /\ restarts = 0
    /\ cand = [a \in Addresses |-> {Empty}]
    /\ tried = [a \in Addresses |-> {}]
------------------------------------------------------------------------------
At(p, pc) == job[p].pc = pc
Update(p, fields) == job' = [job EXCEPT ![p] = fields @@ @]
Goto(p, pc) == Update(p, [pc |-> pc])

configVars == <<file, mem, rwLock>>
sessionVars == <<opts, detected, restarts>>
onceVars == <<onceLock, onceDone>>
historyVars == <<cand, tried>>

\* What the store of p keeps of the value of its call.
Kept(p) == IF job[p].store = "" THEN job[p].v ELSE NativeForm(job[p].v)

Fail(p) == Update(p, [pc |-> "done", out |-> "error"]) /\ UNCHANGED historyVars

\* A put or a delete returns without error: it replaces what was there when
\* it began.
Succeed(p) ==
    /\ Update(p, [pc |-> "done", out |-> "ok"])
    /\ cand' = [cand EXCEPT ![job[p].a] = (@ \ job[p].over) \cup {Kept(p)}]
    /\ tried' = [tried EXCEPT ![job[p].a] = @ \ {job[p].v, Kept(p)}]

\* Login, Logout and the function that Credential returns; every Get of the
\* address may see what the call puts.
Call(p, op, r, k) ==
    LET a == IF op = "get" THEN ServerAddressFromHostname(Host(r)) ELSE ServerAddressFromRegistry(r)
        v == Value(Cardinality(todo), k)
        new == IF op = "get" THEN {} ELSE {v, NativeForm(v)} IN
    /\ job[p].pc \in {"idle", "done"}
    /\ todo' = todo \ {<<op, r, k>>}
    /\ tried' = [tried EXCEPT ![ServerAddressFromRegistry(r)] = @ \cup new]
    /\ job' = [q \in Procs |->
          IF q = p THEN [op |-> op, pc |-> IF op = "put" THEN "ping" ELSE "start", a |-> a, v |-> v,
                         over |-> cand[ServerAddressFromRegistry(r)],
                         may |-> cand[ServerAddressFromRegistry(r)]
                                    \cup tried[ServerAddressFromRegistry(r)]] @@ Idle
          ELSE IF job[q].op = "get" /\ job[q].pc # "done" /\ job[q].a = a
          THEN [job[q] EXCEPT !.may = @ \cup new] ELSE job[q]]
    /\ UNCHANGED <<configVars, sessionVars, onceVars, native, faults, cand>>

\* Login pings the registry with the credentials.
Ping(p) ==
    /\ At(p, "ping")
    /\ \/ Goto(p, "start") /\ UNCHANGED <<faults, historyVars>>
       \/ faults < MaxFaults /\ faults' = faults + 1 /\ Fail(p)
    /\ UNCHANGED <<configVars, sessionVars, onceVars, native, todo>>

\* getHelperSuffix: the helper, credsStore (read under the lock), what has
\* been detected, or "" for the file.
GetHelperSuffix(a) ==
    IF a \in mem.credHelpers THEN Helper
    ELSE IF mem.credsStore # "" THEN mem.credsStore
    ELSE detected

\* getStore, and the checks of FileStore.Put.
GetStore(p) ==
    /\ At(p, "start")
    /\ job[p].a \notin mem.credHelpers => rwLock = Free
    /\ LET s == GetHelperSuffix(job[p].a) IN
       IF s # "" THEN Update(p, [pc |-> "exec", store |-> s]) /\ UNCHANGED historyVars
       ELSE IF job[p].op = "put" /\ (~opts.plaintext \/ ~ValidateCredentialFormat(job[p].v))
       THEN Fail(p)
       ELSE Goto(p, "config") /\ UNCHANGED historyVars
    /\ UNCHANGED <<configVars, sessionVars, onceVars, native, todo, faults>>

\* A helper program stores, erases or gets; or it fails.
Execute(p) ==
    /\ At(p, "exec")
    /\ LET a == job[p].a
           s == job[p].store IN
       \/ /\ job[p].op = "put"
          /\ native' = [native EXCEPT ![s][a] = Kept(p)]
          /\ Goto(p, "once")
          /\ UNCHANGED <<faults, historyVars>>
       \/ /\ job[p].op = "delete"
          /\ native' = [native EXCEPT ![s][a] = Empty]
          /\ Succeed(p)
          /\ UNCHANGED faults
       \/ /\ job[p].op = "get"
          /\ Update(p, [pc |-> "found", v |-> native[s][a]])
          /\ UNCHANGED <<native, faults, historyVars>>
       \/ /\ faults < MaxFaults
          /\ faults' = faults + 1
          /\ Fail(p)
          /\ UNCHANGED native
    /\ UNCHANGED <<configVars, sessionVars, onceVars, todo>>
------------------------------------------------------------------------------
\* GetCredential: the address, or else an entry under a URL of that host.
GetCredential(p) ==
    /\ At(p, "config") /\ job[p].op = "get"
    /\ rwLock = Free
    /\ LET v == mem.auths[job[p].a] IN
       Update(p, [pc |-> "found",
                  v |-> IF v = Empty /\ job[p].a \in mem.legacy THEN Value(0, "legacy") ELSE v])
    /\ UNCHANGED <<configVars, sessionVars, onceVars, native, todo, faults, historyVars>>

\* PutCredential changes the cache before it saves the file.
PutCredential(p) ==
    /\ At(p, "config") /\ job[p].op = "put"
    /\ rwLock = Free
    /\ rwLock' = p
    /\ mem' = [mem EXCEPT !.auths[job[p].a] = job[p].v]
    /\ Goto(p, "save")
    /\ UNCHANGED <<file, sessionVars, onceVars, native, todo, faults, historyVars>>

\* DeleteCredential: without an entry there is nothing to do.
DeleteCredential(p) ==
    /\ At(p, "config") /\ job[p].op = "delete"
    /\ rwLock = Free
    /\ IF mem.auths[job[p].a] = Empty
       THEN Succeed(p) /\ UNCHANGED <<rwLock, mem>>
       ELSE /\ rwLock' = p
            /\ mem' = [mem EXCEPT !.auths[job[p].a] = Empty]
            /\ Goto(p, "save")
            /\ UNCHANGED historyVars
    /\ UNCHANGED <<file, sessionVars, onceVars, native, todo, faults>>

\* saveFile renames a complete file onto the config file.  PutCredential
\* goes on with setCredsStoreOnce.
SaveFile(p) ==
    /\ At(p, "save")
    /\ file' = mem
    /\ rwLock' = Free
    /\ IF job[p].op = "delete" THEN Succeed(p) ELSE Goto(p, "once") /\ UNCHANGED historyVars
    /\ UNCHANGED <<mem, sessionVars, onceVars, native, todo, faults>>

\* saveFile fails: the cache is ahead of the file.
SaveFails(p) ==
    /\ At(p, "save")
    /\ faults < MaxFaults
    /\ faults' = faults + 1
    /\ rwLock' = Free
    /\ Fail(p)
    /\ UNCHANGED <<file, mem, sessionVars, onceVars, native, todo>>

\* storeWithFallbacks.Get: what the primary store has, or else the memory
\* store, filled by NewMemoryStoreFromDockerConfig.
Found(p) ==
    /\ At(p, "found")
    /\ Update(p, [pc |-> "done", out |-> "ok",
                  v |-> IF job[p].v.kind = "none" /\ job[p].a \in InFallback
                        THEN Value(0, "fallback") ELSE job[p].v])
    /\ UNCHANGED <<configVars, sessionVars, onceVars, native, todo, faults, historyVars>>
------------------------------------------------------------------------------
\* OnceOrRetry.Do: the fast path, or the lock is awaited.
OnceFast(p) ==
    /\ At(p, "once")
    /\ IF onceDone THEN Succeed(p) ELSE Goto(p, "oncelock") /\ UNCHANGED historyVars
    /\ UNCHANGED <<configVars, sessionVars, onceVars, native, todo, faults>>

OnceSlow(p) ==
    /\ At(p, "oncelock")
    /\ onceLock = Free
    /\ IF onceDone \/ detected = "" THEN
          Succeed(p) /\ onceDone' = TRUE /\ UNCHANGED onceLock
       ELSE
          Goto(p, "set") /\ onceLock' = p /\ UNCHANGED <<onceDone, historyVars>>
    /\ UNCHANGED <<configVars, sessionVars, native, todo, faults>>

\* SetCredentialsStore(detected).
SetCredentialsStore(p) ==
    /\ At(p, "set")
    /\ rwLock = Free
    /\ rwLock' = p
    /\ mem' = [mem EXCEPT !.credsStore = detected]
    /\ Goto(p, "saveset")
    /\ UNCHANGED <<file, sessionVars, onceVars, native, todo, faults, historyVars>>

SaveSet(p) ==
    /\ At(p, "saveset")
    /\ file' = mem
    /\ rwLock' = Free
    /\ onceDone' = TRUE /\ onceLock' = Free
    /\ Succeed(p)
    /\ UNCHANGED <<mem, sessionVars, native, todo, faults>>

\* A mutant: a sync.Once, which is done also after a failure.
SaveSetOnce(p) ==
    /\ At(p, "saveset")
    /\ faults < MaxFaults
    /\ faults' = faults + 1
    /\ rwLock' = Free
    /\ onceDone' = TRUE /\ onceLock' = Free
    /\ Fail(p)
    /\ UNCHANGED <<file, mem, sessionVars, native, todo>>

SaveSetFails(p) ==
    /\ At(p, "saveset")
    /\ faults < MaxFaults
    /\ faults' = faults + 1
    /\ rwLock' = Free
    /\ onceLock' = Free
    /\ Fail(p)
    /\ UNCHANGED <<file, mem, onceDone, sessionVars, native, todo>>

\* The process stops and starts again: NewStore loads the file.
Restart(o) ==
    /\ restarts < MaxRestarts
    /\ restarts' = restarts + 1
    /\ opts' = o
    /\ mem' = file
    /\ detected' = DetectedFor(o, file)
    /\ rwLock' = Free /\ onceLock' = Free /\ onceDone' = FALSE
    /\ job' = [p \in Procs |-> Idle]
    /\ UNCHANGED <<file, native, todo, faults, historyVars>>

Step(p) ==
    \/ Ping(p) \/ GetStore(p) \/ Execute(p)
    \/ GetCredential(p) \/ PutCredential(p) \/ DeleteCredential(p)
    \/ SaveFile(p) \/ SaveFails(p) \/ Found(p)
    \/ OnceFast(p) \/ OnceSlow(p) \/ SetCredentialsStore(p) \/ SaveSet(p) \/ SaveSetFails(p)

Next ==
    \/ \E p \in Procs, call \in todo : Call(p, call[1], call[2], call[3])
    \/ \E p \in Procs : Step(p)
    \/ \E o \in AllOptions : Restart(o)

Spec == Init /\ [][Next]_vars
------------------------------------------------------------------------------
\* What Credential finds for a registry is what the last Login or Logout of
\* it left there, or one of those that have overlapped or failed: in the
\* same process or after restarts with other options, whichever store each
\* of them has picked.  (Where that is nothing, an entry of a legacy file or
\* of the fallback store is found: Delete removes neither.)
GetReturnsPut ==
    \A p \in Procs :
        job[p].op = "get" /\ job[p].out = "ok" =>
            \/ job[p].v \in job[p].may
            \/ /\ job[p].v.kind \in {"none", "legacy", "fallback"}
               /\ \E v \in job[p].may : v.kind = "none"

\* Once a Put has returned without error, the detected native store is in
\* the config file: of several Puts whose first attempts to save it fail,
\* none returns before one has succeeded (OnceOrRetry).
DetectedSaved ==
    \A p \in Procs :
        job[p].op = "put" /\ job[p].out = "ok" /\ detected # "" => file.credsStore = detected
==============================================================================
