----------------------------- MODULE Repository ------------------------------
(***************************************************************************)
(* A client of a remote repository (registry/remote/repository.go) whose   *)
(* methods are called concurrently, and the registry behind it.  Every     *)
(* HTTP request, every access to referrersState and taking and leaving     *)
(* referrersPingLock is a step; any request may fail.                      *)
(*                                                                         *)
(* The update of a referrers index through the merge pool is one step      *)
(* here: ReferrersIndex has its steps and shows that they implement it.    *)
(* Manifests, blobs and tags are numbers: the registry lists by number.    *)
(***************************************************************************)
EXTENDS Naturals, Sequences, FiniteSets, SequencesExt, TLC

CONSTANTS
    Clients,       \* goroutines that call methods of the Repository
    Manifests, Blobs, Tags, \* disjoint sets of positive numbers
    Subject,       \* Subject[m]: the subject of manifest m, or 0
    Stored,        \* content of the repository, when it exists at first
    Indexable,     \* manifests of a media type that can have a subject
    Supports,      \* the values to try: does the registry have the Referrers API
    PageSize,
    Size,          \* of a blob
    Sources,       \* how many repositories MountFrom names
    Programs,      \* sets of calls <<method, content, tag>>; a behaviour
                   \* has the calls of one of them
    MaxOps         \* bound on calls

VARIABLES
    ops,           \* the calls that are made
    supports,      \* whether the registry has the Referrers API
    has,           \* content in the repository
    tag,           \* tag[t]: the manifest tagged t, or 0
    index,         \* manifests listed in the referrers indexes (tag schema)
    state,         \* referrersState: "unknown", "supported", "unsupported"
    pingLock,      \* who holds referrersPingLock, or 0
    job,           \* job[c]: the call that c is in
    calls,         \* number of calls so far
    userSet,       \* history: the user has set the capability
    acked,         \* history: manifests whose push has returned
    gone           \* history: content whose deletion has begun, tags moved

vars == <<ops, supports, has, tag, index, state, pingLock, job, calls, userSet, acked, gone>>
registryVars == <<supports, has, tag, index>>
historyVars == <<ops, calls, userSet, acked, gone>>

Content == Manifests \cup Blobs

\* got: what fn was called with; must: what was there when the call began;
\* last, link: where a listing goes on; desc, body: of a fetched manifest;
\* off: the offset of a readSeekCloser; pos: where its stream of bytes is.
Idle == [op |-> "none", pc |-> "idle", m |-> 0, t |-> 0, seen |-> "unknown",
         last |-> 0, link |-> 0, got |-> <<>>, must |-> {}, desc |-> 0, body |-> 0,
         src |-> 1, off |-> 0, pos |-> 0, out |-> "none"]

Init ==
    /\ ops \in Programs
    /\ supports \in Supports
    /\ has \in {{}, Stored}
    /\ tag \in {[t \in Tags |-> m] : m \in {0} \cup {m \in Manifests \cap has : Subject[m] = 0}}
    /\ index = {m \in Manifests \cap has : Subject[m] # 0 /\ ~supports}
    /\ state = "unknown"
    /\ pingLock = 0
    /\ job = [c \in Clients |-> Idle]
    /\ calls = 0
    /\ userSet = FALSE
    /\ acked = {}
    /\ gone = {}
------------------------------------------------------------------------------
At(c, op, pc) == job[c].op = op /\ job[c].pc = pc

Update(c, fields) == job' = [job EXCEPT ![c] = fields @@ @]
Goto(c, pc) == Update(c, [pc |-> pc])
Finish(c, out) == Update(c, [pc |-> "done", out |-> out, seen |-> "unknown", link |-> 0, src |-> 1,
                              off |-> 0, pos |-> 0])

\* SetReferrersCapability: compare and swap.
SetCapability(s) == state' = IF state = "unknown" THEN s ELSE state

Referrers(m) == {r \in Manifests : Subject[r] = m}

Call(c, op, m, t) ==
    /\ job[c].pc \in {"idle", "done"}
    /\ calls < MaxOps
    /\ calls' = calls + 1
    /\ job' = [job EXCEPT ![c] =
          [op |-> op, pc |-> "start", m |-> m, t |-> t, last |-> t,
           must |-> CASE op = "referrers" -> acked \cap Referrers(m)
                      [] op = "list" -> {u \in Tags : tag[u] # 0 /\ u > t}
                      [] OTHER -> {}] @@ Idle]
    /\ gone' = IF op = "delete" THEN gone \cup {m} ELSE gone
    /\ UNCHANGED <<ops, registryVars, state, pingLock, userSet, acked>>

\* The user calls SetReferrersCapability.
UserSets(c, s) ==
    /\ At(c, "set", "start")
    /\ SetCapability(s)
    /\ userSet' = TRUE
    /\ Finish(c, IF state' = s THEN "ok" ELSE "error")
    /\ UNCHANGED <<registryVars, pingLock, ops, calls, acked, gone>>
------------------------------------------------------------------------------
\* Referrers loads the state.
ReferrersStart(c) ==
    /\ At(c, "referrers", "start")
    /\ Update(c, [pc |-> IF state = "unsupported" THEN "tagschema" ELSE "api",
                  seen |-> state])
    /\ UNCHANGED <<registryVars, state, pingLock, historyVars>>

\* One page of a listing: at most PageSize elements of s after `after'.
Page(s, after) ==
    LET rest == SetToSortSeq({e \in s : e > after}, <) IN
    SubSeq(rest, 1, IF Len(rest) < PageSize THEN Len(rest) ELSE PageSize)

\* The link of a response: the last element, when there are more.
LinkOf(s, after) ==
    LET page == Page(s, after) IN
    IF page # <<>> /\ {e \in s : e > Last(page)} # {} THEN Last(page) ELSE 0

\* referrersPageByAPI at a registry that has the API: fn is called for the
\* page; without a link the capability is set.
ReferrersPage(c) ==
    /\ At(c, "referrers", "api")
    /\ supports /\ has # {}
    /\ LET all == Referrers(job[c].m) \cap has
           link == LinkOf(all, job[c].link)
           got == job[c].got \o Page(all, job[c].link) IN
       IF link # 0
       THEN /\ Update(c, [link |-> link, got |-> got])
            /\ UNCHANGED state
       ELSE /\ Update(c, [pc |-> "done", out |-> "ok", got |-> got])
            /\ IF job[c].seen = "supported" THEN UNCHANGED state ELSE SetCapability("supported")
    /\ UNCHANGED <<registryVars, pingLock, historyVars>>

\* A repository that does not exist (404, NAME_UNKNOWN) says nothing.
ReferrersUnknownRepository(c) ==
    /\ At(c, "referrers", "api")
    /\ has = {}
    /\ Finish(c, "error")
    /\ UNCHANGED <<registryVars, state, pingLock, historyVars>>

\* Mutant: any 404 counts as the lack of the API.
ReferrersAny404(c) ==
    /\ At(c, "referrers", "api")
    /\ ~supports \/ has = {}
    /\ IF job[c].seen = "supported"
       THEN Finish(c, "error") /\ UNCHANGED state
       ELSE Goto(c, "tagschema") /\ SetCapability("unsupported")
    /\ UNCHANGED <<registryVars, pingLock, historyVars>>

\* A 404, or a response that is no index: the tag schema is used instead.
ReferrersUnsupported(c) ==
    /\ At(c, "referrers", "api")
    /\ ~supports
    /\ IF job[c].seen = "supported"
       THEN Finish(c, "error") /\ UNCHANGED state
       ELSE Goto(c, "tagschema") /\ SetCapability("unsupported")
    /\ UNCHANGED <<registryVars, pingLock, historyVars>>

\* referrersByTagSchema.
ReferrersByTag(c) ==
    /\ At(c, "referrers", "tagschema")
    /\ Update(c, [pc |-> "done", out |-> "ok",
                  got |-> SetToSortSeq(index \cap Referrers(job[c].m), <)])
    /\ UNCHANGED <<registryVars, state, pingLock, historyVars>>
------------------------------------------------------------------------------
\* pushWithIndexing loads the state, reads and checks the content.
PushStart(c) ==
    /\ At(c, "push", "start")
    /\ Update(c, [pc |-> "put",
                  seen |-> IF job[c].m \in Indexable THEN state ELSE "supported"])
    /\ UNCHANGED <<registryVars, state, pingLock, historyVars>>

\* The content and the tag that a call pushes.
Put(c) ==
    LET m == job[c].m
        t == job[c].t IN
    /\ has' = has \cup {m}
    /\ tag' = IF t = 0 THEN tag ELSE [tag EXCEPT ![t] = m]
    /\ UNCHANGED <<supports, index>>

\* push: the PUT of the manifest; OCI-Subject sets the capability.
PutManifest(c) ==
    /\ At(c, "push", "put") \/ At(c, "tag", "put")
    /\ Put(c)
    /\ IF supports /\ Subject[job[c].m] # 0
       THEN SetCapability("supported")
       ELSE UNCHANGED state
    /\ IF job[c].op = "tag" \/ job[c].seen = "supported"
       THEN Finish(c, "ok") ELSE Goto(c, "reload")
    /\ acked' = IF job[c].op = "push" /\ job[c].seen = "supported"
                THEN acked \cup {job[c].m} ELSE acked
    /\ UNCHANGED <<pingLock, ops, calls, userSet, gone>>

\* Mutant: only a registry known not to have the API gets an index.
PushReloadKnown(c) ==
    /\ At(c, "push", "reload")
    /\ IF state # "unsupported" \/ Subject[job[c].m] = 0
       THEN Finish(c, "ok") /\ acked' = acked \cup {job[c].m}
       ELSE Goto(c, "unset") /\ UNCHANGED acked
    /\ UNCHANGED <<registryVars, state, pingLock, ops, calls, userSet, gone>>

\* The state is loaded again: the registry may have processed the subject.
PushReload(c) ==
    /\ At(c, "push", "reload")
    /\ IF state = "supported" \/ Subject[job[c].m] = 0
       THEN Finish(c, "ok") /\ acked' = acked \cup {job[c].m}
       ELSE Goto(c, "unset") /\ UNCHANGED acked
    /\ UNCHANGED <<registryVars, state, pingLock, ops, calls, userSet, gone>>

\* indexReferrersForPush.
PushUnset(c) ==
    /\ At(c, "push", "unset")
    /\ SetCapability("unsupported")
    /\ Goto(c, "index")
    /\ UNCHANGED <<registryVars, pingLock, historyVars>>

PushIndex(c) ==
    /\ At(c, "push", "index")
    /\ index' = index \cup {job[c].m}
    /\ Finish(c, "ok")
    /\ acked' = acked \cup {job[c].m}
    /\ UNCHANGED <<supports, has, tag, state, pingLock, ops, calls, userSet, gone>>

\* Tag fetches the manifest, then pushes it under the tag.
TagFetch(c) ==
    /\ At(c, "tag", "start")
    /\ IF job[c].m \in has THEN Goto(c, "put") ELSE Finish(c, "error")
    /\ UNCHANGED <<registryVars, state, pingLock, historyVars>>
------------------------------------------------------------------------------
\* deleteWithIndexing loads the state; unless the registry keeps the
\* referrers itself the manifest is fetched for its subject.
DeleteStart(c) ==
    /\ At(c, "delete", "start")
    /\ Goto(c, IF job[c].m \in Indexable /\ state # "supported" THEN "subject" ELSE "remove")
    /\ UNCHANGED <<registryVars, state, pingLock, historyVars>>

DeleteSubject(c) ==
    /\ At(c, "delete", "subject")
    /\ IF job[c].m \notin has THEN Finish(c, "error")
       ELSE Goto(c, IF Subject[job[c].m] # 0 THEN "ping" ELSE "remove")
    /\ UNCHANGED <<registryVars, state, pingLock, historyVars>>

\* Where pingReferrers leads once the state is known.
AfterPing(c) == Goto(c, IF state' = "supported" THEN "remove" ELSE "unindex")

\* pingReferrers: the state is known,
PingKnown(c) ==
    /\ At(c, "delete", "ping")
    /\ state # "unknown"
    /\ UNCHANGED <<registryVars, state, pingLock, historyVars>>
    /\ AfterPing(c)

\* or it was not: the lock is awaited,
PingAwait(c) ==
    /\ At(c, "delete", "ping")
    /\ state = "unknown"
    /\ Goto(c, "lock")
    /\ UNCHANGED <<registryVars, state, pingLock, historyVars>>

\* and the state is loaded again under it.
PingLocked(c) ==
    /\ At(c, "delete", "lock")
    /\ pingLock = 0
    /\ UNCHANGED <<registryVars, state, historyVars>>
    /\ IF state # "unknown"
       THEN AfterPing(c) /\ UNCHANGED pingLock
       ELSE Goto(c, "request") /\ pingLock' = c

\* The request: NAME_UNKNOWN is an error, otherwise the capability is set.
PingRequest(c) ==
    /\ At(c, "delete", "request")
    /\ pingLock' = 0
    /\ IF has = {}
       THEN Finish(c, "error") /\ UNCHANGED state
       ELSE /\ SetCapability(IF supports THEN "supported" ELSE "unsupported")
            /\ Goto(c, IF supports THEN "remove" ELSE "unindex")
    /\ UNCHANGED <<registryVars, historyVars>>

DeleteUnindex(c) ==
    /\ At(c, "delete", "unindex")
    /\ index' = index \ {job[c].m}
    /\ Goto(c, "remove")
    /\ UNCHANGED <<supports, has, tag, state, pingLock, historyVars>>

\* Repository.delete, of a manifest with its tags or of a blob.
DeleteRemove(c) ==
    /\ At(c, "delete", "remove")
    /\ Finish(c, IF job[c].m \in has THEN "ok" ELSE "error")
    /\ has' = has \ {job[c].m}
    /\ tag' = [t \in Tags |-> IF tag[t] = job[c].m THEN 0 ELSE tag[t]]
    /\ gone' = gone \cup {t \in Tags : tag[t] = job[c].m}
    /\ UNCHANGED <<supports, index, state, pingLock, ops, calls, userSet, acked>>
------------------------------------------------------------------------------
\* blobStore.Push: the POST that starts the upload.
UploadStart(c) ==
    /\ At(c, "pushblob", "start")
    /\ Goto(c, "upload")
    /\ UNCHANGED <<registryVars, state, pingLock, historyVars>>

\* mountOrCopyNode calls Mount for one repository after the other; the
\* registry mounts the blob (201),
Mounted(c) ==
    /\ At(c, "mount", "start")
    /\ has' = has \cup {job[c].m}
    /\ Finish(c, "ok")
    /\ UNCHANGED <<supports, tag, index, state, pingLock, historyVars>>

\* Mutant: an upload that was started counts as mounted.
MountAccepted(c) ==
    /\ At(c, "mount", "start")
    /\ Finish(c, "ok")
    /\ UNCHANGED <<registryVars, state, pingLock, historyVars>>

\* or starts an upload (202): getContent skips to the next repository, and
\* fetches the content from the source of the copy for the last.
MountFallback(c) ==
    /\ At(c, "mount", "start")
    /\ IF job[c].src < Sources
       THEN Update(c, [src |-> job[c].src + 1])
       ELSE Goto(c, "upload")
    /\ UNCHANGED <<registryVars, state, pingLock, historyVars>>

\* completePushAfterInitialPost: the PUT of the blob.
Upload(c) ==
    /\ At(c, "pushblob", "upload") \/ At(c, "mount", "upload")
    /\ Put(c)
    /\ Finish(c, "ok")
    /\ UNCHANGED <<state, pingLock, historyVars>>
------------------------------------------------------------------------------
\* Resolve of a tag by HEAD.  The digest header of the response is required.
ResolveHead(c) ==
    /\ At(c, "resolve", "start") \/ At(c, "fetch", "head")
    /\ \/ /\ tag[job[c].t] # 0
          /\ Update(c, [desc |-> tag[job[c].t],
                        pc |-> IF job[c].op = "fetch" THEN "read" ELSE "done", out |-> "ok"])
       \/ Finish(c, "error")
    /\ UNCHANGED <<registryVars, state, pingLock, historyVars>>

\* FetchReference by GET.  When the response has no length the tag is
\* resolved again, and may have moved.
FetchGet(c) ==
    /\ At(c, "fetch", "start")
    /\ LET m == tag[job[c].t] IN
       \/ m = 0 /\ Finish(c, "error")
       \/ m # 0 /\ Update(c, [body |-> m, desc |-> m, pc |-> "read"])
       \/ m # 0 /\ Update(c, [body |-> m, pc |-> "head"])
    /\ UNCHANGED <<registryVars, state, pingLock, historyVars>>

\* Mutant: FetchBytes returns what it reads.
FetchUnchecked(c) ==
    /\ At(c, "fetch", "read")
    /\ Finish(c, "ok")
    /\ UNCHANGED <<registryVars, state, pingLock, historyVars>>

\* FetchBytes reads the body with content.ReadAll, which checks it against
\* the descriptor.
FetchRead(c) ==
    /\ At(c, "fetch", "read")
    /\ Finish(c, IF job[c].body = job[c].desc THEN "ok" ELSE "error")
    /\ UNCHANGED <<registryVars, state, pingLock, historyVars>>

\* Mutant: `last' is not cleared, and replaces what the link says.
TagsPageLast(c) ==
    /\ At(c, "list", "start")
    /\ LET all == {t \in Tags : tag[t] # 0}
           after == IF job[c].last # 0 THEN job[c].last ELSE job[c].link
           link == LinkOf(all, after)
           fields == [link |-> link, got |-> job[c].got \o Page(all, after)] IN
       IF link = 0 THEN Update(c, [pc |-> "done", out |-> "ok"] @@ fields)
       ELSE Update(c, fields) /\ Len(job[c].got) < Cardinality(Tags)
    /\ UNCHANGED <<registryVars, state, pingLock, historyVars>>

\* Tags, a page at a time: `last' for the first, then the links.
TagsPage(c) ==
    /\ At(c, "list", "start")
    /\ LET all == {t \in Tags : tag[t] # 0}
           after == IF job[c].last # 0 THEN job[c].last ELSE job[c].link
           link == LinkOf(all, after)
           fields == [last |-> 0, link |-> link, got |-> job[c].got \o Page(all, after)] IN
       IF link = 0 THEN Update(c, [pc |-> "done", out |-> "ok"] @@ fields)
       ELSE Update(c, fields)
    /\ UNCHANGED <<registryVars, state, pingLock, historyVars>>

\* blobStore.Fetch returns a reader that can seek.
BlobFetch(c) ==
    /\ At(c, "read", "start")
    /\ IF job[c].m \in has THEN Goto(c, "open") ELSE Finish(c, "error")
    /\ UNCHANGED <<registryVars, state, pingLock, historyVars>>

\* readSeekCloser.Read.
BlobRead(c) ==
    /\ At(c, "read", "open")
    /\ job[c].pos < Size
    /\ Update(c, [off |-> job[c].off + 1, pos |-> job[c].pos + 1])
    /\ UNCHANGED <<registryVars, state, pingLock, historyVars>>

\* readSeekCloser.Seek: past the end there is no body, before it a request
\* gets the rest; when that fails nothing changes.
BlobSeek(c, offset) ==
    /\ At(c, "read", "open")
    /\ offset # job[c].off
    /\ \/ Update(c, [off |-> offset, pos |-> IF offset < Size THEN offset ELSE Size])
       \/ offset < Size /\ UNCHANGED job
    /\ UNCHANGED <<registryVars, state, pingLock, historyVars>>

BlobClose(c) ==
    /\ At(c, "read", "open")
    /\ Finish(c, "ok")
    /\ UNCHANGED <<registryVars, state, pingLock, historyVars>>

\* The places where a call waits for a response.
InRequest(c) ==
    \/ job[c].pc \in {"api", "tagschema", "put", "index", "subject", "request",
                      "unindex", "remove", "upload", "head", "read"}
    \/ job[c].pc = "start" /\ job[c].op \in {"tag", "pushblob", "mount", "resolve",
                                             "fetch", "list", "read"}

\* Mutant: the lock is kept when the ping fails.
FailsLocked(c) ==
    /\ InRequest(c)
    /\ Finish(c, "error")
    /\ UNCHANGED <<registryVars, state, pingLock, historyVars>>

\* A request fails: the call returns the error, with the lock released.
RequestFails(c) ==
    /\ InRequest(c)
    /\ Finish(c, "error")
    /\ pingLock' = IF pingLock = c THEN 0 ELSE pingLock
    /\ UNCHANGED <<registryVars, state, historyVars>>

\* The registry serves a request that changes it, but its answer is lost: the
\* call returns an error all the same.
AnswerLost(c) ==
    /\ LET m == job[c].m IN
       \/ job[c].pc \in {"put", "upload"} /\ Put(c)
       \/ job[c].pc = "index" /\ index' = index \cup {m} /\ UNCHANGED <<supports, has, tag>>
       \/ job[c].pc = "unindex" /\ index' = index \ {m} /\ UNCHANGED <<supports, has, tag>>
       \/ /\ job[c].pc = "remove"
          /\ has' = has \ {m}
          /\ tag' = [t \in Tags |-> IF tag[t] = m THEN 0 ELSE tag[t]]
          /\ UNCHANGED <<supports, index>>
    /\ gone' = gone \cup {t \in Tags : tag[t] # 0 /\ tag'[t] = 0}
    /\ Finish(c, "error")
    /\ UNCHANGED <<state, pingLock, ops, calls, userSet, acked>>
------------------------------------------------------------------------------
Step(c) ==
    \/ \E s \in {"supported", "unsupported"} : UserSets(c, s)
    \/ ReferrersStart(c) \/ ReferrersPage(c) \/ ReferrersUnknownRepository(c)
    \/ ReferrersUnsupported(c) \/ ReferrersByTag(c)
    \/ PushStart(c) \/ PutManifest(c) \/ PushReload(c) \/ PushUnset(c) \/ PushIndex(c)
    \/ TagFetch(c) \/ DeleteStart(c) \/ DeleteSubject(c) \/ PingKnown(c) \/ PingAwait(c)
    \/ PingLocked(c) \/ PingRequest(c) \/ DeleteUnindex(c) \/ DeleteRemove(c)
    \/ UploadStart(c) \/ Mounted(c) \/ MountFallback(c) \/ Upload(c)
    \/ ResolveHead(c) \/ FetchGet(c) \/ FetchRead(c) \/ TagsPage(c)
    \/ BlobFetch(c) \/ BlobRead(c) \/ BlobClose(c)
    \/ \E offset \in 0..Size + 1 : BlobSeek(c, offset)

Next ==
    \E c \in Clients :
        \/ \E o \in ops : Call(c, o[1], o[2], o[3])
        \/ Step(c)
        \/ RequestFails(c) \/ AnswerLost(c)

\* Goroutines go on, requests are answered, and a mutex is acquired in the
\* end by one who waits for it while it is free again and again.
FairSpec ==
    /\ Init /\ [][Next]_vars
    /\ \A c \in Clients : WF_vars(Step(c)) /\ SF_vars(PingLocked(c))
------------------------------------------------------------------------------
Returned(c, op) == job[c].op = op /\ job[c].pc = "done" /\ job[c].out = "ok"

\* A call of Referrers that succeeds lists every referrer whose push had
\* returned before the call began and that nobody is deleting, however the
\* capability of the registry is found out meanwhile, and by whom.
ReferrersSeen ==
    \A c \in Clients : Returned(c, "referrers") =>
        job[c].must \ gone \subseteq {job[c].got[i] : i \in DOMAIN job[c].got}

\* Unless the user has set it, the capability is what the registry has.
CapabilityTrue ==
    state # "unknown" /\ ~userSet => (state = "supported") = supports

\* A push, a mount or a tag that succeeds leaves the content in the
\* repository, unless somebody deletes it.
StoredOnSuccess ==
    \A c \in Clients, op \in {"push", "tag", "pushblob", "mount"} :
        Returned(c, op) => job[c].m \in has \cup gone

\* The bytes that FetchBytes returns are those of the descriptor that it
\* returns, also when the tag moves between the two requests for them; and
\* what a blob's reader reads next is what is at its offset, also after
\* seeks some of which have failed.
FetchMatches ==
    \A c \in Clients :
        /\ Returned(c, "fetch") => job[c].body = job[c].desc
        /\ At(c, "read", "open") /\ job[c].off < Size => job[c].pos = job[c].off

\* Tags passes on every tag after `last' that is there all the time, in
\* order and once, although the pages are requested one by one.
TagsListed ==
    \A c \in Clients : job[c].op = "list" =>
        LET got == job[c].got IN
        /\ \A i, j \in DOMAIN got : i < j => got[i] < got[j]
        /\ \A i \in DOMAIN got : got[i] > job[c].t
        /\ Returned(c, "list") => job[c].must \ gone \subseteq {got[i] : i \in DOMAIN got}

\* Every call returns, also one that waits to ping while another one does
\* (a reader stays open as long as the user wants).
CallsReturn ==
    \A c \in Clients : job[c].pc = "start" ~> job[c].pc = "done" \/ job[c].op = "read"
==============================================================================
