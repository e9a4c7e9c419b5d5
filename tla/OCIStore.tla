------------------------------ MODULE OCIStore -------------------------------
(***************************************************************************)
(* oci.Store (content/oci): an OCI image layout on disk.  The blobs and    *)
(* index.json survive a crash; the resolver and the predecessor index are  *)
(* in memory.  Push, Tag, Untag and SaveIndex hold the store's RWMutex     *)
(* shared and interleave; Delete and GC hold it exclusively.  AutoSaveIndex *)
(* and AutoGC have their default value, true.                              *)
(***************************************************************************)
EXTENDS Resolver, FiniteSets

CONSTANTS
    Clients,  \* goroutines that call the store
    Ops,      \* the operations they call
    Events,   \* what may go wrong: "crash", "iofail"
    Torn,     \* index.json between its truncation and its rewriting
    None      \* no argument

ASSUME StoreAssumption ==
    /\ Ops \subseteq {"push", "tag", "untag", "save", "delete", "gc"}
    /\ Events \subseteq {"crash", "iofail"}
    /\ Tags \cap Nodes = {}
    /\ None \notin Refs

VARIABLES
    blobs,     \* content of the blobs directory
    file,      \* index.json: a set of <<node, reference name>>, or Torn; an
               \* entry without reference name is written <<n, n>>
    resolver,  \* tagResolver
    graph,     \* graph
    isOpen,    \* the store is loaded in a process
    op,        \* op[c]: the operation of c, "none" between operations
    pc,        \* pc[c]: where c stands in it
    node,      \* node[c], ref[c]: the arguments, or what the code works on
    ref,       \* (ref[c] is the target of Delete)
    queue,     \* deleteQueue
    snap,      \* what the holder of indexLock is writing
    gc,        \* gcIndex: the references left, the new resolver and graph
    acked,     \* history: manifests whose Push returned nil
    unsaved,   \* history: memory is known to be ahead of index.json
    clean      \* history: neither a crash nor an I/O error so far

mem == <<resolver, graph, isOpen>>
proc == <<op, pc, node, ref, queue>>
hist == <<acked, unsaved, clean>>
vars == <<blobs, file, mem, proc, snap, gc, hist>>

Steps == {"idle", "rename", "index", "tagDigest", "tagRef", "untag", "save",
          "write", "head", "blob", "gcPick", "gcSubject", "gcCheck", "sweep"}

\* The nodes that entries of index.json list.
Listed(entries) == {e[1] : e \in entries}

Exclusive(c) == op[c] \in {"delete", "gc"}

NoGC == [pending |-> {}, resolver |-> EmptyResolver, graph |-> EmptyGraph]

\* A new, empty layout: New has written index.json.
Init ==
    /\ blobs = {}
    /\ file = {}
    /\ resolver = EmptyResolver
    /\ graph = EmptyGraph
    /\ isOpen = TRUE
    /\ op = [c \in Clients |-> "none"]
    /\ pc = [c \in Clients |-> "idle"]
    /\ node = [c \in Clients |-> None]
    /\ ref = [c \in Clients |-> None]
    /\ queue = <<>>
    /\ snap = {}
    /\ gc = NoGC
    /\ acked = {}
    /\ unsaved = FALSE
    /\ clean = TRUE
------------------------------------------------------------------------------
(***************************************************************************)
(* The locks.  An operation that changes nothing (an argument that is      *)
(* refused, content that exists already) is left out.                      *)
(***************************************************************************)
RLock(c, o, n, r, s) ==
    /\ isOpen
    /\ o \in Ops
    /\ op[c] = "none"
    /\ \A d \in Clients : ~Exclusive(d)
    /\ op' = [op EXCEPT ![c] = o]
    /\ pc' = [pc EXCEPT ![c] = s]
    /\ node' = [node EXCEPT ![c] = n]
    /\ ref' = [ref EXCEPT ![c] = r]
    /\ UNCHANGED queue

Lock(c, o, n, s) ==
    /\ isOpen
    /\ o \in Ops
    /\ \A d \in Clients : op[d] = "none"
    /\ op' = [op EXCEPT ![c] = o]
    /\ pc' = [pc EXCEPT ![c] = s]
    /\ node' = [node EXCEPT ![c] = n]
    /\ ref' = [ref EXCEPT ![c] = n]

Return(c) ==
    /\ op' = [op EXCEPT ![c] = "none"]
    /\ pc' = [pc EXCEPT ![c] = "idle"]
    /\ node' = [node EXCEPT ![c] = None]
    /\ ref' = [ref EXCEPT ![c] = None]
    /\ queue' = <<>>

Goto(c, s) ==
    /\ pc' = [pc EXCEPT ![c] = s]
    /\ UNCHANGED <<op, node, ref, queue>>

\* An operation of the file system fails and the operation returns its error.
IOFails(c) ==
    /\ "iofail" \in Events
    /\ Return(c)
    /\ unsaved' = (unsaved \/ pc[c] \in {"save", "write"})
    /\ clean' = FALSE
    /\ UNCHANGED acked
------------------------------------------------------------------------------
(***************************************************************************)
(* Push: storage.Push looks for the blob, then ingests the content into a  *)
(* file of its own and renames it; graph.Index; a manifest is tagged by    *)
(* its digest.  Renaming over a blob that was stored meanwhile succeeds or *)
(* is refused as "already exists", depending on the platform.             *)
(***************************************************************************)
Push(c, n) ==
    /\ n \notin blobs
    /\ RLock(c, "push", n, n, "rename")
    /\ UNCHANGED <<blobs, file, mem, snap, gc, hist>>

Rename(c) ==
    /\ pc[c] = "rename"
    /\ \/ /\ blobs' = blobs \cup {node[c]}
          /\ Goto(c, "index")
          /\ UNCHANGED hist
       \/ node[c] \in blobs /\ Return(c) /\ UNCHANGED <<blobs, hist>>
       \/ IOFails(c) /\ UNCHANGED blobs
    /\ UNCHANGED <<file, mem, snap, gc>>

\* Mutant: only manifests are indexed.
IndexManifests(c) ==
    /\ pc[c] = "index"
    /\ IF IsManifest(node[c])
       THEN graph' = IndexNode(graph, node[c]) /\ Goto(c, "tagRef")
       ELSE Return(c) /\ UNCHANGED graph
    /\ UNCHANGED <<blobs, file, resolver, isOpen, snap, gc, hist>>

Index(c) ==
    /\ pc[c] = "index"
    /\ \/ /\ graph' = IndexNode(graph, node[c])
          /\ IF IsManifest(node[c]) THEN Goto(c, "tagRef") ELSE Return(c)
          /\ UNCHANGED hist
       \/ IOFails(c) /\ UNCHANGED graph
    /\ UNCHANGED <<blobs, file, resolver, isOpen, snap, gc>>

\* Tag checks that the content exists, then tags it by its digest and by the
\* reference, two operations of the resolver.
Tag(c, n, t) ==
    /\ n \in blobs
    /\ RLock(c, "tag", n, t, "tagDigest")
    /\ UNCHANGED <<blobs, file, mem, snap, gc, hist>>

TagDigest(c) ==
    /\ pc[c] = "tagDigest"
    /\ resolver' = TagRef(resolver, node[c], node[c])
    /\ Goto(c, "tagRef")
    /\ UNCHANGED <<blobs, file, graph, isOpen, snap, gc, hist>>

TagReference(c) ==
    /\ pc[c] = "tagRef"
    /\ resolver' = TagRef(resolver, node[c], ref[c])
    /\ Goto(c, "save")
    /\ UNCHANGED <<blobs, file, graph, isOpen, snap, gc, hist>>

\* Untag resolves the reference first: it must be there, and be a tag.
Untag(c, t) ==
    /\ t \in DOMAIN resolver.index
    /\ RLock(c, "untag", None, t, "untag")
    /\ UNCHANGED <<blobs, file, mem, snap, gc, hist>>

\* Mutant: the digest is untagged with the tag.
UntagReferenceAll(c) ==
    /\ pc[c] = "untag"
    /\ ref[c] \in DOMAIN resolver.index
    /\ LET n == resolver.index[ref[c]] IN
          resolver' = UntagRefs(resolver, n, RefsTo(resolver, n))
    /\ Goto(c, "save")
    /\ UNCHANGED <<blobs, file, graph, isOpen, snap, gc, hist>>

UntagReference(c) ==
    /\ pc[c] = "untag"
    /\ resolver' = UntagRef(resolver, ref[c])
    /\ Goto(c, "save")
    /\ UNCHANGED <<blobs, file, graph, isOpen, snap, gc, hist>>

SaveIndex(c) ==
    /\ RLock(c, "save", None, None, "save")
    /\ UNCHANGED <<blobs, file, mem, snap, gc, hist>>
------------------------------------------------------------------------------
(***************************************************************************)
(* saveIndex.  What it writes: the tags, and the nodes that have no tag.   *)
(***************************************************************************)
Entries(index) ==
    LET tagged == {index[r] : r \in {r \in DOMAIN index : r # index[r]}} IN
    {<<index[r], r>> : r \in {r \in DOMAIN index :
                                  r = index[r] => index[r] \notin tagged}}

\* Mutant: a save that finds another one under way leaves it to that one.
BeginSaveSkips(c) ==
    /\ pc[c] = "save"
    /\ IF \E d \in Clients : pc[d] = "write"
       THEN Return(c) /\ UNCHANGED <<file, snap>>
       ELSE /\ snap' = Entries(resolver.index)
            /\ file' = Torn
            /\ Goto(c, "write")
    /\ UNCHANGED <<blobs, mem, gc, hist>>

\* Under indexLock: the map is read and os.WriteFile truncates the file.
BeginSave(c) ==
    /\ pc[c] = "save"
    /\ \A d \in Clients : pc[d] # "write"
    /\ \/ /\ snap' = Entries(resolver.index)
          /\ file' = Torn
          /\ Goto(c, "write")
          /\ UNCHANGED hist
       \/ IOFails(c) /\ UNCHANGED <<file, snap>>
    /\ UNCHANGED <<blobs, mem, gc>>

\* Mutant: a save that was overtaken by a change is made again.
FinishSaveAgain(c) ==
    /\ pc[c] = "write"
    /\ snap' = {}
    /\ file' = snap
    /\ IF snap # Entries(resolver.index) THEN Goto(c, "save")
       ELSE IF op[c] = "delete" THEN Goto(c, "blob") ELSE Return(c)
    /\ UNCHANGED <<blobs, mem, gc, hist>>

\* The new content is written and the lock released; then Delete goes on, and
\* every other operation returns nil.
FinishSave(c) ==
    /\ pc[c] = "write"
    /\ snap' = {}
    /\ \/ /\ file' = snap
          /\ IF op[c] = "delete" THEN Goto(c, "blob") ELSE Return(c)
          /\ acked' = IF op[c] = "push" THEN acked \cup {node[c]} ELSE acked
          /\ unsaved' = FALSE
          /\ UNCHANGED clean
       \/ IOFails(c) /\ UNCHANGED file
    /\ UNCHANGED <<blobs, mem, gc>>
------------------------------------------------------------------------------
(***************************************************************************)
(* Delete: a queue of nodes, each deleted after its referrers and before   *)
(* the untagged nodes that its deletion leaves dangling were queued.       *)
(***************************************************************************)
HasSubjectField(n) == Kind[n] \in {"image", "index", "artifact"}

SubjectOf(n) == IF HasSubjectField(n) THEN Subject[n] ELSE <<>>

Referrers(n) == {p \in Predecessors(graph, n) : SubjectOf(p) = <<n>>}

IsTagged(m, n) == TagSet(m, n) \ {n} # {}

\* The orders in which a Go map may list its keys.
Orders(S) == {s \in [1..Cardinality(S) -> S] : \A x \in S : \E i \in DOMAIN s : s[i] = x}

\* Mutant: the index is not saved before the blob is removed.
NeedsSaveNever(refs) == FALSE

\* Delete saves the index if it has removed a reference.
NeedsSave(refs) == refs # {}

Delete(c, n) ==
    /\ Lock(c, "delete", n, "head")
    /\ queue' = <<n>>
    /\ UNCHANGED <<blobs, file, mem, gc, snap, hist>>

(***************************************************************************)
(* The head of the queue: its referrers are queued, then delete removes    *)
(* its references and its node in the graph, and saves the index if there  *)
(* were references.  Referrers reads only manifests that are stored        *)
(* (PredecessorsStored).                                                   *)
(***************************************************************************)
DeleteHead(c) ==
    /\ pc[c] = "head"
    /\ queue # <<>>
    /\ \/ LET n == Head(queue)
              refs == RefsTo(resolver, n)
          IN  /\ resolver' = UntagRefs(resolver, n, refs)
              /\ graph' = RemoveNode(graph, n)
              /\ \E rs \in Orders(IF IsManifest(n) THEN Referrers(n) ELSE {}),
                    ds \in Orders({d \in Danglings(graph, n) :
                                     ~IsTagged(resolver', d)}) :
                    queue' = Tail(queue) \o rs \o ds
              /\ node' = [node EXCEPT ![c] = n]
              /\ pc' = [pc EXCEPT ![c] = IF NeedsSave(refs) THEN "save" ELSE "blob"]
              /\ acked' = acked \ {n}
              /\ UNCHANGED <<op, ref, unsaved, clean>>
       \/ IsManifest(Head(queue)) /\ IOFails(c) /\ UNCHANGED <<resolver, graph>>
    /\ UNCHANGED <<blobs, file, isOpen, gc, snap>>

\* storage.Delete; a blob that is not found is an error.
DeleteBlob(c) ==
    /\ pc[c] = "blob"
    /\ \/ /\ node[c] \in blobs
          /\ blobs' = blobs \ {node[c]}
          /\ Goto(c, "head")
          /\ UNCHANGED hist
       \/ node[c] \notin blobs /\ Return(c) /\ UNCHANGED <<blobs, hist>>
       \/ IOFails(c) /\ UNCHANGED blobs
    /\ UNCHANGED <<file, mem, snap, gc>>

DeleteReturns(c) ==
    /\ pc[c] = "head"
    /\ queue = <<>>
    /\ Return(c)
    /\ UNCHANGED <<blobs, file, mem, snap, gc, hist>>
------------------------------------------------------------------------------
(***************************************************************************)
(* Building a resolver and a graph from entries of an index: loadIndex,    *)
(* and the first loop of gcIndex.                                          *)
(***************************************************************************)
LoadResolver(entries) ==
    [index |-> [r \in Listed(entries) \cup {e[2] : e \in entries} |->
                    IF r \in Listed(entries) THEN r
                    ELSE (CHOOSE e \in entries : e[2] = r)[1]],
     tags |-> [n \in Listed(entries) |->
                    {n} \cup {e[2] : e \in {e \in entries : e[1] = n}}]]

GraphOf(S) ==
    [nodes |-> S,
     predecessors |-> [k \in UNION {SuccessorSet(n) : n \in S} |->
                          {n \in S : k \in SuccessorSet(n)}],
     successors |-> [n \in S |-> SuccessorSet(n)]]

LoadGraph(entries) == GraphOf(IndexedFrom(blobs, Listed(entries)))

\* The nodes of g and what IndexAll adds from n.
IndexAll(g, n) == GraphOf(g.nodes \cup IndexedFrom(blobs, {n}))

(***************************************************************************)
(* GC.  gcIndex takes over the tags; then every other reference, in any    *)
(* order, whose subject is in the new graph.  The loop that looks for the  *)
(* subject fetches it from the same manifest each time round.              *)
(***************************************************************************)
TagEntries == {e \in Entries(resolver.index) : e[1] # e[2]}

GC(c) ==
    /\ Lock(c, "gc", None, "gcPick")
    /\ gc' = [pending |-> {r \in DOMAIN resolver.index \ Tags :
                              r \notin Listed(TagEntries)},
              resolver |-> LoadResolver(TagEntries),
              graph |-> LoadGraph(TagEntries)]
    /\ UNCHANGED <<blobs, file, mem, queue, snap, hist>>

GCPick(c) ==
    /\ pc[c] = "gcPick"
    /\ \E n \in gc.pending :
          /\ gc' = [gc EXCEPT !.pending = @ \ {n}]
          /\ node' = [node EXCEPT ![c] = n]
    /\ pc' = [pc EXCEPT ![c] = "gcSubject"]
    /\ UNCHANGED <<blobs, file, mem, op, ref, queue, snap, hist>>

\* manifestutil.Subject: an error if the manifest is gone.
GCSubject(c) ==
    /\ pc[c] = "gcSubject"
    /\ \/ /\ HasSubjectField(node[c]) => node[c] \in blobs
          /\ Goto(c, IF SubjectOf(node[c]) = <<>> THEN "gcPick" ELSE "gcCheck")
          /\ UNCHANGED <<gc, hist>>
       \/ /\ HasSubjectField(node[c]) /\ node[c] \notin blobs
          /\ Return(c)
          /\ gc' = NoGC
          /\ UNCHANGED hist
       \/ HasSubjectField(node[c]) /\ IOFails(c) /\ gc' = NoGC
    /\ UNCHANGED <<blobs, file, mem, snap>>

\* Mutant: the referrer is not entered in the new resolver.
GCCheckUntagged(c) ==
    /\ pc[c] = "gcCheck"
    /\ SubjectOf(node[c])[1] \in gc.graph.nodes
    /\ gc' = [gc EXCEPT !.graph = IndexAll(@, node[c])]
    /\ Goto(c, "gcPick")
    /\ UNCHANGED <<blobs, file, mem, snap, hist>>

GCCheck(c) ==
    /\ pc[c] = "gcCheck"
    /\ \/ /\ SubjectOf(node[c])[1] \in gc.graph.nodes
          /\ \/ /\ gc' = [gc EXCEPT !.resolver = TagRef(@, node[c], node[c]),
                                    !.graph = IndexAll(@, node[c])]
                /\ Goto(c, "gcPick")
                /\ UNCHANGED hist
             \/ IOFails(c) /\ gc' = NoGC
       \/ /\ SubjectOf(node[c])[1] \notin gc.graph.nodes
          /\ Goto(c, "gcSubject")
          /\ UNCHANGED <<gc, hist>>
    /\ UNCHANGED <<blobs, file, mem, snap>>

\* The new resolver and graph replace the old ones; the index is not saved.
GCSwap(c) ==
    /\ pc[c] = "gcPick"
    /\ gc.pending = {}
    /\ resolver' = gc.resolver
    /\ graph' = gc.graph
    /\ gc' = NoGC
    /\ acked' = acked \cap DOMAIN gc.resolver.index
    /\ unsaved' = (unsaved \/ gc.resolver.index # resolver.index)
    /\ Goto(c, "sweep")
    /\ UNCHANGED <<blobs, file, isOpen, snap, clean>>

\* Blobs that the graph does not know are removed one by one.
GCSweep(c) ==
    /\ pc[c] = "sweep"
    /\ \/ /\ \E n \in blobs \ graph.nodes : blobs' = blobs \ {n}
          /\ UNCHANGED <<proc, hist>>
       \/ blobs \subseteq graph.nodes /\ Return(c) /\ UNCHANGED <<blobs, hist>>
       \/ IOFails(c) /\ UNCHANGED blobs
    /\ UNCHANGED <<file, mem, snap, gc>>
------------------------------------------------------------------------------
\* The process ends at any moment, an orderly exit included.
Crash ==
    /\ "crash" \in Events
    /\ isOpen
    /\ isOpen' = FALSE
    /\ resolver' = EmptyResolver
    /\ graph' = EmptyGraph
    /\ op' = [c \in Clients |-> "none"]
    /\ pc' = [c \in Clients |-> "idle"]
    /\ node' = [c \in Clients |-> None]
    /\ ref' = [c \in Clients |-> None]
    /\ gc' = NoGC
    /\ queue' = <<>>
    /\ snap' = {}
    /\ clean' = FALSE
    /\ UNCHANGED <<blobs, file, acked, unsaved>>

\* New on an existing layout; it cannot decode an index.json that is torn.
Open ==
    /\ ~isOpen
    /\ file # Torn
    /\ isOpen' = TRUE
    /\ resolver' = LoadResolver(file)
    /\ graph' = LoadGraph(file)
    /\ unsaved' = FALSE
    /\ UNCHANGED <<blobs, file, proc, snap, gc, acked, clean>>

\* New returns an error and changes nothing.
OpenFails == ~isOpen /\ file = Torn /\ UNCHANGED vars

Step(c) ==
    \/ Rename(c) \/ Index(c) \/ TagDigest(c) \/ TagReference(c)
    \/ UntagReference(c) \/ BeginSave(c) \/ FinishSave(c)
    \/ DeleteHead(c) \/ DeleteBlob(c) \/ DeleteReturns(c)
    \/ GCPick(c) \/ GCSubject(c) \/ GCCheck(c) \/ GCSwap(c) \/ GCSweep(c)

Call(c) ==
    \/ \E n \in Nodes : Push(c, n) \/ Delete(c, n)
    \/ \E n \in Nodes, t \in Tags : Tag(c, n, t)
    \/ \E t \in Tags : Untag(c, t)
    \/ SaveIndex(c) \/ GC(c)

Next == (\E c \in Clients : Call(c) \/ Step(c)) \/ Crash \/ Open \/ OpenFails

Spec == Init /\ [][Next]_vars

\* A goroutine in an operation goes on; sync.Mutex hands indexLock over to a
\* goroutine that waits for long.
Fairness == \A c \in Clients : WF_vars(Step(c)) /\ SF_vars(BeginSave(c))
FairSpec == Spec /\ Fairness
------------------------------------------------------------------------------
(***************************************************************************)
(* Properties.                                                             *)
(***************************************************************************)
AtRest == isOpen /\ \A c \in Clients : op[c] = "none"

\* A tag always resolves to content that is stored, in memory and, unless an
\* I/O error intervened, in index.json: Push and Tag store before they tag, and
\* Delete untags and saves before it removes the blob, so that neither other
\* goroutines nor a crash between two steps can see a tag without its content.
TagsResolve ==
    /\ \A t \in DOMAIN resolver.index \cap Tags : resolver.index[t] \in blobs
    /\ (file # Torn /\ ~unsaved) =>
          \A e \in file : e[2] \in Tags => e[1] \in blobs

\* The graph knows only manifests that are stored, so Predecessors returns
\* nothing that Fetch cannot find and Referrers can read what it is given.
PredecessorsStored == \A n \in graph.nodes : IsManifest(n) => n \in blobs

\* A manifest whose Push returned nil is stored and listed in index.json until
\* it is deleted, also while other operations save the index.
PushDurable ==
    /\ acked \subseteq blobs
    /\ (file # Torn /\ ~unsaved) => acked \subseteq Listed(file)

\* Reopening a store loses no predecessor: the manifests in memory are found
\* again from index.json, although only untagged ones and tags are written.
ReopenKeepsPredecessors ==
    AtRest /\ ~unsaved =>
        \A n \in Nodes :
            Predecessors(graph, n) \subseteq Predecessors(LoadGraph(file), n)

\* Without crashes and I/O errors, everything stored is known to the graph, also
\* after concurrent pushes of the same content of which only one was accepted,
\* and every stored manifest is either a reference of its own or linked from
\* another one (GC drops the digests of untagged manifests that it keeps).
StoredKnown ==
    AtRest /\ clean =>
        /\ blobs \subseteq graph.nodes
        /\ \A n \in blobs : IsManifest(n) =>
               n \in DOMAIN resolver.index \/ Predecessors(graph, n) # {}

\* What GC must keep: the blobs that can be reached from a tag, or from a
\* manifest in the resolver whose subject can be reached from a tag.
Protected ==
    LET tagged == {resolver.index[t] : t \in DOMAIN resolver.index \cap Tags}
        reached == IndexedFrom(blobs, tagged)
        kept == {n \in DOMAIN resolver.index \ Tags :
                    \E k \in reached : SubjectOf(n) = <<k>>}
    IN  blobs \cap IndexedFrom(blobs, reached \cup kept)

\* GC neither removes what a tag needs or a referrer of it, nor forgets it: what
\* is protected before a step of GC, the swap of the resolver and the removal of
\* single blobs included, still is after it.
GCKeepsReachable ==
    [][(\E c \in Clients : op[c] = "gc") /\ isOpen' =>
          \/ UNCHANGED <<blobs, resolver>>
          \/ Protected \subseteq Protected']_vars

\* Apart from its target and from referrers, Delete removes only untagged
\* nodes that no node of the graph points to.
DeleteKeepsUsed ==
    [][\A n \in blobs \ blobs', c \in Clients :
          op[c] = "delete" =>
             \/ n = ref[c]
             \/ SubjectOf(n) # <<>>
             \/ Predecessors(graph, n) = {}
                /\ DOMAIN resolver.index \cap Tags \cap RefsTo(resolver, n) = {}]_vars

\* Delete untags nothing but its target (oci.go:62-63: "Tagged manifests will
\* not be deleted").
DeleteKeepsTagged ==
    [][\A c \in Clients, t \in DOMAIN resolver.index \cap Tags :
          op[c] = "delete" /\ op'[c] = "delete" =>
             t \in DOMAIN resolver'.index \/ resolver.index[t] = ref[c]]_vars

\* Delete that has found its target ends only when all that it found to be
\* dangling is gone (oci.go:160-161: "Delete will recursively remove the dangling
\* blobs caused by the current delete").
DeleteRemovesDanglings ==
    [][\A c \in Clients :
          op[c] = "delete" /\ op'[c] = "none" /\ node[c] # ref[c] =>
             \A i \in DOMAIN queue : queue[i] \notin blobs']_vars

\* With AutoSaveIndex the changes of Delete are in index.json when the store is
\* at rest (oci.go:50-53: "the OCI store will automatically save the changes to
\* `index.json` when [...] calling Tag() or Delete()").
IndexListsStored ==
    AtRest /\ file # Torn => \A e \in file : e[2] \in Tags => e[1] \in blobs

\* Every operation other than GC returns, also when operations on files fail: no
\* goroutine waits for ever for indexLock and no queue of Delete keeps growing.
OperationsReturn ==
    \A c \in Clients : op[c] \notin {"none", "gc"} ~> op[c] = "none"

\* GC returns (the loop of oci.go:540 is meant to "check if the referrers
\* manifest can traverse to the existing graph").
GCReturns == \A c \in Clients : op[c] = "gc" ~> op[c] = "none"
==============================================================================
