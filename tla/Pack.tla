-------------------------------- MODULE Pack ---------------------------------
(***************************************************************************)
(* Packing a manifest into a store (pack.go) and the operations of         *)
(* content.go on it: both call the store's methods one after the other, or *)
(* from a limited group of goroutines.                                     *)
(*                                                                         *)
(* A call of PackManifest or Pack is a record: fn is the function, at and  *)
(* config say what artifactType and the media type of opts.ConfigDescriptor*)
(* are like ("none", "bad", "ok", and "empty" for the empty JSON type),    *)
(* layers whether there are any, subject whether there is one, created     *)
(* what the creation annotation is like, and desc is the manifest that the *)
(* function puts together.                                                 *)
(***************************************************************************)
EXTENDS FileStore

CONSTANTS
    EmptyJSON,     \* the descriptor of the empty JSON object
    CustomEmpty    \* the same bytes with the media type of a config

ASSUME PackAssumption == EmptyJSON \in Descriptors /\ CustomEmpty \in Descriptors

------------------------------------------------------------------------------
\* What is left to do is a sequence: a descriptor to push unless it exists,
\* the manifest, or an error.
Create(call, then) == IF call.created = "bad" THEN <<"error">> ELSE then
PushManifest == <<"manifest">>

PackArtifact(call) == Create(call, PushManifest)

PackManifestV1_0(call) ==
    IF call.subject THEN <<"error">>
    ELSE IF call.config = "bad" \/ (call.config = "none" /\ call.at = "bad") THEN <<"error">>
    ELSE (IF call.config = "none" THEN <<"custom">> ELSE <<>>) \o Create(call, PushManifest)

PackManifestV1_1_RC2(call) ==
    (IF call.config = "none" THEN <<"custom">> ELSE <<>>) \o Create(call, PushManifest)

\* A mutant: the empty blob is taken to be there when a config is given.
PackManifestV1_1Once(call) ==
    IF call.at = "bad" \/ call.config = "bad" \/ (call.at = "none" /\ call.config \in {"none", "empty"})
    THEN <<"error">>
    ELSE (IF call.config = "none" THEN <<"empty">> ELSE <<>>) \o Create(call, PushManifest)

\* The empty blob is pushed as the config, or as the only layer.
PackManifestV1_1(call) ==
    IF call.at = "bad" \/ call.config = "bad" \/ (call.at = "none" /\ call.config \in {"none", "empty"})
    THEN <<"error">>
    ELSE IF call.config = "none" THEN <<"empty">> \o Create(call, PushManifest)
    ELSE Create(call, (IF call.layers THEN <<>> ELSE <<"empty">>) \o PushManifest)

Plan(call) ==
    CASE call.fn = "v1.0" -> PackManifestV1_0(call)
      [] call.fn = "v1.1" -> PackManifestV1_1(call)
      [] call.fn = "image" -> PackManifestV1_1_RC2(call)
      [] call.fn = "artifact" -> PackArtifact(call)
      [] OTHER -> <<"error">>

Blob(step) == IF step = "empty" THEN EmptyJSON ELSE CustomEmpty

\* Pack and PackManifest begin.
PackCall(p, call) ==
    /\ job[p].pc \in {"idle", "returned"}
    /\ job[p].plan = <<>>
    /\ call \in todo /\ call.op = "pack"
    /\ todo' = todo \ {call}
    /\ job' = [job EXCEPT ![p] =
          With(Idle, [op |-> "pack", pc |-> "step", goal |-> call.desc, plan |-> Plan(call)])]
    /\ UNCHANGED <<opts, storeVars>>

\* The function returns: nothing is left to do.
Leave(p, out) == Update(p, [pc |-> "returned", plan |-> <<>>, out |-> out])

\* pushIfNotExist asks whether the blob exists.
PushIfNotExist(p) ==
    /\ At(p, "step")
    /\ Head(job[p].plan) \in {"empty", "custom"}
    /\ LET blob == Blob(Head(job[p].plan)) IN
       IF closed THEN Leave(p, "closed")
       ELSE IF Exists(blob) THEN Update(p, [plan |-> Tail(job[p].plan)])
       ELSE Update(p, [pc |-> "push", desc |-> blob])
    /\ UNCHANGED <<opts, storeVars, todo>>

\* pushManifest pushes what has been put together.
PushPacked(p) ==
    /\ At(p, "step")
    /\ Head(job[p].plan) = "manifest"
    /\ Update(p, [pc |-> "push", desc |-> job[p].goal, had |-> Content])
    /\ UNCHANGED <<opts, storeVars, todo>>

PackFails(p) ==
    /\ At(p, "step")
    /\ Head(job[p].plan) = "error"
    /\ Leave(p, "invalid")
    /\ UNCHANGED <<opts, storeVars, todo>>

\* Push has returned to pushIfNotExist or pushManifest: content that exists
\* by now is fine.
PackReturned(p) ==
    /\ job[p].op = "pack" /\ At(p, "returned")
    /\ job[p].plan # <<>>
    /\ IF job[p].out \notin {"ok", "skipped", "exists"} THEN Leave(p, job[p].out)
       ELSE IF Len(job[p].plan) = 1 THEN Leave(p, "ok")
       ELSE Update(p, [pc |-> "step", plan |-> Tail(job[p].plan)])
    /\ UNCHANGED <<opts, storeVars, todo>>
------------------------------------------------------------------------------
\* Tag and TagN resolve the source reference, once.
ResolveSource(p) ==
    /\ At(p, "resolve")
    /\ IF closed THEN Leave(p, "closed")
       ELSE IF tags[job[p].from] = Nothing THEN Leave(p, "notfound")
       ELSE Update(p, [pc |-> "tagall", desc |-> tags[job[p].from]])
    /\ UNCHANGED <<opts, storeVars, todo>>

\* tagBytesN has pushed the content.
BytesPushed(p) ==
    /\ job[p].op = "tagbytes" /\ At(p, "returned")
    /\ job[p].plan # <<>>
    /\ IF job[p].out \notin {"ok", "skipped", "exists"} THEN Leave(p, job[p].out)
       ELSE Goto(p, "tagall")
    /\ UNCHANGED <<opts, storeVars, todo>>

\* A mutant: the source reference is resolved for each tag.
TagEach(p) ==
    /\ At(p, "tagall")
    /\ \E r \in job[p].refs :
          LET desc == IF job[p].op = "tagn" THEN tags[job[p].from] ELSE job[p].desc IN
          /\ Exists(desc)
          /\ tags' = [tags EXCEPT ![r] = desc]
          /\ IF job[p].refs = {r} THEN Leave(p, "ok")
             ELSE Update(p, [refs |-> job[p].refs \ {r}])
    /\ UNCHANGED <<opts, exists, lock, file, path, fallback, indexed, closed, todo>>

\* The goroutines of a LimitGroup tag the descriptor, in any order; the
\* first error is returned.
TagAll(p) ==
    /\ At(p, "tagall")
    /\ CanLook(job[p].desc)
    /\ IF closed THEN Leave(p, "closed") /\ UNCHANGED tags
       ELSE IF ~Exists(job[p].desc) THEN Leave(p, "notfound") /\ UNCHANGED tags
       ELSE \E r \in job[p].refs :
               /\ tags' = [tags EXCEPT ![r] = job[p].desc]
               /\ IF job[p].refs = {r} THEN Leave(p, "ok")
                  ELSE Update(p, [refs |-> job[p].refs \ {r}])
    /\ UNCHANGED <<opts, exists, lock, file, path, fallback, indexed, closed, todo>>

PackStep(p) ==
    \/ PushIfNotExist(p) \/ PushPacked(p) \/ PackFails(p) \/ PackReturned(p)
    \/ ResolveSource(p) \/ BytesPushed(p) \/ TagAll(p)

Next ==
    \E p \in Procs :
        \/ \E call \in todo : IF call.op = "pack" THEN PackCall(p, call) ELSE Call(p, call)
        \/ StoreStep(p) \/ PackStep(p)

\* Goroutines go on.
FairSpec == Init /\ [][Next]_vars /\ \A p \in Procs : WF_vars(StoreStep(p) \/ PackStep(p))
------------------------------------------------------------------------------
\* When PackManifest has returned a manifest, it and every blob that the
\* function refers to without having been given it (the config, the empty
\* layer) are in the store, also when packs run side by side and find blobs
\* of each other (IgnoreNoName asks for unnamed content to be dropped).
PackedComplete ==
    \A p \in Procs :
        job[p].op = "pack" /\ job[p].pc = "returned" /\ job[p].plan = <<>> /\ job[p].out = "ok"
            /\ ~(kind = "file" /\ opts.ignoreNoName)
        => /\ job[p].goal.d \in Content
           /\ \A k \in DOMAIN Succ[job[p].goal.d] :
                 Succ[job[p].goal.d][k] \in {EmptyJSON, CustomEmpty}
                 => Succ[job[p].goal.d][k].d \in Content

\* TagN that succeeds has tagged one and the same descriptor, that exists,
\* with all the references, although the source reference moves meanwhile
\* (no other call tags the references of a TagN).
TaggedTogether ==
    \A p \in Procs :
        job[p].op = "tagn" /\ job[p].pc = "returned" /\ job[p].out = "ok"
        => \A r \in job[p].all : tags[r] = job[p].desc /\ Exists(job[p].desc)

\* Every call returns: no lock of a name is kept by a push that has failed.
StoreReturns ==
    \A p \in Procs : job[p].pc # "idle" ~> job[p].pc = "returned" /\ job[p].plan = <<>>
==============================================================================
