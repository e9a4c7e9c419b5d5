------------------------------ MODULE FileStore ------------------------------
(***************************************************************************)
(* The file store (content/file/file.go) and the memory store              *)
(* (content/memory/memory.go), called by several goroutines.  Taking and   *)
(* leaving the lock of a name, creating a file, writing it, and every      *)
(* access to digestToPath, to the memory CAS (internal/cas/memory.go) and  *)
(* to the graph are steps.                                                 *)
(*                                                                         *)
(* A digest stands for the content it is the digest of, and its media      *)
(* type.  A name is also the path of its file: names that resolve to one   *)
(* path, and Add with a path other than the name, are left out.            *)
(***************************************************************************)
EXTENDS Naturals, Sequences, FiniteSets, SequencesExt

CONSTANTS
    Procs,       \* goroutines
    Digests,     \* contents
    Names,       \* values of the title annotation
    Dirs,        \* names whose content has the unpack annotation
    Succ,        \* Succ[d]: the descriptors in manifest d, <<>> for a blob
    Large,       \* contents above the push limit of the fallback storage
    OnDisk,      \* OnDisk[n]: the content of file n before the store is opened
    References,
    Options,     \* settings of the store to try; kind is "file" or "memory"
    Programs     \* sets of calls; a behaviour makes the calls of one of them

VARIABLES
    opts,        \* the fields of Store that the user sets
    exists,      \* exists[n]: nameStatus.exists
    lock,        \* lock[n]: who holds the lock of nameStatus, or Free
    file,        \* file[n]: the content of file n, Junk, or Absent
    path,        \* digestToPath: a name, Temp, or Absent
    fallback,    \* content of the memory CAS
    indexed,     \* manifests in the graph
    tags,        \* tags[r]: the descriptor tagged r, or Nothing
    closed,
    job,         \* job[p]: the call that p is in
    todo         \* calls that are still to be made

storeVars == <<exists, lock, file, path, fallback, indexed, tags, closed>>
vars == <<opts, exists, lock, file, path, fallback, indexed, tags, closed, job, todo>>

kind == opts.kind

Free == "free"
Absent == "absent"
Junk == "junk"        \* content that matches no descriptor
Temp == "temp"        \* a temporary file of its own
Unnamed == ""
Desc(d, n) == [d |-> d, n |-> n]
Nothing == Desc(Absent, Unnamed)
Manifest(d) == Succ[d] # <<>>

Descriptors == [d : Digests, n : Names \cup {Unnamed}]

\* A call, as the user makes it, has the arguments of its method.
CallOK(call) ==
    IF call.op = "pack" THEN call.desc \in Descriptors
    ELSE /\ {"op", "pc"} \subseteq DOMAIN call /\ "i" \notin DOMAIN call
         /\ call.pc \in {"push", "add", "tag", "close", "resolve"}
         /\ call.pc \in {"push", "add"} => "desc" \in DOMAIN call /\ call.desc \in Descriptors
         /\ call.pc = "add" => call.desc.n \in Names

ASSUME StoreAssumption ==
    /\ {Unnamed, Absent, Temp} \cap Names = {}
    /\ Free \notin Procs
    /\ Succ \in [Digests -> Seq(Descriptors)]
    /\ OnDisk = [n \in Names |-> OnDisk[n]]
    /\ \A program \in Programs : \A call \in program : CallOK(call)

\* desc: the descriptor that Push was called with; cur: the one being
\* written; src: where its bytes come from; i: the successor being restored;
\* had: the content that was there when Push began; goal, plan, from, refs,
\* all: of the calls in Pack.
Idle == [op |-> "none", pc |-> "idle", desc |-> Nothing, cur |-> Nothing, src |-> "whole",
         i |-> 1, had |-> {}, goal |-> Nothing, plan |-> <<>>, from |-> "", refs |-> {},
         all |-> {}, out |-> "none"]

Init ==
    /\ opts \in Options
    /\ exists = [n \in Names |-> FALSE]
    /\ lock = [n \in Names |-> Free]
    /\ file = OnDisk
    /\ path = [d \in Digests \cup {Junk} |-> Absent]
    /\ fallback = {}
    /\ indexed = {}
    /\ tags = [r \in References |-> Nothing]
    /\ closed = FALSE
    /\ job = [p \in Procs |-> Idle]
    /\ todo \in Programs
------------------------------------------------------------------------------
\* r with the fields given.
With(r, fields) == [x \in DOMAIN r |-> IF x \in DOMAIN fields THEN fields[x] ELSE r[x]]

At(p, pc) == job[p].pc = pc
Update(p, fields) == job' = [job EXCEPT ![p] = With(@, fields)]
Goto(p, pc) == Update(p, [pc |-> pc])

\* The call of p to the store ends with out.
Return(p, out) == Update(p, [pc |-> "returned", out |-> out, cur |-> Nothing,
                             src |-> "whole", i |-> 1])

Released(p) == [n \in Names |-> IF lock[n] = p THEN Free ELSE lock[n]]

Content == {d \in Digests : path[d] # Absent} \cup fallback

Call(p, call) ==
    /\ job[p].pc \in {"idle", "returned"}
    /\ job[p].plan = <<>>
    /\ call \in todo
    /\ call.op \in {"add", "close"} => kind = "file"
    /\ todo' = todo \ {call}
    /\ job' = [job EXCEPT ![p] = With(With(Idle, [had |-> Content]), call)]
    /\ UNCHANGED <<opts, storeVars>>

\* The rest of restoreDuplicates when the write of a successor has failed.
Fail(p, error) ==
    IF job[p].cur # job[p].desc /\ error \in {"notfound", "duplicate"}
    THEN Update(p, [pc |-> "restore", i |-> job[p].i + 1])
    ELSE Return(p, error)

\* A VerifyReader accepts what has the size and the digest of the descriptor.
Verify(payload) ==
    CASE payload = "whole" -> "ok"
      [] payload = "short" -> "unexpected EOF"
      [] payload = "long" -> "trailing data"
      [] payload = "corrupt" -> "mismatched digest"

\* What a reader yields: the caller's, or one that Fetch has opened.
Payload(p) ==
    IF job[p].src \in Names /\ file[job[p].src] # job[p].cur.d THEN "corrupt"
    ELSE IF job[p].src \in {"short", "long", "corrupt"} THEN job[p].src ELSE "whole"
------------------------------------------------------------------------------
Push(p) ==
    /\ At(p, "push")
    /\ kind = "file"
    /\ IF closed THEN Return(p, "closed")
       ELSE Update(p, [pc |-> "write", cur |-> job[p].desc])
    /\ UNCHANGED <<opts, storeVars, todo>>

MemoryPush(p) ==
    /\ At(p, "push")
    /\ kind = "memory"
    /\ Update(p, [pc |-> "write", cur |-> job[p].desc])
    /\ UNCHANGED <<opts, storeVars, todo>>

\* push of unnamed content, up to the first look into the memory CAS.
PushFallback(p) ==
    /\ At(p, "write")
    /\ kind = "memory" \/ job[p].cur.n = Unnamed
    /\ IF kind = "file" /\ opts.ignoreNoName THEN Return(p, "skipped")
       ELSE IF kind = "file" /\ job[p].cur.d \in Large THEN Return(p, "size exceeds limit")
       ELSE IF job[p].cur.d \in fallback THEN Return(p, "exists")
       ELSE Goto(p, "store")
    /\ UNCHANGED <<opts, storeVars, todo>>

\* The memory CAS reads all of the content and stores it, unless it is
\* there by now.  The limit of the fallback storage cuts off what is too long.
StoreFallback(p) ==
    /\ At(p, "store")
    /\ LET payload == IF kind = "file" /\ job[p].src = "long" THEN "whole" ELSE Payload(p) IN
       IF Verify(payload) # "ok" THEN Return(p, Verify(payload)) /\ UNCHANGED fallback
       ELSE IF job[p].cur.d \in fallback THEN Return(p, "exists") /\ UNCHANGED fallback
       ELSE /\ fallback' = fallback \cup {job[p].cur.d}
            /\ Goto(p, IF kind = "file" /\ ~opts.forceCAS THEN "restore" ELSE "index")
    /\ UNCHANGED <<opts, exists, lock, file, path, indexed, tags, closed, todo>>

\* A mutant: the status of the name is not looked at.
PushNamedAgain(p) ==
    /\ At(p, "write")
    /\ kind = "file" /\ job[p].cur.n # Unnamed
    /\ lock[job[p].cur.n] = Free
    /\ lock' = [lock EXCEPT ![job[p].cur.n] = p]
    /\ file' = [file EXCEPT ![job[p].cur.n] = Junk]
    /\ Goto(p, "copy")
    /\ UNCHANGED <<opts, exists, path, fallback, indexed, tags, closed, todo>>

\* push of named content: under the lock of the name the target is resolved
\* and the file is created, which truncates it.  A directory is unpacked
\* from a temporary file.
PushNamed(p) ==
    /\ At(p, "write")
    /\ kind = "file" /\ job[p].cur.n # Unnamed
    /\ LET n == job[p].cur.n
           unpack == n \in Dirs /\ ~opts.skipUnpack IN
       /\ lock[n] = Free
       /\ IF exists[n] THEN Fail(p, "duplicate") /\ UNCHANGED <<lock, file>>
          ELSE IF opts.disableOverwrite /\ file[n] # Absent
               THEN Fail(p, "overwrite disallowed") /\ UNCHANGED <<lock, file>>
          ELSE IF n \in Dirs /\ opts.skipUnpack /\ OnDisk[n] # Absent \* it is a directory
               THEN Fail(p, "create") /\ UNCHANGED <<lock, file>>
          ELSE /\ lock' = [lock EXCEPT ![n] = p]
               /\ file' = IF unpack THEN file ELSE [file EXCEPT ![n] = Junk]
               /\ Goto(p, IF unpack THEN "archive" ELSE "copy")
    /\ UNCHANGED <<opts, exists, path, fallback, indexed, tags, closed, todo>>

\* A mutant: the lock of the name is kept when the write fails.
AbortLocked(p, error) == Fail(p, error) /\ UNCHANGED lock

Abort(p, error) == Fail(p, error) /\ lock' = Released(p)

\* saveFile into the file of the name.
SaveFile(p) ==
    /\ At(p, "copy")
    /\ LET d == job[p].cur.d
           n == job[p].cur.n IN
       IF Verify(Payload(p)) # "ok"
       THEN Abort(p, Verify(Payload(p))) /\ UNCHANGED <<file, path>>
       ELSE /\ file' = [file EXCEPT ![n] = d]
            /\ path' = [path EXCEPT ![d] = n]
            /\ Goto(p, "mark")
            /\ UNCHANGED lock
    /\ UNCHANGED <<opts, exists, fallback, indexed, tags, closed, todo>>

\* saveFile into a temporary file, for pushDir.
SaveArchive(p) ==
    /\ At(p, "archive")
    /\ IF Verify(Payload(p)) # "ok"
       THEN Abort(p, Verify(Payload(p))) /\ UNCHANGED path
       ELSE /\ path' = [path EXCEPT ![job[p].cur.d] = Temp]
            /\ Goto(p, "extract")
            /\ UNCHANGED lock
    /\ UNCHANGED <<opts, exists, file, fallback, indexed, tags, closed, todo>>

\* extractTarGzip, which may fail half-way.
Extract(p) ==
    /\ At(p, "extract")
    /\ \E ok \in BOOLEAN :
          /\ file' = [file EXCEPT ![job[p].cur.n] = IF ok THEN job[p].cur.d ELSE Junk]
          /\ IF ok THEN Goto(p, "mark") /\ UNCHANGED lock ELSE Abort(p, "extract")
    /\ UNCHANGED <<opts, exists, path, fallback, indexed, tags, closed, todo>>

\* The name exists, and its lock is left.
Mark(p) ==
    /\ At(p, "mark")
    /\ exists' = [exists EXCEPT ![job[p].cur.n] = TRUE]
    /\ lock' = Released(p)
    /\ IF job[p].op = "add" THEN Return(p, "ok")
       ELSE IF job[p].cur # job[p].desc THEN Update(p, [pc |-> "restore", i |-> job[p].i + 1])
       ELSE Goto(p, IF opts.forceCAS THEN "index" ELSE "restore")
    /\ UNCHANGED <<opts, file, path, fallback, indexed, tags, closed, todo>>
------------------------------------------------------------------------------
\* restoreDuplicates: the next successor, unless it has no name or its name
\* exists, which is read under the lock of the name.
Restore(p) ==
    /\ At(p, "restore")
    /\ LET list == Succ[job[p].desc.d] IN
       IF job[p].i > Len(list) THEN Goto(p, "index")
       ELSE LET s == list[job[p].i] IN
            /\ s.n # Unnamed => lock[s.n] = Free
            /\ IF s.n = Unnamed \/ exists[s.n] THEN Update(p, [i |-> job[p].i + 1])
               ELSE Update(p, [pc |-> "refetch", cur |-> s])
    /\ UNCHANGED <<opts, storeVars, todo>>

\* Fetch of a descriptor without a name: where its bytes are, or Absent.
Located(d) ==
    IF path[d] \in Names THEN (IF file[path[d]] = Absent THEN Absent ELSE path[d])
    ELSE IF path[d] = Temp \/ d \in fallback THEN "whole"
    ELSE Absent

\* A mutant: a successor that is not there yet ends the restoring.
RefetchAll(p) ==
    /\ At(p, "refetch")
    /\ IF Located(job[p].cur.d) = Absent THEN Goto(p, "index")
       ELSE Update(p, [pc |-> "write", src |-> Located(job[p].cur.d)])
    /\ UNCHANGED <<opts, storeVars, todo>>

Refetch(p) ==
    /\ At(p, "refetch")
    /\ IF Located(job[p].cur.d) = Absent THEN Fail(p, "notfound")
       ELSE Update(p, [pc |-> "write", src |-> Located(job[p].cur.d)])
    /\ UNCHANGED <<opts, storeVars, todo>>

IndexGraph(p) ==
    /\ At(p, "index")
    /\ indexed' = IF Manifest(job[p].desc.d) THEN indexed \cup {job[p].desc.d} ELSE indexed
    /\ Return(p, "ok")
    /\ UNCHANGED <<opts, exists, lock, file, path, fallback, tags, closed, todo>>
------------------------------------------------------------------------------
\* Add of a file or of a directory, which is archived into a temporary file.
Add(p) ==
    /\ At(p, "add")
    /\ LET n == job[p].desc.n IN
       IF closed THEN Return(p, "closed") /\ UNCHANGED <<lock, path>>
       ELSE /\ lock[n] = Free
            /\ IF exists[n] THEN Return(p, "duplicate") /\ UNCHANGED <<lock, path>>
               ELSE IF file[n] = Absent THEN Return(p, "stat") /\ UNCHANGED <<lock, path>>
               ELSE /\ lock' = [lock EXCEPT ![n] = p]
                    /\ path' = [path EXCEPT ![file[n]] = IF n \in Dirs THEN Temp ELSE n]
                    /\ Update(p, [pc |-> "mark", cur |-> job[p].desc])
    /\ UNCHANGED <<opts, exists, file, fallback, indexed, tags, closed, todo>>

\* Exists waits for the lock of the name.
Exists(desc) ==
    /\ kind = "file" /\ desc.n # Unnamed => exists[desc.n]
    /\ desc.d \in Content

CanLook(desc) == kind = "file" /\ desc.n # Unnamed => lock[desc.n] = Free

\* Tag: nothing is ever deleted, so that the descriptor still exists when
\* the resolver gets it.
TagStep(p, desc, r) ==
    /\ CanLook(desc)
    /\ IF closed THEN Return(p, "closed") /\ UNCHANGED tags
       ELSE IF ~Exists(desc) THEN Return(p, "notfound") /\ UNCHANGED tags
       ELSE Return(p, "ok") /\ tags' = [tags EXCEPT ![r] = desc]

Tag(p) ==
    /\ At(p, "tag")
    /\ \E r \in job[p].refs : TagStep(p, job[p].desc, r)
    /\ UNCHANGED <<opts, exists, lock, file, path, fallback, indexed, closed, todo>>

\* Close is not safe to call while a goroutine is in another method.  The
\* temporary files that it removes are out of reach from then on.
Close(p) ==
    /\ At(p, "close")
    /\ \A q \in Procs \ {p} : job[q].pc \in {"idle", "returned"}
    /\ closed' = TRUE
    /\ Return(p, "ok")
    /\ UNCHANGED <<opts, exists, lock, file, path, fallback, indexed, tags, todo>>

StoreStep(p) ==
    \/ Push(p) \/ MemoryPush(p) \/ PushFallback(p) \/ StoreFallback(p) \/ PushNamed(p)
    \/ SaveFile(p) \/ SaveArchive(p) \/ Extract(p) \/ Mark(p)
    \/ Restore(p) \/ Refetch(p) \/ IndexGraph(p)
    \/ Add(p) \/ Tag(p) \/ Close(p)
------------------------------------------------------------------------------
\* What digestToPath gives for a digest is a file with that content, at any
\* time: no push opens (and so truncates) the file of a name that exists,
\* whatever other pushes, restores and Adds of the name are under way.
FilesIntact == \A d \in Digests : path[d] \in Names => file[path[d]] = d

\* When Push of a manifest has returned without error and ForceCAS is off,
\* every named successor whose content was in the store when Push began has
\* its file (restoreDuplicates), even when its name is being pushed or
\* restored by others that fail, or other successors are not there yet.
Restored ==
    \A p \in Procs :
        job[p].op = "push" /\ job[p].pc = "returned" /\ job[p].out = "ok"
            /\ kind = "file" /\ ~opts.forceCAS
        => \A k \in 1 .. Len(Succ[job[p].desc.d]) :
              LET s == Succ[job[p].desc.d][k] IN
              s.n # Unnamed /\ s.d \in job[p].had => exists[s.n]
==============================================================================
