--------------------------- MODULE FileStoreProofs ---------------------------
(***************************************************************************)
(* For any calls of any number of goroutines, with any options: the files  *)
(* that the file store keeps for digests stay intact (FilesIntact).  The   *)
(* invariant ties each file to the status and the lock of its name: a file *)
(* that digestToPath gives belongs to a name that exists, or to one whose  *)
(* push is about to say so and still holds the lock.                       *)
(***************************************************************************)
EXTENDS Pack, TLAPS

Pushing == {"push", "write", "store", "copy", "archive", "extract", "mark", "restore",
            "refetch", "index"}
Working == {"write", "store", "copy", "archive", "extract", "mark", "refetch"}

\* Where a call holds the lock of a name.
Writing == {"copy", "archive", "extract", "mark"}

JobOK(r) ==
    /\ {"op", "pc", "desc", "cur", "goal", "i"} \subseteq DOMAIN r
    /\ r.pc \in Pushing => r.desc \in Descriptors
    /\ r.pc \in Working => r.cur \in Descriptors
    /\ r.pc = "add" => r.desc \in Descriptors /\ r.desc.n \in Names
    /\ r.op = "pack" => r.goal \in Descriptors
    /\ r.pc = "step" => r.op = "pack"
    /\ r.i \in Nat \ {0}

Types ==
    /\ exists \in [Names -> BOOLEAN]
    /\ lock \in [Names -> Procs \cup {Free}]
    /\ file = [n \in Names |-> file[n]]
    /\ path = [d \in Digests \cup {Junk} |-> path[d]]
    /\ job = [p \in Procs |-> job[p]]
    /\ \A p \in Procs : JobOK(job[p])
    /\ \A call \in todo : CallOK(call)

\* A lock is held by the one call that writes the file of its name, which
\* does not exist yet.
Locks ==
    /\ \A p \in Procs : job[p].pc \in Writing =>
          /\ job[p].cur.n \in Names
          /\ lock[job[p].cur.n] = p
          /\ exists[job[p].cur.n] = FALSE
    /\ \A n \in Names : lock[n] # Free =>
          job[lock[n]].pc \in Writing /\ job[lock[n]].cur.n = n

\* A file is in digestToPath once it is written.
Files ==
    \A d \in Digests \cup {Junk} : path[d] \in Names =>
        /\ file[path[d]] = d
        /\ \/ exists[path[d]] = TRUE
           \/ lock[path[d]] # Free /\ job[lock[path[d]]].pc = "mark"

IInv == Types /\ Locks /\ Files
------------------------------------------------------------------------------
\* What Update does to a call.
LEMMA UpdateJob ==
    ASSUME Types, NEW p \in Procs, NEW fields, Update(p, fields)
    PROVE  /\ job' = [q \in Procs |-> job'[q]]
           /\ \A q \in Procs \ {p} : job'[q] = job[q]
           /\ DOMAIN job'[p] = DOMAIN job[p]
           /\ \A x \in DOMAIN job[p] :
                 job'[p][x] = IF x \in DOMAIN fields THEN fields[x] ELSE job[p][x]
BY DEF Types, Update, With

\* A step of a call that holds no lock before and after it and that leaves
\* names and files alone keeps the invariant.
LEMMA QuietStep ==
    ASSUME IInv, NEW p \in Procs,
           UNCHANGED <<exists, lock, file, path>>,
           \A call \in todo' : call \in todo,
           job' = [q \in Procs |-> job'[q]],
           \A q \in Procs \ {p} : job'[q] = job[q],
           job[p].pc \notin Writing, job'[p].pc \notin Writing, JobOK(job'[p])
    PROVE  IInv'
<1>1. Types'
  BY DEF IInv, Types, JobOK
<1>2. \A n \in Names : lock[n] # Free =>
        lock[n] \in Procs \ {p} /\ job'[lock[n]] = job[lock[n]]
  <2>1. lock \in [Names -> Procs \cup {Free}]
    BY DEF IInv, Types
  <2>2. \A n \in Names : lock[n] # Free => job[lock[n]].pc \in Writing
    BY DEF IInv, Locks
  <2> QED
    BY <2>1, <2>2
<1>3. \A q \in Procs : job'[q].pc \in Writing => job'[q] = job[q]
  OBVIOUS
<1>4. Locks'
  <2>1. \A q \in Procs : job'[q].pc \in Writing =>
          job'[q].cur.n \in Names /\ lock[job'[q].cur.n] = q /\ exists[job'[q].cur.n] = FALSE
    BY <1>3 DEF IInv, Locks
  <2>2. \A n \in Names : lock[n] # Free =>
          job'[lock[n]].pc \in Writing /\ job'[lock[n]].cur.n = n
    BY <1>2 DEF IInv, Locks
  <2> QED
    BY <2>1, <2>2 DEF Locks, Writing
<1>5. Files'
  BY <1>2 DEF IInv, Files
<1> QED
  BY <1>1, <1>4, <1>5 DEF IInv

LEMMA QuietUpdate ==
    ASSUME IInv, NEW p \in Procs, NEW fields, Update(p, fields),
           UNCHANGED <<exists, lock, file, path, todo>>,
           job[p].pc \notin Writing,
           With(job[p], fields).pc \notin Writing, JobOK(With(job[p], fields))
    PROVE  IInv'
<1>1. job' = [q \in Procs |-> job'[q]] /\ \A q \in Procs \ {p} : job'[q] = job[q]
  BY UpdateJob DEF IInv
<1>2. job'[p] = With(job[p], fields)
  BY DEF IInv, Types, Update
<1> QED
  BY <1>1, <1>2, QuietStep

\* The call returns, from the store or from the function that called it.
LEMMA Returns ==
    ASSUME IInv, NEW p \in Procs, NEW out, Return(p, out) \/ Leave(p, out),
           UNCHANGED <<exists, lock, file, path, todo>>, job[p].pc \notin Writing
    PROVE  IInv'
<1> DEFINE f == [pc |-> "returned", out |-> out, cur |-> Nothing, src |-> "whole", i |-> 1]
           g == [pc |-> "returned", plan |-> <<>>, out |-> out]
<1>1. JobOK(job[p])
  BY DEF IInv, Types
<1>2. JobOK(With(job[p], f)) /\ With(job[p], f).pc = "returned"
  BY <1>1 DEF JobOK, With, Pushing, Working
<1>3. JobOK(With(job[p], g)) /\ With(job[p], g).pc = "returned"
  BY <1>1 DEF JobOK, With, Pushing, Working
<1>4. Update(p, f) \/ Update(p, g)
  BY DEF Return, Leave
<1>5. "returned" \notin Writing
  BY DEF Writing
<1> HIDE DEF f, g
<1> QED
  BY <1>2, <1>3, <1>4, <1>5, QuietUpdate

\* The call goes on to a place where it holds no lock.
LEMMA Goes ==
    ASSUME IInv, NEW p \in Procs, NEW pc, Goto(p, pc), pc \in {"store", "restore", "index"},
           UNCHANGED <<exists, lock, file, path, todo>>,
           job[p].pc \in Pushing \ Writing, pc = "store" => job[p].pc \in Working
    PROVE  IInv'
<1>1. JobOK(job[p])
  BY DEF IInv, Types
<1>2. JobOK(With(job[p], [pc |-> pc])) /\ With(job[p], [pc |-> pc]).pc = pc
  BY <1>1 DEF JobOK, With, Pushing, Working
<1>3. pc \notin Writing
  BY DEF Writing
<1> QED
  BY <1>2, <1>3, QuietUpdate DEF Goto

\* The call fails where it holds no lock, or goes on with the next successor.
LEMMA Fails ==
    ASSUME IInv, NEW p \in Procs, NEW error, Fail(p, error),
           UNCHANGED <<exists, lock, file, path, todo>>, job[p].pc \in Pushing \ Writing
    PROVE  IInv'
<1> DEFINE f == [pc |-> "restore", i |-> job[p].i + 1]
<1>1. JobOK(job[p])
  BY DEF IInv, Types
<1>2. JobOK(With(job[p], f)) /\ With(job[p], f).pc = "restore"
  BY <1>1 DEF JobOK, With, Pushing, Working
<1>3. CASE Update(p, f)
  <2>1. "restore" \notin Writing
    BY DEF Writing
  <2> HIDE DEF f
  <2> QED
    BY <1>2, <1>3, <2>1, QuietUpdate
<1>4. CASE Return(p, error)
  BY <1>4, Returns
<1> QED
  BY <1>3, <1>4 DEF Fail
------------------------------------------------------------------------------
\* Push begins.
LEMMA PushKeeps ==
    ASSUME IInv, NEW p \in Procs, Push(p) \/ MemoryPush(p)
    PROVE  IInv'
<1> DEFINE f == [pc |-> "write", cur |-> job[p].desc]
<1>1. job[p].pc = "push" /\ job[p].pc \notin Writing /\ "write" \notin Writing
  BY DEF Push, MemoryPush, At, Writing
<1>2. UNCHANGED <<exists, lock, file, path, todo>>
  BY DEF Push, MemoryPush, storeVars
<1>3. JobOK(With(job[p], f)) /\ With(job[p], f).pc = "write"
  <2>1. JobOK(job[p])
    BY DEF IInv, Types
  <2> QED
    BY <1>1, <2>1 DEF JobOK, With, Pushing, Working
<1>4. Return(p, "closed") \/ Update(p, f)
  BY DEF Push, MemoryPush
<1> HIDE DEF f
<1> QED
  BY SMTT(30), <1>1, <1>2, <1>3, <1>4, Returns, QuietUpdate

LEMMA FallbackKeeps ==
    ASSUME IInv, NEW p \in Procs, PushFallback(p) \/ StoreFallback(p)
    PROVE  IInv'
<1>1. job[p].pc \in Pushing \ Writing /\ job[p].pc \in Working
  BY ZenonT(30) DEF PushFallback, StoreFallback, At, Pushing, Working, Writing
<1>2. UNCHANGED <<exists, lock, file, path, todo>>
  BY ZenonT(30) DEF PushFallback, StoreFallback, storeVars
<1>3. \/ \E out : Return(p, out)
      \/ Goto(p, "store") \/ Goto(p, "restore") \/ Goto(p, "index")
  BY ZenonT(30) DEF PushFallback, StoreFallback
<1> QED
  BY <1>1, <1>2, <1>3, Returns, Goes

LEMMA RestoreKeeps ==
    ASSUME IInv, NEW p \in Procs, Restore(p)
    PROVE  IInv'
<1> DEFINE list == Succ[job[p].desc.d]
           s == list[job[p].i]
           f == [i |-> job[p].i + 1]
           g == [pc |-> "refetch", cur |-> s]
<1>1. job[p].pc = "restore" /\ job[p].pc \in Pushing \ Writing /\ "refetch" \notin Writing
  BY ZenonT(30) DEF Restore, At, Pushing, Writing
<1>2. UNCHANGED <<exists, lock, file, path, todo>>
  BY ZenonT(30) DEF Restore, storeVars
<1>3. JobOK(job[p])
  BY DEF IInv, Types
<1>3a. list \in Seq(Descriptors) /\ job[p].i \in Nat \ {0}
  <2>1. job[p].desc \in Descriptors /\ job[p].i \in Nat \ {0}
    BY <1>1, <1>3 DEF JobOK
  <2>2. job[p].desc.d \in Digests
    BY <2>1 DEF Descriptors
  <2> QED
    BY <2>1, <2>2, StoreAssumption
<1>4. \/ Goto(p, "index")
      \/ job[p].i \leq Len(list) /\ (Update(p, f) \/ Update(p, g))
  <2>1. Len(list) \in Nat
    BY <1>3a
  <2>2. CASE job[p].i > Len(list)
    BY <2>2 DEF Restore
  <2>3. CASE ~(job[p].i > Len(list))
    <3>1. job[p].i \leq Len(list)
      BY SMTT(30), <1>3a, <2>1, <2>3
    <3>2. Update(p, f) \/ Update(p, g)
      BY ZenonT(30), <2>3 DEF Restore
    <3> QED
      BY <3>1, <3>2
  <2> QED
    BY <2>2, <2>3
<1>5. CASE Goto(p, "index")
  BY <1>1, <1>2, <1>5, Goes
<1>6. CASE Update(p, f)
  <2>1. JobOK(With(job[p], f)) /\ With(job[p], f).pc = "restore"
    BY <1>1, <1>3 DEF JobOK, With, Pushing, Working
  <2> HIDE DEF f
  <2> QED
    BY SMTT(30), <1>1, <1>2, <1>6, <2>1, QuietUpdate
<1>7. CASE job[p].i \leq Len(list) /\ Update(p, g)
  <2>1. job[p].i \in 1 .. Len(list)
    BY <1>3a, <1>7
  <2>2. s \in Descriptors
    BY <1>3a, <2>1
  <2> HIDE DEF s
  <2>3. JobOK(With(job[p], g)) /\ With(job[p], g).pc = "refetch"
    BY <1>1, <1>3, <2>2 DEF JobOK, With, Pushing, Working
  <2> HIDE DEF g
  <2> QED
    BY <1>1, <1>2, <1>7, <2>3, QuietUpdate
<1> QED
  BY SMTT(30), <1>4, <1>5, <1>6, <1>7

LEMMA RefetchKeeps ==
    ASSUME IInv, NEW p \in Procs, Refetch(p)
    PROVE  IInv'
<1> DEFINE f == [pc |-> "write", src |-> Located(job[p].cur.d)]
<1>1. job[p].pc = "refetch" /\ job[p].pc \in Pushing \ Writing /\ "write" \notin Writing
  BY DEF Refetch, At, Pushing, Writing
<1>2. UNCHANGED <<exists, lock, file, path, todo>>
  BY DEF Refetch, storeVars
<1>3. JobOK(With(job[p], f)) /\ With(job[p], f).pc = "write"
  <2>1. JobOK(job[p])
    BY DEF IInv, Types
  <2> QED
    BY <1>1, <2>1 DEF JobOK, With, Pushing, Working
<1>4. Fail(p, "notfound") \/ Update(p, f)
  BY DEF Refetch
<1> HIDE DEF f
<1> QED
  BY SMTT(30), <1>1, <1>2, <1>3, <1>4, Fails, QuietUpdate

LEMMA EndKeeps ==
    ASSUME IInv, NEW p \in Procs, IndexGraph(p) \/ Tag(p) \/ Close(p)
    PROVE  IInv'
<1>1. job[p].pc \notin Writing
  BY DEF IndexGraph, Tag, Close, At, Writing
<1>2. UNCHANGED <<exists, lock, file, path, todo>>
  BY DEF IndexGraph, Tag, Close
<1>3. \E out : Return(p, out)
  BY DEF IndexGraph, Tag, TagStep, Close
<1> QED
  BY <1>1, <1>2, <1>3, Returns
------------------------------------------------------------------------------
\* The call at p goes on under the lock of n.
LEMMA Advances ==
    ASSUME IInv, NEW p \in Procs, NEW pc, Goto(p, pc), pc \in Writing, job[p].pc \in Working
    PROVE  /\ job' = [q \in Procs |-> job'[q]]
           /\ \A q \in Procs \ {p} : job'[q] = job[q]
           /\ JobOK(job'[p]) /\ job'[p].pc = pc /\ job'[p].cur = job[p].cur
<1>1. JobOK(job[p])
  BY DEF IInv, Types
<1>2. job'[p] = With(job[p], [pc |-> pc])
  BY DEF IInv, Types, Goto, Update
<1>3. JobOK(job'[p]) /\ job'[p].pc = pc /\ job'[p].cur = job[p].cur
  BY <1>1, <1>2 DEF JobOK, With, Pushing, Working, Writing
<1> QED
  BY <1>3, UpdateJob DEF IInv, Goto

\* A name without a lock whose status is not "exists" has no file that
\* digestToPath gives; nor has the name whose file is being written.
LEMMA NoFile ==
    ASSUME IInv, NEW n \in Names, exists[n] = FALSE,
           lock[n] = Free \/ (lock[n] \in Procs /\ job[lock[n]].pc # "mark")
    PROVE  \A d \in Digests \cup {Junk} : path[d] # n
BY DEF IInv, Files

\* A call takes the free lock of a name that does not exist: no digest has
\* its file, which may be truncated, or listed as it is.
LEMMA Takes ==
    ASSUME IInv, NEW p \in Procs, job[p].pc \notin Writing,
           NEW n \in Names, lock[n] = Free, ~exists[n], lock' = [lock EXCEPT ![n] = p],
           UNCHANGED <<exists, todo>>,
           file' = [m \in Names |-> file'[m]],
           path' = [d \in Digests \cup {Junk} |-> path'[d]],
           \A m \in Names \ {n} : file'[m] = file[m],
           NEW fields, Update(p, fields), With(job[p], fields).pc \in Writing,
           With(job[p], fields).cur.n = n, JobOK(With(job[p], fields)),
           \A d \in Digests \cup {Junk} :
              \/ path'[d] = path[d] \/ path'[d] \notin Names
              \/ path'[d] = n /\ file'[n] = d /\ With(job[p], fields).pc = "mark"
    PROVE  IInv'
<1>1. /\ job' = [q \in Procs |-> job'[q]]
      /\ \A q \in Procs \ {p} : job'[q] = job[q]
      /\ job'[p] = With(job[p], fields)
      /\ JobOK(job'[p]) /\ job'[p].pc \in Writing /\ job'[p].cur.n = n
  <2>1. job'[p] = With(job[p], fields)
    BY DEF IInv, Types, Update
  <2> QED
    BY <2>1, UpdateJob DEF IInv
<1>2. exists[n] = FALSE /\ lock \in [Names -> Procs \cup {Free}] /\ Free \notin Procs
  BY StoreAssumption DEF IInv, Types
<1>3. Types'
  <2>1. lock' \in [Names -> Procs \cup {Free}]
    BY <1>2
  <2>2. \A q \in Procs : JobOK(job'[q])
    BY <1>1 DEF IInv, Types
  <2> QED
    BY <1>1, <2>1, <2>2 DEF IInv, Types
<1>4. \A m \in Names : lock[m] # Free =>
        m # n /\ lock'[m] = lock[m] /\ lock[m] \in Procs \ {p} /\ job'[lock[m]] = job[lock[m]]
  <2>1. \A m \in Names : lock[m] # Free => job[lock[m]].pc \in Writing
    BY DEF IInv, Locks
  <2> QED
    BY <1>1, <1>2, <2>1
<1>5. Locks'
  <2>1. ASSUME NEW q \in Procs, job'[q].pc \in Writing
        PROVE  job'[q].cur.n \in Names /\ lock'[job'[q].cur.n] = q /\ exists[job'[q].cur.n] = FALSE
    <3>1. CASE q = p
      BY SMTT(30), <1>1, <1>2, <3>1
    <3>2. CASE q # p
      <4>1. job[q].cur.n \in Names /\ lock[job[q].cur.n] = q /\ exists[job[q].cur.n] = FALSE
        BY <1>1, <2>1, <3>2 DEF IInv, Locks
      <4> QED
        BY SMTT(30), <1>1, <1>2, <1>4, <3>2, <4>1
    <3> QED
      BY ZenonT(30), <3>1, <3>2
  <2>2. ASSUME NEW m \in Names, lock'[m] # Free
        PROVE  job'[lock'[m]].pc \in Writing /\ job'[lock'[m]].cur.n = m
    <3>1. CASE m = n
      BY <1>1, <1>2, <3>1
    <3>2. CASE m # n
      <4>1. lock[m] # Free
        BY SMTT(30), <1>2, <2>2, <3>2
      <4> QED
        BY <1>4, <4>1 DEF IInv, Locks
    <3> QED
      BY <3>1, <3>2
  <2> QED
    BY ZenonT(30), <2>1, <2>2 DEF Locks, Writing
<1>6. Files'
  <2> SUFFICES ASSUME NEW d \in Digests \cup {Junk}, path'[d] \in Names
               PROVE  /\ file'[path'[d]] = d
                      /\ \/ exists[path'[d]] = TRUE
                         \/ lock'[path'[d]] # Free /\ job'[lock'[path'[d]]].pc = "mark"
    BY ZenonT(30) DEF Files
  <2>1. CASE path'[d] = n /\ file'[n] = d /\ With(job[p], fields).pc = "mark"
    BY <1>1, <1>2, <2>1
  <2>2. CASE path'[d] = path[d]
    <3>1. path[d] # n
      BY ZenonT(30), <1>2, NoFile
    <3> QED
      BY <1>4, <2>2, <3>1 DEF IInv, Files
  <2> QED
    BY ZenonT(30), <2>1, <2>2
<1> QED
  BY <1>3, <1>5, <1>6 DEF IInv

LEMMA PushNamedKeeps ==
    ASSUME IInv, NEW p \in Procs, PushNamed(p)
    PROVE  IInv'
<1> DEFINE n == job[p].cur.n
<1>1. job[p].pc = "write" /\ n # Unnamed /\ lock[n] = Free
  BY ZenonT(30) DEF PushNamed, At
<1>2. n \in Names /\ job[p].pc \in Pushing \ Writing /\ JobOK(job[p])
  <2>1. JobOK(job[p])
    BY DEF IInv, Types
  <2>2. job[p].pc \in Working /\ job[p].pc \in Pushing \ Writing
    BY <1>1 DEF Pushing, Working, Writing
  <2> QED
    BY <1>1, <2>1, <2>2 DEF JobOK, Descriptors
<1>3. UNCHANGED <<exists, path, todo>>
  BY ZenonT(30) DEF PushNamed
<1>4. CASE \E error : Fail(p, error) /\ UNCHANGED <<lock, file>>
  BY SMTT(30), <1>2, <1>3, <1>4, Fails
<1>5. ASSUME ~exists[n], lock' = [lock EXCEPT ![n] = p], NEW pc \in {"archive", "copy"}, Goto(p, pc),
             file' = file \/ file' = [file EXCEPT ![n] = Junk]
      PROVE  IInv'
  <2> DEFINE f == [pc |-> pc]
  <2>1. /\ JobOK(With(job[p], f)) /\ With(job[p], f).pc \in Writing
        /\ With(job[p], f).cur = job[p].cur
    BY <1>1, <1>2 DEF JobOK, With, Pushing, Working, Writing
  <2>2. /\ file' = [m \in Names |-> file'[m]] /\ \A m \in Names \ {n} : file'[m] = file[m]
        /\ path' = [d \in Digests \cup {Junk} |-> path'[d]]
    BY <1>3, <1>5 DEF IInv, Types
  <2>3. Update(p, f)
    BY <1>5 DEF Goto
  <2> HIDE DEF f
  <2> QED
    BY ZenonT(30), <1>1, <1>2, <1>3, <1>5, <2>1, <2>2, <2>3, Takes
<1> QED
  BY ZenonT(30), <1>4, <1>5 DEF PushNamed

LEMMA AddKeeps ==
    ASSUME IInv, NEW p \in Procs, Add(p)
    PROVE  IInv'
<1> DEFINE n == job[p].desc.n
           f == [pc |-> "mark", cur |-> job[p].desc]
<1>1. job[p].pc = "add" /\ job[p].pc \notin Writing /\ UNCHANGED <<exists, file, todo>>
  BY DEF Add, At, Writing
<1>2. JobOK(job[p])
  BY DEF IInv, Types
<1>3. n \in Names
  BY <1>1, <1>2 DEF JobOK
<1>4. CASE \E out : Return(p, out) /\ UNCHANGED <<lock, path>>
  BY SMTT(30), <1>1, <1>4, Returns
<1>5. CASE /\ lock[n] = Free /\ ~exists[n] /\ lock' = [lock EXCEPT ![n] = p]
           /\ path' = [path EXCEPT ![file[n]] = IF n \in Dirs THEN Temp ELSE n]
           /\ Update(p, f)
  <2>1. /\ JobOK(With(job[p], f)) /\ With(job[p], f).pc = "mark"
        /\ With(job[p], f).cur = job[p].desc
    BY SMTT(30), <1>1, <1>2 DEF JobOK, With, Pushing, Working
  <2>2. /\ file' = [m \in Names |-> file'[m]]
        /\ path' = [d \in Digests \cup {Junk} |-> path'[d]]
        /\ \A d \in Digests \cup {Junk} :
              path'[d] = path[d] \/ path'[d] = Temp \/ (path'[d] = n /\ file[n] = d)
    BY ZenonT(30), <1>1, <1>5 DEF IInv, Types
  <2>3. Temp \notin Names /\ "mark" \in Writing
    BY StoreAssumption DEF Writing
  <2> HIDE DEF f
  <2> QED
    BY ZenonT(30), <1>1, <1>3, <1>5, <2>1, <2>2, <2>3, Takes
<1> QED
  BY <1>4, <1>5 DEF Add

\* Under its lock a call writes its file, and lists it when it is whole.
LEMMA Proceeds ==
    ASSUME IInv, NEW p \in Procs, job[p].pc \in Writing \ {"mark"},
           NEW pc \in Writing, Goto(p, pc), UNCHANGED <<exists, lock, todo>>,
           file' = [m \in Names |-> file'[m]],
           path' = [d \in Digests \cup {Junk} |-> path'[d]],
           \A m \in Names \ {job[p].cur.n} : file'[m] = file[m],
           \A d \in Digests \cup {Junk} :
              \/ path'[d] = path[d] \/ path'[d] \notin Names
              \/ path'[d] = job[p].cur.n /\ file'[job[p].cur.n] = d /\ pc = "mark"
    PROVE  IInv'
<1> DEFINE n == job[p].cur.n
<1>1. /\ job' = [q \in Procs |-> job'[q]]
      /\ \A q \in Procs \ {p} : job'[q] = job[q]
      /\ JobOK(job'[p]) /\ job'[p].pc = pc /\ job'[p].cur = job[p].cur
  BY Advances DEF Writing, Working
<1>2. n \in Names /\ lock[n] = p /\ exists[n] = FALSE
  BY DEF IInv, Locks
<1>3. Types'
  <2>1. \A q \in Procs : JobOK(job'[q])
    BY <1>1 DEF IInv, Types
  <2> QED
    BY <1>1, <2>1 DEF IInv, Types
<1>4. \A q \in Procs : job'[q].cur = job[q].cur /\ (job'[q].pc \in Writing <=> job[q].pc \in Writing)
  BY <1>1
<1>5. Locks'
  <2>1. \A m \in Names : lock[m] # Free => lock[m] \in Procs
    BY DEF IInv, Types
  <2>2. \A q \in Procs : job'[q].pc \in Writing =>
          job'[q].cur.n \in Names /\ lock[job'[q].cur.n] = q /\ exists[job'[q].cur.n] = FALSE
    BY <1>4 DEF IInv, Locks
  <2>3. \A m \in Names : lock[m] # Free =>
          job'[lock[m]].pc \in Writing /\ job'[lock[m]].cur.n = m
    BY <1>4, <2>1 DEF IInv, Locks
  <2> QED
    BY <2>2, <2>3 DEF Locks, Writing
<1>6. Files'
  <2> SUFFICES ASSUME NEW d \in Digests \cup {Junk}, path'[d] \in Names
               PROVE  /\ file'[path'[d]] = d
                      /\ \/ exists[path'[d]] = TRUE
                         \/ lock[path'[d]] # Free /\ job'[lock[path'[d]]].pc = "mark"
    BY ZenonT(30) DEF Files
  <2>1. Free \notin Procs
    BY StoreAssumption
  <2>2. CASE path'[d] = n /\ file'[n] = d /\ pc = "mark"
    BY SMTT(30), <1>1, <1>2, <2>1, <2>2
  <2>3. CASE path'[d] = path[d]
    <3>1. path[d] # n
      BY ZenonT(30), <1>2, NoFile
    <3>2. /\ file[path[d]] = d
          /\ \/ exists[path[d]] = TRUE
             \/ lock[path[d]] # Free /\ job[lock[path[d]]].pc = "mark"
      BY <2>3 DEF IInv, Files
    <3>3. lock[path[d]] # Free => lock[path[d]] \in Procs \ {p}
      BY <2>3, <3>1 DEF IInv, Types, Locks
    <3> QED
      BY SMTT(30), <1>1, <2>3, <3>1, <3>2, <3>3
  <2> QED
    BY ZenonT(30), <2>2, <2>3
<1> QED
  BY <1>3, <1>5, <1>6 DEF IInv

\* A call leaves the lock of its name: it has failed and its file is listed
\* nowhere, or it has listed the file and the name exists.
LEMMA Releases ==
    ASSUME IInv, NEW p \in Procs, job[p].pc \in Writing,
           UNCHANGED <<path, todo>>, lock' = Released(p),
           file' = [m \in Names |-> file'[m]],
           \A m \in Names \ {job[p].cur.n} : file'[m] = file[m],
           \/ job[p].pc # "mark" /\ exists' = exists
           \/ job[p].pc = "mark" /\ file' = file /\ exists' = [exists EXCEPT ![job[p].cur.n] = TRUE],
           NEW fields, Update(p, fields),
           With(job[p], fields).pc \notin Writing, JobOK(With(job[p], fields))
    PROVE  IInv'
<1> DEFINE n == job[p].cur.n
<1>1. /\ job' = [q \in Procs |-> job'[q]]
      /\ \A q \in Procs \ {p} : job'[q] = job[q]
      /\ JobOK(job'[p]) /\ job'[p].pc \notin Writing
  <2>1. job'[p] = With(job[p], fields)
    BY DEF IInv, Types, Update
  <2> QED
    BY <2>1, UpdateJob DEF IInv
<1>2. /\ n \in Names /\ lock[n] = p /\ exists[n] = FALSE /\ Free \notin Procs
      /\ \A m \in Names : lock[m] = p <=> m = n
  BY StoreAssumption DEF IInv, Locks
<1>3. /\ lock \in [Names -> Procs \cup {Free}] /\ lock' \in [Names -> Procs \cup {Free}]
      /\ \A m \in Names : lock'[m] = IF m = n THEN Free ELSE lock[m]
  BY <1>2 DEF IInv, Types, Released
<1>4. exists' \in [Names -> BOOLEAN] /\ \A m \in Names \ {n} : exists'[m] = exists[m]
  BY ZenonT(30), <1>2 DEF IInv, Types
<1>5. Types'
  <2>1. \A q \in Procs : JobOK(job'[q])
    BY <1>1 DEF IInv, Types
  <2> QED
    BY <1>1, <1>3, <1>4, <2>1 DEF IInv, Types
<1>6. \A m \in Names : lock'[m] # Free =>
        m # n /\ lock'[m] = lock[m] /\ lock[m] \in Procs \ {p} /\ job'[lock[m]] = job[lock[m]]
  BY SMTT(30), <1>1, <1>2, <1>3
<1>7. Locks'
  <2>1. ASSUME NEW q \in Procs, job'[q].pc \in Writing
        PROVE  job'[q].cur.n \in Names /\ lock'[job'[q].cur.n] = q /\ exists'[job'[q].cur.n] = FALSE
    <3>1. q # p /\ job'[q] = job[q]
      BY <1>1, <2>1
    <3>2. job[q].cur.n \in Names /\ lock[job[q].cur.n] = q /\ exists[job[q].cur.n] = FALSE
      BY <2>1, <3>1 DEF IInv, Locks
    <3> QED
      BY SMTT(30), <1>2, <1>3, <1>4, <3>1, <3>2
  <2>2. \A m \in Names : lock'[m] # Free => job'[lock'[m]].pc \in Writing /\ job'[lock'[m]].cur.n = m
    BY <1>6 DEF IInv, Locks
  <2> QED
    BY ZenonT(30), <2>1, <2>2 DEF Locks, Writing
<1>8. Files'
  <2> SUFFICES ASSUME NEW d \in Digests \cup {Junk}, path[d] \in Names
               PROVE  /\ file'[path[d]] = d
                      /\ \/ exists'[path[d]] = TRUE
                         \/ lock'[path[d]] # Free /\ job'[lock'[path[d]]].pc = "mark"
    BY ZenonT(30) DEF Files
  <2>1. /\ file[path[d]] = d
        /\ \/ exists[path[d]] = TRUE
           \/ lock[path[d]] # Free /\ job[lock[path[d]]].pc = "mark"
    BY DEF IInv, Files
  <2>2. CASE path[d] # n
    <3>1. file'[path[d]] = d /\ exists'[path[d]] = exists[path[d]] /\ lock'[path[d]] = lock[path[d]]
      BY SMTT(30), <1>3, <1>4, <2>1, <2>2
    <3> QED
      BY SMTT(30), <1>6, <2>1, <3>1
  <2>3. CASE path[d] = n
    <3>1. job[p].pc = "mark"
      BY ZenonT(30), <1>2, <2>3, NoFile
    <3>2. file' = file /\ exists'[n] = TRUE
      BY <1>2, <3>1 DEF IInv, Types
    <3> QED
      BY <2>1, <2>3, <3>2
  <2> QED
    BY ZenonT(30), <2>2, <2>3
<1> QED
  BY SMTT(30), <1>5, <1>7, <1>8 DEF IInv

LEMMA Aborts ==
    ASSUME IInv, NEW p \in Procs, job[p].pc \in Writing \ {"mark"},
           NEW error, Abort(p, error), UNCHANGED <<exists, path, todo>>,
           file' = [m \in Names |-> file'[m]],
           \A m \in Names \ {job[p].cur.n} : file'[m] = file[m]
    PROVE  IInv'
<1> DEFINE f == [pc |-> "restore", i |-> job[p].i + 1]
           g == [pc |-> "returned", out |-> error, cur |-> Nothing, src |-> "whole", i |-> 1]
<1>1. JobOK(job[p])
  BY DEF IInv, Types
<1>2. JobOK(With(job[p], f)) /\ With(job[p], f).pc = "restore"
  BY SMTT(30), <1>1 DEF JobOK, With, Pushing, Working, Writing
<1>3. JobOK(With(job[p], g)) /\ With(job[p], g).pc = "returned"
  BY <1>1 DEF JobOK, With, Pushing, Working
<1>4. lock' = Released(p) /\ (Update(p, f) \/ Update(p, g))
  BY DEF Abort, Fail, Return
<1>5. "restore" \notin Writing /\ "returned" \notin Writing
  BY DEF Writing
<1> HIDE DEF f, g
<1>6. CASE Update(p, f)
  BY SMTT(30), <1>2, <1>4, <1>5, <1>6, Releases
<1>7. CASE Update(p, g)
  BY SMTT(30), <1>3, <1>4, <1>5, <1>7, Releases
<1> QED
  BY <1>4, <1>6, <1>7

LEMMA SaveFileKeeps ==
    ASSUME IInv, NEW p \in Procs, SaveFile(p)
    PROVE  IInv'
<1> DEFINE d == job[p].cur.d
           n == job[p].cur.n
<1>1. job[p].pc \in Writing \ {"mark"} /\ "mark" \in Writing /\ UNCHANGED <<exists, todo>>
  BY DEF SaveFile, At, Writing
<1>2. CASE Abort(p, Verify(Payload(p))) /\ UNCHANGED <<file, path>>
  <2>1. file' = [m \in Names |-> file'[m]]
    BY SMTT(30), <1>2 DEF IInv, Types
  <2> QED
    BY <1>1, <1>2, <2>1, Aborts
<1>3. CASE /\ file' = [file EXCEPT ![n] = d] /\ path' = [path EXCEPT ![d] = n]
           /\ Goto(p, "mark") /\ UNCHANGED lock
  <2>1. n \in Names
    BY <1>1 DEF IInv, Locks
  <2>2. /\ file' = [m \in Names |-> file'[m]]
        /\ file'[n] = d /\ \A m \in Names \ {n} : file'[m] = file[m]
    BY <1>3, <2>1 DEF IInv, Types
  <2>3. /\ path' = [e \in Digests \cup {Junk} |-> path'[e]]
        /\ \A e \in Digests \cup {Junk} : path'[e] = path[e] \/ (path'[e] = n /\ e = d)
    BY ZenonT(30), <1>3 DEF IInv, Types
  <2> QED
    BY ZenonT(30), <1>1, <1>3, <2>2, <2>3, Proceeds
<1> QED
  BY <1>2, <1>3 DEF SaveFile

LEMMA SaveArchiveKeeps ==
    ASSUME IInv, NEW p \in Procs, SaveArchive(p)
    PROVE  IInv'
<1>1. job[p].pc \in Writing \ {"mark"} /\ "extract" \in Writing /\ UNCHANGED <<exists, file, todo>>
  BY DEF SaveArchive, At, Writing
<1>2. file' = [m \in Names |-> file'[m]]
  BY <1>1 DEF IInv, Types
<1>3. CASE Abort(p, Verify(Payload(p))) /\ UNCHANGED path
  BY <1>1, <1>2, <1>3, Aborts
<1>4. CASE path' = [path EXCEPT ![job[p].cur.d] = Temp] /\ Goto(p, "extract") /\ UNCHANGED lock
  <2>1. /\ path' = [e \in Digests \cup {Junk} |-> path'[e]]
        /\ \A e \in Digests \cup {Junk} : path'[e] = path[e] \/ path'[e] = Temp
    BY ZenonT(30), <1>4 DEF IInv, Types
  <2>2. Temp \notin Names
    BY StoreAssumption
  <2> QED
    BY ZenonT(30), <1>1, <1>2, <1>4, <2>1, <2>2, Proceeds
<1> QED
  BY <1>3, <1>4 DEF SaveArchive

LEMMA ExtractKeeps ==
    ASSUME IInv, NEW p \in Procs, Extract(p)
    PROVE  IInv'
<1> DEFINE n == job[p].cur.n
<1>1. job[p].pc \in Writing \ {"mark"} /\ "mark" \in Writing /\ UNCHANGED <<exists, path, todo>>
  BY DEF Extract, At, Writing
<1>2. PICK content : file' = [file EXCEPT ![n] = content]
  BY ZenonT(30) DEF Extract
<1>3. /\ file' = [m \in Names |-> file'[m]]
      /\ \A m \in Names \ {n} : file'[m] = file[m]
      /\ path' = [d \in Digests \cup {Junk} |-> path'[d]]
  BY <1>1, <1>2 DEF IInv, Types
<1>4. (Goto(p, "mark") /\ UNCHANGED lock) \/ Abort(p, "extract")
  BY DEF Extract
<1>5. CASE Goto(p, "mark") /\ UNCHANGED lock
  BY SMTT(30), <1>1, <1>3, <1>5, Proceeds
<1>6. CASE Abort(p, "extract")
  BY SMTT(30), <1>1, <1>3, <1>6, Aborts
<1> QED
  BY <1>4, <1>5, <1>6

LEMMA MarkKeeps ==
    ASSUME IInv, NEW p \in Procs, Mark(p)
    PROVE  IInv'
<1> DEFINE f == [pc |-> "returned", out |-> "ok", cur |-> Nothing, src |-> "whole", i |-> 1]
           g == [pc |-> "restore", i |-> job[p].i + 1]
           h == [pc |-> "index"]
           k == [pc |-> "restore"]
<1>1. /\ job[p].pc = "mark" /\ job[p].pc \in Writing
      /\ UNCHANGED <<file, path, todo>> /\ lock' = Released(p)
      /\ exists' = [exists EXCEPT ![job[p].cur.n] = TRUE]
  BY DEF Mark, At, Writing
<1>2. file' = [m \in Names |-> file'[m]]
  BY <1>1 DEF IInv, Types
<1>3. {"returned", "restore", "index"} \cap Writing = {}
  BY DEF Writing
<1>4. JobOK(job[p])
  BY DEF IInv, Types
<1>5. ASSUME NEW x \in {f, g, h, k}
      PROVE  JobOK(With(job[p], x)) /\ With(job[p], x).pc \in {"returned", "restore", "index"}
  <2>1. CASE x = f
    BY SMTT(30), <1>1, <1>4, <2>1 DEF JobOK, With, Pushing, Working
  <2>2. CASE x = g
    BY SMTT(30), <1>1, <1>4, <2>2 DEF JobOK, With, Pushing, Working
  <2>3. CASE x = h \/ x = k
    BY SMTT(30), <1>1, <1>4, <2>3 DEF JobOK, With, Pushing, Working
  <2> QED
    BY SMTT(30), <2>1, <2>2, <2>3
<1>6. \E x \in {f, g, h, k} : Update(p, x)
  BY DEF Mark, Return, Goto
<1> HIDE DEF f, g, h, k
<1> QED
  BY ZenonT(30), <1>1, <1>2, <1>3, <1>5, <1>6, Releases
------------------------------------------------------------------------------
\* A call begins; what it is given is what the user may give.
LEMMA CallKeeps ==
    ASSUME IInv, NEW p \in Procs, NEW call \in todo,
           IF call.op = "pack" THEN PackCall(p, call) ELSE Call(p, call)
    PROVE  IInv'
<1> DEFINE r == With(With(Idle, [had |-> Content]), call)
           s == With(Idle, [op |-> "pack", pc |-> "step", goal |-> call.desc, plan |-> Plan(call)])
<1>1. job[p].pc \in {"idle", "returned"} /\ job[p].pc \notin Writing
  BY DEF PackCall, Call, Writing
<1>2. UNCHANGED <<exists, lock, file, path>> /\ \A c \in todo' : c \in todo
  BY DEF PackCall, Call, storeVars
<1>3. CallOK(call)
  BY DEF IInv, Types
<1>4. ASSUME call.op = "pack" PROVE JobOK(s) /\ s.pc \notin Writing
  <2>1. call.desc \in Descriptors
    BY SMTT(30), <1>3, <1>4 DEF CallOK
  <2>2. DOMAIN s = DOMAIN Idle /\ s.pc = "step" /\ s.op = "pack" /\ s.goal = call.desc /\ s.i = 1
    BY ZenonT(30) DEF With, Idle
  <2>3. {"op", "pc", "desc", "cur", "goal", "i"} \subseteq DOMAIN Idle
    BY DEF Idle
  <2> HIDE DEF s
  <2> QED
    BY <2>1, <2>2, <2>3 DEF JobOK, Pushing, Working, Writing
<1>5. ASSUME call.op # "pack" PROVE JobOK(r) /\ r.pc \notin Writing
  <2>1. /\ {"op", "pc"} \subseteq DOMAIN call /\ "i" \notin DOMAIN call
        /\ call.pc \in {"push", "add", "tag", "close", "resolve"}
        /\ call.pc \in {"push", "add"} => "desc" \in DOMAIN call /\ call.desc \in Descriptors
        /\ call.pc = "add" => call.desc.n \in Names
    BY SMTT(30), <1>3, <1>5 DEF CallOK
  <2>2. /\ DOMAIN r = DOMAIN Idle /\ r.pc = call.pc /\ r.op = call.op /\ r.i = 1
        /\ "desc" \in DOMAIN call => r.desc = call.desc
    BY ZenonT(30), <2>1 DEF With, Idle
  <2>3. {"op", "pc", "desc", "cur", "goal", "i"} \subseteq DOMAIN Idle
    BY DEF Idle
  <2> HIDE DEF r
  <2> QED
    BY <1>5, <2>1, <2>2, <2>3 DEF JobOK, Pushing, Working, Writing
<1>6. job' = [job EXCEPT ![p] = IF call.op = "pack" THEN s ELSE r]
  BY DEF PackCall, Call
<1> HIDE DEF r, s
<1>7. /\ job' = [q \in Procs |-> job'[q]]
      /\ \A q \in Procs \ {p} : job'[q] = job[q]
      /\ job'[p] = IF call.op = "pack" THEN s ELSE r
  BY SMTT(30), <1>6 DEF IInv, Types
<1> QED
  BY SMTT(30), <1>1, <1>2, <1>4, <1>5, <1>7, QuietStep

\* Packing and tagging only call the store.
LEMMA PackKeeps ==
    ASSUME IInv, NEW p \in Procs, PackStep(p)
    PROVE  IInv'
<1>1. JobOK(job[p])
  BY DEF IInv, Types
<1>2. UNCHANGED <<exists, lock, file, path, todo>>
  BY ZenonT(30) DEF PackStep, PushIfNotExist, PushPacked, PackFails, PackReturned, ResolveSource,
         BytesPushed, TagAll, storeVars
<1>3. job[p].pc \in {"step", "returned", "resolve", "tagall"} /\ job[p].pc \notin Writing
  BY ZenonT(30) DEF PackStep, PushIfNotExist, PushPacked, PackFails, PackReturned, ResolveSource,
         BytesPushed, TagAll, At, Writing
<1>4. \/ \E out : Leave(p, out)
      \/ \E plan : Update(p, [plan |-> plan])
      \/ \E desc \in Descriptors : Update(p, [pc |-> "push", desc |-> desc])
      \/ job[p].pc = "step" /\ Update(p, [pc |-> "push", desc |-> job[p].goal, had |-> Content])
      \/ \E plan : job[p].op = "pack" /\ Update(p, [pc |-> "step", plan |-> plan])
      \/ \E desc : Update(p, [pc |-> "tagall", desc |-> desc])
      \/ Update(p, [pc |-> "tagall"])
      \/ \E refs : Update(p, [refs |-> refs])
  BY ZenonT(30), PackAssumption
     DEF PackStep, PushIfNotExist, PushPacked, PackFails, PackReturned, ResolveSource,
         BytesPushed, TagAll, At, Goto, Blob
<1>5. ASSUME NEW plan, Update(p, [plan |-> plan]) PROVE IInv'
  <2>1. JobOK(With(job[p], [plan |-> plan])) /\ With(job[p], [plan |-> plan]).pc = job[p].pc
    BY <1>1 DEF JobOK, With
  <2> QED
    BY SMTT(30), <1>2, <1>3, <1>5, <2>1, QuietUpdate
<1>6. ASSUME NEW desc \in Descriptors, Update(p, [pc |-> "push", desc |-> desc]) PROVE IInv'
  <2>1. /\ JobOK(With(job[p], [pc |-> "push", desc |-> desc]))
        /\ With(job[p], [pc |-> "push", desc |-> desc]).pc \notin Writing
    BY SMTT(30), <1>1 DEF JobOK, With, Working, Writing
  <2> QED
    BY SMTT(30), <1>2, <1>3, <1>6, <2>1, QuietUpdate
<1>7. ASSUME job[p].pc = "step", Update(p, [pc |-> "push", desc |-> job[p].goal, had |-> Content])
      PROVE  IInv'
  <2>1. /\ JobOK(With(job[p], [pc |-> "push", desc |-> job[p].goal, had |-> Content]))
        /\ With(job[p], [pc |-> "push", desc |-> job[p].goal, had |-> Content]).pc \notin Writing
    BY SMTT(30), <1>1, <1>7 DEF JobOK, With, Working, Writing
  <2> QED
    BY SMTT(30), <1>2, <1>3, <1>7, <2>1, QuietUpdate
<1>8. ASSUME NEW plan, job[p].op = "pack", Update(p, [pc |-> "step", plan |-> plan]) PROVE IInv'
  <2>1. /\ JobOK(With(job[p], [pc |-> "step", plan |-> plan]))
        /\ With(job[p], [pc |-> "step", plan |-> plan]).pc \notin Writing
    BY SMTT(30), <1>1, <1>8 DEF JobOK, With, Pushing, Working, Writing
  <2> QED
    BY SMTT(30), <1>2, <1>3, <1>8, <2>1, QuietUpdate
<1>9. ASSUME NEW desc, Update(p, [pc |-> "tagall", desc |-> desc]) PROVE IInv'
  <2>1. /\ JobOK(With(job[p], [pc |-> "tagall", desc |-> desc]))
        /\ With(job[p], [pc |-> "tagall", desc |-> desc]).pc \notin Writing
    BY SMTT(30), <1>1 DEF JobOK, With, Pushing, Working, Writing
  <2> QED
    BY ZenonT(30), <1>2, <1>3, <1>9, <2>1, QuietUpdate
<1>10. ASSUME Update(p, [pc |-> "tagall"]) PROVE IInv'
  <2>1. JobOK(With(job[p], [pc |-> "tagall"])) /\ With(job[p], [pc |-> "tagall"]).pc \notin Writing
    BY SMTT(30), <1>1 DEF JobOK, With, Pushing, Working, Writing
  <2> QED
    BY SMTT(30), <1>2, <1>3, <1>10, <2>1, QuietUpdate
<1>11. ASSUME NEW refs, Update(p, [refs |-> refs]) PROVE IInv'
  <2>1. JobOK(With(job[p], [refs |-> refs])) /\ With(job[p], [refs |-> refs]).pc = job[p].pc
    BY <1>1 DEF JobOK, With
  <2> QED
    BY SMTT(30), <1>2, <1>3, <1>11, <2>1, QuietUpdate
<1>12. ASSUME NEW out, Leave(p, out) PROVE IInv'
  BY SMTT(30), <1>2, <1>3, <1>12, Returns
<1> QED
  BY ZenonT(30), <1>4, <1>5, <1>6, <1>7, <1>8, <1>9, <1>10, <1>11, <1>12

LEMMA StoreKeeps ==
    ASSUME IInv, NEW p \in Procs, StoreStep(p)
    PROVE  IInv'
BY SMTT(30), PushKeeps, FallbackKeeps, PushNamedKeeps, SaveFileKeeps, SaveArchiveKeeps, ExtractKeeps,
   MarkKeeps, RestoreKeeps, RefetchKeeps, EndKeeps, AddKeeps DEF StoreStep

LEMMA InitHolds == Init => IInv
<1> SUFFICES ASSUME Init PROVE IInv
  OBVIOUS
<1>1. \A p \in Procs : job[p] = Idle
  BY SMTT(30) DEF Init
<1>2. JobOK(Idle) /\ Idle.pc \notin Writing
  <2>1. /\ {"op", "pc", "desc", "cur", "goal", "i"} \subseteq DOMAIN Idle
        /\ Idle.op = "none" /\ Idle.pc = "idle" /\ Idle.i = 1
    BY DEF Idle
  <2> QED
    BY <2>1 DEF JobOK, Pushing, Working, Writing
<1>3. Types
  BY SMTT(30), <1>1, <1>2, StoreAssumption DEF Init, Types
<1>4. Locks
  BY <1>1, <1>2 DEF Init, Locks
<1>5. Files
  BY <1>1, <1>2, StoreAssumption DEF Init, Files
<1> QED
  BY <1>3, <1>4, <1>5 DEF IInv

LEMMA NextKeeps == IInv /\ [Next]_vars => IInv'
<1>1. ASSUME IInv, Next PROVE IInv'
  BY SMTT(30), <1>1, CallKeeps, StoreKeeps, PackKeeps DEF Next
<1>2. ASSUME IInv, UNCHANGED vars PROVE IInv'
  BY ZenonT(30), <1>2 DEF vars, IInv, Types, Locks, Files
<1> QED
  BY <1>1, <1>2

\* Whatever calls are made on the file store, by however many goroutines and
\* with whatever names, contents and settings, the file that digestToPath
\* gives for a digest holds that content: it is opened for writing only
\* under the lock of a name that does not exist (push, Add), and is listed
\* only once it is written (saveFile).
THEOREM FilesStayIntact == FairSpec => []FilesIntact
<1>1. IInv => FilesIntact
  BY DEF IInv, Files, FilesIntact
<1> QED
  BY <1>1, InitHolds, NextKeeps, PTL DEF FairSpec
==============================================================================
