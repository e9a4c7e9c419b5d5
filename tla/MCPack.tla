------------------------------- MODULE MCPack --------------------------------
(***************************************************************************)
(* Blobs a and b, the two empty blobs, a large blob, and five manifests    *)
(* that name a and b in conflicting ways; z is a directory.                *)
(***************************************************************************)
EXTENDS Pack

MCEmpty == Desc("e", Unnamed)
MCCustom == Desc("c", Unnamed)

MCSucc == [d \in Digests |->
    CASE d = "m1" -> <<MCEmpty, Desc("b", "z"), Desc("a", "x"), Desc("a", "y")>>
      [] d = "m2" -> <<MCCustom, Desc("b", "y")>>
      [] d = "m3" -> <<Desc("a", Unnamed), MCEmpty>>
      [] d = "m4" -> <<MCCustom>>
      [] d = "m5" -> <<Desc("a", "x")>>
      [] OTHER -> <<>>]

MCOnDisk == [n \in Names |-> IF n \in {"y", "z"} THEN "b" ELSE Absent]

Default == [kind |-> "file", forceCAS |-> FALSE, ignoreNoName |-> FALSE, disableOverwrite |-> FALSE,
            skipUnpack |-> FALSE]
MCOptions ==
    {Default, [Default EXCEPT !.kind = "memory"]}
    \cup {[Default EXCEPT ![f] = TRUE] : f \in DOMAIN Default \ {"kind"}}

Store(op, d, n, src) == [op |-> op, pc |-> op, desc |-> Desc(d, n), src |-> src]
PushOf(d, n) == Store("push", d, n, "whole")
PackOf(fn, at, config, layers, d) ==
    [op |-> "pack", fn |-> fn, at |-> at, config |-> config, layers |-> layers,
     subject |-> FALSE, created |-> "none", desc |-> Desc(d, Unnamed)]

\* A named push that may fail, another one of its name, and the manifests.
Pushes ==
    {{Store("push", "a", "x", s), PushOf("a", "y"), PushOf("m1", Unnamed), PushOf(d, "x")} :
        s \in {"short", "corrupt", "whole"}, d \in {"a", "b"}}
    \cup {{Store("push", "a", Unnamed, s), PushOf("m1", Unnamed), PushOf("m2", Unnamed)} :
            s \in {"long", "whole"}}

Directories ==
    {{PushOf("b", "z"), PushOf("m1", Unnamed), Store("add", "b", n, "whole"), PushOf("b", "y")} :
        n \in {"x", "y", "z"}}
    \cup {{Store("push", "b", "z", "corrupt"), PushOf("big", Unnamed), PushOf("b", "z")}}

Packs ==
    {{one, two, PushOf("a", "x")} :
        one \in {PackOf("v1.1", "ok", "none", TRUE, "m1"), PackOf("v1.1", "none", "ok", FALSE, "m3")},
        two \in {PackOf("v1.0", "none", "none", TRUE, "m2"), PackOf("image", "none", "none", TRUE, "m2"),
                 PackOf("artifact", "none", "none", TRUE, "m5"),
                 PackOf("v1.1", "ok", "ok", FALSE, "m3")}}
    \cup {{p, [p EXCEPT !.created = "bad", !.at = "ok"]} : p \in
            {PackOf(fn, "none", "none", FALSE, "m4") : fn \in {"v1.1", "v1.0", "image", "v2"}}
            \cup {PackOf("artifact", "none", "none", TRUE, "m5"),
                  PackOf("v1.1", "bad", "none", FALSE, "m3"), PackOf("v1.1", "none", "empty", FALSE, "m3"),
                  PackOf("v1.0", "ok", "bad", FALSE, "m3"), PackOf("v1.0", "bad", "none", FALSE, "m3"),
                  [PackOf("v1.0", "ok", "ok", FALSE, "m3") EXCEPT !.subject = TRUE]}}

Tagging ==
    {{[op |-> "tagbytes", pc |-> "push", desc |-> Desc("b", Unnamed), plan |-> <<"tags">>,
       refs |-> {"r1"}, all |-> {"r1"}],
      [op |-> "tagn", pc |-> "resolve", from |-> "r1", plan |-> <<"tags">>,
       refs |-> {"r2", "r3"}, all |-> {"r2", "r3"}],
      [op |-> "tag", pc |-> "tag", desc |-> Desc(d, Unnamed), refs |-> {"r1"}],
      PushOf("a", Unnamed)} \cup more :
        d \in {"a", "m2"},
        more \in {{}, {[op |-> "close", pc |-> "close"]}}}

MCPrograms == Pushes \cup Directories \cup Packs \cup Tagging
==============================================================================
