---------------------------- MODULE MCCredentials ----------------------------
(***************************************************************************)
(* docker.io and another registry, and config files with nothing in them,  *)
(* a native store, a helper for one registry, or a legacy entry for it.    *)
(***************************************************************************)
EXTENDS Credentials

None == [credsStore |-> "", credHelpers |-> {}, legacy |-> {}]
MCFiles == {None, [None EXCEPT !.credsStore = "pass"], [None EXCEPT !.credHelpers = {"quay"}],
            [None EXCEPT !.legacy = {"quay"}]}

MCPrograms ==
    {{<<"put", r, k>>, call, <<"get", r, "none">>} :
        r \in Registries, k \in {"basic", "all", "access", "colon"},
        call \in {<<"delete", q, "none">> : q \in Registries}
                 \cup {<<"put", q, "refresh">> : q \in Registries}}
    \cup {{<<"put", "docker.io", "basic">>, <<"put", "quay", "basic">>, <<"get", "docker.io", "none">>,
           <<"delete", "docker.io", "none">>}}

Symmetry == Permutations(Procs)
==============================================================================
