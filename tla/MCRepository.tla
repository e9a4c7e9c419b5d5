---------------------------- MODULE MCRepository -----------------------------
EXTENDS Repository

\* The calls about referrers, about tags, and about blobs.
MCPrograms ==
    {{<<"set", 0, 0>>, <<"referrers", 1, 0>>, <<"push", 1, 0>>, <<"push", 2, 0>>,
      <<"delete", 2, 0>>, <<"delete", 3, 0>>},
     {<<"push", 2, 5>>, <<"tag", 1, 5>>, <<"tag", 3, 6>>, <<"fetch", 0, 5>>,
      <<"resolve", 0, 5>>, <<"list", 0, 0>>, <<"list", 0, 5>>, <<"delete", 3, 0>>},
     {<<"pushblob", 4, 0>>, <<"mount", 4, 0>>, <<"delete", 4, 0>>, <<"read", 4, 0>>}}

\* 1 is a subject, 2 and 3 refer to it.
MCSubject == [m \in Manifests |-> IF m = 1 THEN 0 ELSE 1]
==============================================================================
