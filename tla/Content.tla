------------------------------- MODULE Content -------------------------------
(***************************************************************************)
(* The content-addressed DAG every other module works on.                  *)
(*                                                                         *)
(* A node stands for a descriptor (media type, digest, size) together with *)
(* the bytes it addresses: content addressing makes the bytes, and so the  *)
(* links found in them, a constant of the descriptor.  Kind is the media   *)
(* type, as far as content/graph.go and internal/descriptor tell media     *)
(* types apart; Subject, Config and Parts are the fields of the decoded    *)
(* manifest (Parts is Layers, Manifests or Blobs).                         *)
(***************************************************************************)
EXTENDS Naturals, Sequences

CONSTANTS
    Nodes,      \* the descriptors
    Kind,       \* Kind[n]: media type of n
    Subject,    \* Subject[n]: <<>> or <<the subject>>
    Config,     \* Config[n]: <<the config>> of an image manifest
    Parts       \* Parts[n]: the layers, manifests or blobs, in order

Kinds == {"image", "dockerImage", "index", "dockerList", "artifact",
          "foreign", "blob"}

ASSUME ContentAssumption ==
    /\ Kind \in [Nodes -> Kinds]
    /\ Subject \in [Nodes -> Seq(Nodes)]
    /\ Config \in [Nodes -> Seq(Nodes)]
    /\ Parts \in [Nodes -> Seq(Nodes)]

IsForeignLayer(n) == Kind[n] = "foreign"

IsManifest(n) == Kind[n] \in {"image", "dockerImage", "index", "dockerList",
                              "artifact"}

(***************************************************************************)
(* The descriptors a node points to, in the order the code lists them.  A  *)
(* Docker manifest or list has no subject, whatever its bytes say.         *)
(***************************************************************************)
Successors(n) ==
    LET field(kinds, descs) == IF Kind[n] \in kinds THEN descs ELSE <<>> IN
      field({"image", "index", "artifact"}, Subject[n])
      \o field({"image", "dockerImage"}, Config[n])
      \o field(Kinds \ {"foreign", "blob"}, Parts[n])

\* The successors as sets.
Links == [n \in Nodes |-> {Successors(n)[i] : i \in DOMAIN Successors(n)}]
SuccessorSet(n) == Links[n]
==============================================================================
