----------------------------- MODULE MCSchemaCache -----------------------------
(* SchemaCache on a small instance.                                        *)
(*                                                                         *)
(* Two states are one if they differ only in what no later step and no     *)
(* property can tell apart:                                                *)
(*   - the primary flags while mixed holds: only a rebuild ends that, of   *)
(*     an empty cache and with no request under way, and sets them anew;   *)
(*   - the number of an upload, beyond whether it is the one that was      *)
(*     answered, or one that is still on its way.                          *)
EXTENDS SchemaCache, TLC

CONSTANT Second    (* the other table                                      *)

MCLinks == {<<First, Second>>}

Symmetry == Permutations(Requests)

Kept == MaxUploads + 2
Older == MaxUploads + 3

SeenUpload(t, u) ==
  CASE u = 0 -> 0
    [] u # 0 /\ u = answered[t] -> Kept
    [] u # 0 /\ u # answered[t] ->
         IF \E r \in RefreshOf({"upload"}) : request[r].held = u THEN u ELSE Older

SeenFlag(flag) == IF mixed /\ flag # "none" THEN "plain" ELSE flag

SeenRequest(q) ==
  IF q.at \in {"drop", "unlist"}
  THEN [q EXCEPT !.seen = [t \in Tables |-> SeenFlag(@[t])]]
  ELSE IF q.at \in {"idle", "rels", "save"} THEN q
  ELSE [q EXCEPT !.flag = SeenFlag(@), !.held = SeenUpload(q.table, @)]

View ==
  << [t \in Tables |-> SeenUpload(t, catalog[t])],
     [t \in Tables |-> SeenFlag(schema[t])],
     rels,
     [t \in Tables |-> {SeenUpload(t, u) : u \in saved[t]}],
     [r \in Requests |-> SeenRequest(request[r])],
     uploads,
     [t \in Tables |-> answered[t] # 0],
     lost,
     IF mixed THEN NoTable ELSE chosen,
     mixed >>

=============================================================================
