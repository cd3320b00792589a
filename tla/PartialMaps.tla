---------------------------- MODULE PartialMaps -----------------------------
(***************************************************************************)
(* Functions with a finite domain, for the HashMaps of the source.         *)
(***************************************************************************)

\* f.get(k).unwrap_or(default)
Get(f, k, default) == IF k \in DOMAIN f THEN f[k] ELSE default

\* f.insert(k, v)
Put(f, k, v) == [x \in DOMAIN f \cup {k} |-> IF x = k THEN v ELSE f[x]]

\* f.remove(k)
Without(f, k) == [x \in DOMAIN f \ {k} |-> f[x]]

\* Give what is under `old` to `new`: f.insert(new, f.remove(old)).
MoveKey(f, old, new) ==
  IF old \in DOMAIN f THEN Put(Without(f, old), new, f[old]) ELSE f

=============================================================================
