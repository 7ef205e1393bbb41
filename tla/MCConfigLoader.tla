--------------------------- MODULE MCConfigLoader ---------------------------
(***************************************************************************)
(* Model-checking instance of ConfigLoader.  Two keys, one of them         *)
(* sensitive ("api_key" matches "key"), and values two levels deep: a      *)
(* configuration maps keys to scalars, to dicts of scalars, or to lists    *)
(* of at most two scalars or dicts of scalars.  That holds every shape the *)
(* branches of redact_config tell apart: a dict under a sensitive key, a   *)
(* token in a list, a dict inside a list.                                  *)
(***************************************************************************)
EXTENDS ConfigLoader, TLC

MCKeys == {"model", "api_key"}
MCSensitiveKeys == {"api_key"}

Scalars == {Plain, Tokened, Num}

\* Dicts over some of the keys, with values in S.
DictsOf(S) == {[dict |-> f] : f \in UNION {[D -> S] : D \in SUBSET MCKeys}}

\* Lists of at most two values in S.
ListsOf(S) == {[list |-> s] : s \in UNION {[1..n -> S] : n \in 0..2}}

Inner == Scalars \cup DictsOf(Scalars)
MCConfigs == DictsOf(Inner \cup ListsOf(Inner))

=============================================================================
