---------------------------- MODULE ConfigLoader ----------------------------
(***************************************************************************)
(* The redaction of src/adapters/config_loader.py: redact_config makes the *)
(* copy of a layered configuration that may be shown or logged.            *)
(*                                                                         *)
(* A configuration value is a dict, a list or a scalar.  A dict is         *)
(* [dict |-> f] with f a function from some of the Keys, a list is         *)
(* [list |-> s] with s a sequence; the wrappers keep an empty dict apart   *)
(* from an empty list.  Strings are the kinds the code tells apart: Plain  *)
(* (no interpolation token) and Tokened (holding {env:...} or              *)
(* {file:...}); Num is any other scalar.  A key is sensitive when its name *)
(* matches _SENSITIVE_KEY_RE.                                              *)
(***************************************************************************)
EXTENDS Integers, Sequences

CONSTANTS
    Keys,           \* key names
    SensitiveKeys,  \* the names _SENSITIVE_KEY_RE.search matches
    Plain, Tokened, Num,
    Redacted,       \* the string REDACTED
    RedactedFrom,   \* the string f"{REDACTED} (from env:VAR, ...)"
    Configs,        \* the configurations redact_config may be given
    None

ASSUME SensitiveKeys \subseteq Keys

VARIABLES
    config,     \* the merged configuration
    logged      \* redact_config(config), once it was made; None before

vars == <<config, logged>>

IsDict(v) == v \notin {Plain, Tokened, Num, Redacted, RedactedFrom} /\ "dict" \in DOMAIN v
IsList(v) == v \notin {Plain, Tokened, Num, Redacted, RedactedFrom} /\ "list" \in DOMAIN v

\* _INTERP_RE.search on a string value.
HasToken(v) == v = Tokened

\* _SENSITIVE_KEY_RE.search on a key.
Sensitive(k) == k \in SensitiveKeys

\* redact_config: a dict value is redacted recursively (whatever its key);
\* a string holding a token is replaced by the annotated sentinel; any
\* other value under a sensitive key by the sentinel; the rest, lists
\* included, is copied.
RECURSIVE redact_config(_)
redact_config(c) ==
    [dict |-> [k \in DOMAIN c.dict |->
                 LET v == c.dict[k] IN
                 CASE IsDict(v) -> redact_config(v)
                   [] HasToken(v) -> RedactedFrom
                   [] Sensitive(k) -> Redacted
                   [] OTHER -> v]]

Init ==
    /\ config \in Configs
    /\ logged = None

\* The configuration is redacted for display or logging.
Log ==
    /\ logged = None
    /\ logged' = redact_config(config)
    /\ UNCHANGED config

Next == Log

Spec == Init /\ [][Next]_vars

\* Properties

TypeOK ==
    /\ config \in Configs
    /\ logged = None \/ IsDict(logged)

\* What a shown value reveals: any value other than the sentinels reached
\* through a key that matches the sensitive pattern, at any depth of dicts
\* and lists.
RECURSIVE Reveals(_, _)
Reveals(v, underSensitive) ==
    CASE IsDict(v) -> \E k \in DOMAIN v.dict : Reveals(v.dict[k], underSensitive \/ Sensitive(k))
      [] IsList(v) -> \E i \in DOMAIN v.list : Reveals(v.list[i], underSensitive)
      [] OTHER -> underSensitive /\ v \notin {Redacted, RedactedFrom}

\* spec.md 4.3: "keys matching (auth|key|secret|token|password|credential|
\* bearer) are redacted regardless" in the redacted copy, and the resolver
\* works "recursively through dicts and lists".  So the copy redact_config
\* makes shows nothing held under such a key: not the members of a dict
\* stored under it, and not a literal secret in a dict inside a list.
RedactedConfigHidesSecrets == logged # None => ~Reveals(logged, FALSE)

=============================================================================
