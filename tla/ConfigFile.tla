----------------------------- MODULE ConfigFile ------------------------------
(***************************************************************************)
(* src/config and the key handling of `codecache config`: the settings, the *)
(* text of .codecache/config.toml that holds them, and what reading and    *)
(* writing make of each other.  Of the settings, three are told apart: the *)
(* database's place, the one key that the command can set, and one for all *)
(* the others.                                                             *)
(***************************************************************************)
CONSTANTS
    Value,     \* the values settings have
    DbPath,    \* those that name a database file
    Size,      \* those that parse as a number
    Default,   \* Default[k]: the documented default of setting k
    Malformed, \* a text that is no TOML, or has a value of a wrong type
    None       \* a key left out, a file that is not there, no value

Key == {"index_paths", "db_path", "max_db_size_mb"}

Config == {c \in [Key -> Value] : c["db_path"] \in DbPath}

\* A text that parses has any of the keys.
Text == {t \in [Key -> Value \cup {None}] : t["db_path"] \in DbPath \cup {None}}

ASSUME ConfigAssumption ==
    /\ DbPath \subseteq Value /\ Size \subseteq Value
    /\ Default \in Config
    /\ None \notin Value
    /\ None \notin Text
    /\ Malformed \notin Text \cup {None}

\* What a file holds after it was truncated and before it is written.
Empty == [k \in Key |-> None]

\* The defaults are those of each key by itself.
or_default(t, k) == IF t[k] = None THEN Default[k] ELSE t[k]

\* A key that is left out has its default: an empty file is all defaults.
load(t) == [k \in Key |-> or_default(t, k)]

\* Mutant: the key is set in a config of defaults.
set_key_Resets(c, key, value) ==
    IF key = "max_db_size_mb" /\ value \in Size
    THEN [Default EXCEPT !["max_db_size_mb"] = value]
    ELSE None

\* The command can set one key, to a number; all else is an error (None).
set_key(c, key, value) ==
    IF key = "max_db_size_mb" /\ value \in Size
    THEN [c EXCEPT !["max_db_size_mb"] = value]
    ELSE None

\* write_all starts at the first byte.  If somebody else wrote since this
\* writer truncated, what is longer of that text stays behind the new one: a
\* blank line, a key nobody knows, or no TOML at all.
Overwritten(old, c) == IF old \in {Empty, c} THEN {c} ELSE {c, Malformed}

=============================================================================
