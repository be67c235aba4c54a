----------------------------- MODULE PathPolicy -----------------------------
(***************************************************************************)
(* Secret paths and the configuration that says who may use which          *)
(* (broker/config.py), and, independently of both, what a path comes to    *)
(* denote once a URL has been made of it and resolved.                     *)
(*                                                                         *)
(* A path is a sequence of symbols.  A letter stands for any character     *)
(* that is taken as it is; "%2e" and "%2f" are a dot and a slash written   *)
(* as escapes; "odd" is a character outside printable ASCII.               *)
(***************************************************************************)
EXTENDS Naturals, Sequences, SequencesExt

CONSTANTS Letters, Families

Symbols == Letters \union {"/", ".", "%2e", "%2f", "\\", "odd"}
Paths == Seq(Symbols)

ASSUME LettersAssumption ==
    Letters \intersect {"/", ".", "%2e", "%2f", "\\", "odd"} = {}

\* One instance's table in the TOML file.
SpecType == [prefixes: Seq(Paths), may_write: BOOLEAN, may_delete: BOOLEAN,
             families: Seq(Families \union {"unknown"})]

-----------------------------------------------------------------------------
(* broker/config.py *)

\* raw.split("/")
Segments(path) ==
    LET Openings == {i \in 1..Len(path) + 1 : i = 1 \/ path[i - 1] = "/"}
        Closings == {j \in 0..Len(path) : j = Len(path) \/ path[j + 1] = "/"}
        Runs == {run \in Openings \X Closings :
                    run[1] <= run[2] + 1 /\ \A k \in run[1]..run[2] : path[k] # "/"}
    IN  {SubSeq(path, run[1], run[2]) : run \in Runs}

\* normalize_path returns its argument or raises.  Mutant: escapes pass.
NormalWithEscapes(path) ==
    /\ path # <<>>
    /\ \A i \in 1..Len(path) : path[i] \notin {"\\", "odd"}
    /\ Segments(path) \intersect {<<>>, <<".">>, <<".", ".">>} = {}
Normal(path) ==
    /\ path # <<>>
    /\ \A i \in 1..Len(path) : path[i] \notin {"\\", "odd", "%2e", "%2f"}
    /\ Segments(path) \intersect {<<>>, <<".">>, <<".", ".">>} = {}

\* prefix.rstrip("/")
Stripped(prefix) ==
    SubSeq(prefix, 1, Len(prefix) - Cardinality({i \in 1..Len(prefix) :
                                       \A k \in i..Len(prefix) : prefix[k] = "/"}))

PermitsPath(policy, path) ==
    \E prefix \in policy.prefixes :
        path = prefix \/ IsPrefix(Append(Stripped(prefix), "/"), path)

NoDuplicates(families) == \A i, j \in 1..Len(families) : families[i] = families[j] => i = j

\* _instance_policy and _administration_families raise no ConfigError.
Valid(spec) ==
    /\ spec.prefixes # <<>>
    /\ \A i \in 1..Len(spec.prefixes) : Normal(spec.prefixes[i])
    /\ ToSet(spec.families) \subseteq Families
    /\ NoDuplicates(spec.families)

InstancePolicy(spec) == [prefixes |-> ToSet(spec.prefixes), may_write |-> spec.may_write,
                         may_delete |-> spec.may_delete, families |-> ToSet(spec.families)]

\* load_config.  A file that is no TOML raises what main() does not catch.
LoadOutcome(config) ==
    IF ~config.file THEN "config_error"
    ELSE IF ~config.toml THEN "raises"
    ELSE IF ~config.url THEN "config_error"
    ELSE IF DOMAIN config.instances = {} THEN "config_error"
    ELSE IF \E name \in DOMAIN config.instances : ~Valid(config.instances[name])
    THEN "config_error" ELSE "loaded"

-----------------------------------------------------------------------------
(* What a path denotes: escapes decoded, a backslash read as a slash, dots  *)
(* followed.  Whatever climbs out of the mount stays marked by "..".        *)

Decoded(symbol) == CASE symbol = "%2e" -> "." [] symbol \in {"%2f", "\\"} -> "/" [] OTHER -> symbol

Follow(done, segment) ==
    CASE segment \in {<<>>, <<".">>} -> done
      [] segment = <<".", ".">> ->
            IF done = <<>> \/ Last(done) = segment THEN Append(done, segment) ELSE Front(done)
      [] OTHER -> Append(done, segment)

\* One more symbol, with the segments so far and the one being read.
Read(walk, symbol) ==
    IF Decoded(symbol) = "/"
    THEN [done |-> Follow(walk.done, walk.segment), segment |-> <<>>]
    ELSE [walk EXCEPT !.segment = Append(@, Decoded(symbol))]

\* The reading of a path, symbol by symbol, to the slash that would follow it.
Walk(path) ==
    LET walk[i \in 0..Len(path) + 1] ==
            IF i = 0 THEN [done |-> <<>>, segment |-> <<>>]
            ELSE Read(walk[i - 1], Append(path, "/")[i])
    IN  walk

Resolved(path) == Walk(path)[Len(path) + 1].done

\* A path at or beneath one of the prefixes written in an instance's table.
WithinDeclared(spec, path) ==
    \E i \in 1..Len(spec.prefixes) : IsPrefix(Resolved(spec.prefixes[i]), Resolved(path))

\* A path nobody could read in two ways.
Plain(path) == /\ \A i \in 1..Len(path) : path[i] \in Letters \union {"/"}
               /\ Segments(path) \intersect {<<>>} = {}
=============================================================================
