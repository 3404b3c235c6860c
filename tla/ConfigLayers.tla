----------------------------- MODULE ConfigLayers -----------------------------
(***************************************************************************)
(* framework/config.py: a bot's configuration is merged from the files of  *)
(* up to three layers, global, project and machine, key by key.            *)
(*                                                                         *)
(* A file is the tree of its values, by the path of keys that leads to     *)
(* each: a setting, "empty" for null, "" and [], "dict" for a section, {}  *)
(* among them, and "none" where it has no such key.  A file that is        *)
(* missing has no keys at all.                                             *)
(***************************************************************************)
EXTENDS Integers, Sequences, FiniteSets

CONSTANTS
    Keys,        \* the keys that files use
    Paths,       \* the paths of keys at which files may hold something
    Leaves       \* the settings: values that are neither dicts nor empty

Prefixes(path) == {SubSeq(path, 1, n) : n \in 1..Len(path)}

ASSUME PathsAssumption ==
    /\ \A path \in Paths : /\ path \in Seq(Keys) /\ path # <<>>
                            /\ Prefixes(path) \subseteq Paths
    /\ Leaves \cap {"none", "empty", "dict"} = {}

VARIABLES
    layers,      \* the contents of the three files
    next,        \* the layer to be read
    merged,      \* what has been merged so far
    outcome      \* "loading", "loaded" or "raised"

configVars == <<layers, next, merged, outcome>>

Values == Leaves \cup {"none", "empty", "dict"}
Above(path) == Prefixes(path) \ {path}

(* What stands below a path stands in a section.                           *)
Files == {file \in [Paths -> Values] :
             \A path \in Paths : file[path] # "none" =>
                 \A section \in Above(path) : file[section] = "dict"}
NoKeys == [path \in Paths |-> "none"]

Init ==
    /\ layers \in [1..3 -> Files]
    /\ next = 1
    /\ merged = NoKeys
    /\ outcome = "loading"
-----------------------------------------------------------------------------
IsDict(value) == value = "dict"
NoKeysBelow(file, path) ==
    \A p \in Paths : path \in Above(p) => file[p] = "none"

IsEmpty_Faulty(file, path) == IsDict(file[path]) /\ NoKeysBelow(file, path)
IsEmpty(file, path) ==
    file[path] = "empty" \/ (IsDict(file[path]) /\ NoKeysBelow(file, path))

(* The items of a file that the merge does not skip.                       *)
Given(file, path) == file[path] # "none" /\ ~ IsEmpty(file, path)

Merge_Faulty(base, override) ==
    [path \in Paths |->
        IF Given(override, SubSeq(path, 1, 1)) THEN override[path] ELSE base[path]]

(* _merge_config: it descends for as long as two dicts meet, and puts what *)
(* the override gives there, with all that it holds, in the place of what  *)
(* the base has.                                                           *)
Merge(base, override) ==
    [path \in Paths |->
        IF \E p \in Prefixes(path) :
              /\ \A section \in Above(p) : IsDict(base[section])
              /\ Given(override, p)
              /\ ~ (IsDict(override[p]) /\ IsDict(base[p]))
        THEN override[path]
        ELSE base[path]]

(* One file of _load_layered_config.                                       *)
ReadLayer ==
    /\ outcome = "loading" /\ next <= 3
    /\ merged' = Merge(merged, layers[next])
    /\ next' = next + 1
    /\ UNCHANGED <<layers, outcome>>

FinishConfig ==
    /\ outcome = "loading" /\ next > 3
    /\ outcome' = IF merged = NoKeys THEN "raised" ELSE "loaded"
    /\ UNCHANGED <<layers, next, merged>>

Next == ReadLayer \/ FinishConfig

Spec == Init /\ [][Next]_configVars
-----------------------------------------------------------------------------
(* A layer speaks about a path when it has a setting there, or in the      *)
(* place of a section that leads there, or a section in its place.         *)
Supersedes(layer, path) ==
    \/ \E p \in Prefixes(path) : layer[p] \in Leaves
    \/ IsDict(layer[path]) /\ ~ NoKeysBelow(layer, path)

(* docs/codex-hadoff.md:285: "Later config layers supersede earlier        *)
(* layers": the settings are exactly those that no later layer supersedes, *)
(* however the sections around them are spread over the three files.       *)
LastLayerWins ==
    \A path \in Paths, leaf \in Leaves :
        merged[path] = leaf
            <=> \E i \in 1..(next - 1) :
                    /\ layers[i][path] = leaf
                    /\ \A j \in (i + 1)..(next - 1) : ~ Supersedes(layers[j], path)

(* docs/codex-hadoff.md:287: an empty value does not overwrite a value:    *)
(* reading a layer takes a setting away only by another setting, or by a   *)
(* section in its place.                                                   *)
EmptyNeverOverwrites ==
    [][\A path \in Paths :
          merged[path] \in Leaves /\ merged'[path] # merged[path]
              => Supersedes(layers[next], path)]_configVars
=============================================================================
