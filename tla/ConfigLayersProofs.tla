------------------------- MODULE ConfigLayersProofs -------------------------
(***************************************************************************)
(* LastLayerWins and EmptyNeverOverwrites for any keys, paths and          *)
(* settings, hence for sections however deep.                              *)
(***************************************************************************)
EXTENDS ConfigLayers, SequenceTheorems, WellFoundedInduction, TLAPS

(* Every set of natural numbers has a least element: what stands in for    *)
(* an induction along a path.                                              *)
LEMMA LeastElement ==
    ASSUME NEW T, T \subseteq Nat, T # {}
    PROVE  \E n \in T : \A m \in T : n <= m
<1> DEFINE R == OpToRel(<, Nat)
<1>1. IsWellFoundedOn(R, Nat)
  BY NatLessThanWellFounded
<1> HIDE DEF R
<1>2. PICK n \in T : \A m \in T : <<m, n>> \notin R
  BY <1>1, WFMin
<1>3. \A m \in T : ~ (m < n)
  BY <1>2 DEF R, OpToRel
<1>4. QED
  BY <1>2, <1>3
-----------------------------------------------------------------------------
(* What a prefix is, by its length.                                        *)
LEMMA PrefixLengths ==
    ASSUME NEW path \in Paths, NEW n \in 1..Len(path)
    PROVE  /\ SubSeq(path, 1, n) \in Paths
           /\ Len(SubSeq(path, 1, n)) = n
           /\ \A m \in 1..n : SubSeq(SubSeq(path, 1, n), 1, m) = SubSeq(path, 1, m)
           /\ SubSeq(path, 1, Len(path)) = path
<1>1. path \in Seq(Keys) /\ SubSeq(path, 1, n) \in Paths
  BY PathsAssumption DEF Prefixes
<1>2. n \in Nat /\ \A i \in 1..n : path[i] \in Keys
  BY <1>1
<1>3. Len(SubSeq(path, 1, n)) = n /\ SubSeq(path, 1, n) \in Seq(Keys)
  BY <1>2, SubSeqProperties
<1>4. ASSUME NEW m \in 1..n
      PROVE  SubSeq(SubSeq(path, 1, n), 1, m) = SubSeq(path, 1, m)
  <2>1. \A i \in 1..m : SubSeq(path, 1, n)[i] = path[i]
    BY <1>2, SubSeqProperties
  <2>2. SubSeq(SubSeq(path, 1, n), 1, m) \in Seq(Keys) /\ SubSeq(path, 1, m) \in Seq(Keys)
    BY <1>1, <1>3
  <2>3. QED
    BY <1>1, <1>3, <2>1, <2>2
<1>5. QED
  BY <1>1, <1>3, <1>4, SubSeqFull

(* The prefixes of a path are paths, and of two one leads to the other.    *)
LEMMA PrefixOrder ==
    ASSUME NEW path \in Paths
    PROVE  /\ path \in Prefixes(path)
           /\ \A p \in Prefixes(path) :
                 /\ p \in Paths
                 /\ Prefixes(p) \subseteq Prefixes(path)
                 /\ Above(p) \subseteq Above(path)
                 /\ p # path => p \in Above(path)
           /\ \A p, q \in Prefixes(path) : p \in Above(q) \/ q \in Prefixes(p)
           /\ \A p \in Above(path) : path \notin Prefixes(p)
<1> DEFINE cut(n) == SubSeq(path, 1, n)
<1>1. Len(path) \in Nat \ {0} /\ Prefixes(path) = {cut(n) : n \in 1..Len(path)}
  BY PathsAssumption DEF Prefixes
<1>2. \A n \in 1..Len(path) :
          /\ cut(n) \in Paths /\ Len(cut(n)) = n
          /\ \A m \in 1..n : SubSeq(cut(n), 1, m) = cut(m)
  BY PrefixLengths
<1>3. cut(Len(path)) = path
  BY <1>1, PrefixLengths
<1>4. ASSUME NEW n \in 1..Len(path)
      PROVE  /\ Prefixes(cut(n)) = {cut(m) : m \in 1..n}
             /\ Above(cut(n)) = {cut(m) : m \in 1..(n - 1)}
  <2>1. Len(cut(n)) = n /\ \A m \in 1..n : SubSeq(cut(n), 1, m) = cut(m)
    BY <1>2
  <2>2. Prefixes(cut(n)) = {cut(m) : m \in 1..n}
    BY <2>1 DEF Prefixes
  <2>3. \A m \in 1..n : cut(m) = cut(n) <=> m = n
    BY <1>2
  <2> HIDE DEF cut
  <2>4. Above(cut(n)) = {cut(m) : m \in 1..(n - 1)}
    BY <2>2, <2>3 DEF Above
  <2>5. QED
    BY <2>2, <2>4
<1>5. /\ Prefixes(path) = {cut(m) : m \in 1..Len(path)}
      /\ Above(path) = {cut(m) : m \in 1..(Len(path) - 1)}
  <2>1. Len(path) \in 1..Len(path)
    BY <1>1
  <2>2. Above(cut(Len(path))) = {cut(m) : m \in 1..(Len(path) - 1)}
    BY <2>1, <1>4
  <2> HIDE DEF cut
  <2>3. QED
    BY <1>1, <1>3, <2>2
<1>6. \A n, m \in 1..Len(path) : cut(n) = cut(m) => n = m
  BY <1>2
<1> HIDE DEF cut
<1>7. path \in Prefixes(path)
  BY <1>1, <1>3
<1>8. ASSUME NEW p \in Prefixes(path)
      PROVE  /\ p \in Paths
             /\ Prefixes(p) \subseteq Prefixes(path)
             /\ Above(p) \subseteq Above(path)
             /\ p # path => p \in Above(path)
  <2>1. PICK n \in 1..Len(path) : p = cut(n)
    BY <1>1
  <2>2. Prefixes(p) = {cut(m) : m \in 1..n} /\ Above(p) = {cut(m) : m \in 1..(n - 1)}
    BY <2>1, <1>4
  <2>3. 1..n \subseteq 1..Len(path) /\ 1..(n - 1) \subseteq 1..(Len(path) - 1)
    BY <1>1
  <2>4. QED
    BY <1>2, <1>5, <2>1, <2>2, <2>3 DEF Above
<1>9. ASSUME NEW p \in Prefixes(path), NEW q \in Prefixes(path)
      PROVE  p \in Above(q) \/ q \in Prefixes(p)
  <2>1. PICK n \in 1..Len(path) : p = cut(n)
    BY <1>1
  <2>2. PICK m \in 1..Len(path) : q = cut(m)
    BY <1>1
  <2>3. n \in 1..(m - 1) \/ m \in 1..n
    OBVIOUS
  <2>4. QED
    BY <1>4, <2>1, <2>2, <2>3
<1>10. ASSUME NEW p \in Above(path), path \in Prefixes(p)
       PROVE  FALSE
  <2>1. PICK n \in 1..(Len(path) - 1) : p = cut(n)
    BY <1>5
  <2>2. PICK m \in 1..n : path = cut(m)
    BY <1>1, <1>4, <1>10, <2>1
  <2>3. m = Len(path)
    BY <1>1, <1>3, <1>6, <2>2
  <2>4. QED
    BY <1>1, <2>3
<1>11. QED
  BY <1>7, <1>8, <1>9, <1>10
-----------------------------------------------------------------------------
(* The value that Merge takes from the override.                           *)
Taken(base, override, path) ==
    \E p \in Prefixes(path) :
        /\ \A section \in Above(p) : base[section] = "dict"
        /\ Given(override, p)
        /\ ~ (override[p] = "dict" /\ base[p] = "dict")

LEMMA MergeAt ==
    ASSUME NEW base, NEW override, NEW path \in Paths
    PROVE  Merge(base, override)[path] =
               IF Taken(base, override, path) THEN override[path] ELSE base[path]
BY DEF Merge, Taken, IsDict

(* What leads to something in a file is a section with something in it.    *)
LEMMA SectionsAbove ==
    ASSUME NEW file \in Files, NEW path \in Paths, file[path] # "none",
           NEW p \in Above(path)
    PROVE  file[p] = "dict" /\ Given(file, p)
<1>1. file[p] = "dict"
  BY DEF Files
<1>2. ~ NoKeysBelow(file, p)
  BY DEF NoKeysBelow
<1>3. QED
  BY <1>1, <1>2 DEF Given, IsEmpty

(* The merge of two trees is a tree.                                       *)
LEMMA MergeKeepsTrees ==
    ASSUME NEW base \in Files, NEW override \in Files
    PROVE  Merge(base, override) \in Files
<1> DEFINE M == Merge(base, override)
<1>1. M \in [Paths -> Values]
  <2>1. \A path \in Paths : base[path] \in Values /\ override[path] \in Values
    BY DEF Files
  <2>2. QED
    BY <2>1 DEF Merge
<1>2. ASSUME NEW path \in Paths, M[path] # "none", NEW section \in Above(path)
      PROVE  M[section] = "dict"
  <2>1. section \in Paths /\ section \in Prefixes(path)
    BY PrefixOrder DEF Above
  <2>2. CASE Taken(base, override, path)
    <3>1. override[path] # "none"
      BY <1>2, <2>2, MergeAt
    <3>2. override[section] = "dict"
      BY <3>1, SectionsAbove
    <3>3. PICK p \in Prefixes(path) :
              /\ \A q \in Above(p) : base[q] = "dict"
              /\ Given(override, p)
              /\ ~ (override[p] = "dict" /\ base[p] = "dict")
      BY <2>2 DEF Taken
    <3>4. CASE p \in Prefixes(section)
      BY <2>1, <3>2, <3>3, <3>4, MergeAt DEF Taken
    <3>5. CASE section \in Above(p)
      <4>1. base[section] = "dict"
        BY <3>3, <3>5
      <4>2. QED
        BY <2>1, <3>2, <4>1, MergeAt
    <3>6. QED
      BY <2>1, <3>4, <3>5, PrefixOrder
  <2>3. CASE ~ Taken(base, override, path)
    <3>1. base[path] # "none"
      BY <1>2, <2>3, MergeAt
    <3>2. base[section] = "dict"
      BY <3>1, SectionsAbove
    <3>3. ~ Taken(base, override, section)
      BY <2>1, <2>3, PrefixOrder DEF Taken
    <3>4. QED
      BY <2>1, <3>2, <3>3, MergeAt
  <2>4. QED
    BY <2>2, <2>3
<1>3. QED
  BY <1>1, <1>2 DEF Files

(* A setting reaches the override's setting: on the way there, the merge   *)
(* either finds sections in both or replaces what the base has.            *)
LEMMA OwnSettingIsTaken ==
    ASSUME NEW base \in Files, NEW override \in Files, NEW path \in Paths,
           override[path] \in Leaves
    PROVE  Taken(base, override, path)
<1> DEFINE cut(n) == SubSeq(path, 1, n)
           Other == {n \in 1..Len(path) : base[cut(n)] # "dict"}
<1>1. Given(override, path) /\ override[path] \notin {"none", "dict"}
  BY PathsAssumption DEF Given, IsEmpty, IsDict
<1>2. CASE Other = {}
  <2>1. \A p \in Prefixes(path) : base[p] = "dict"
    BY <1>2 DEF Prefixes
  <2>2. path \in Prefixes(path) /\ Above(path) \subseteq Prefixes(path)
    BY PrefixOrder DEF Above
  <2>3. QED
    BY <1>1, <2>1, <2>2 DEF Taken
<1>3. CASE Other # {}
  <2>1. Other \subseteq Nat
    OBVIOUS
  <2>2. PICK n \in Other : \A m \in Other : n <= m
    BY <1>3, <2>1, LeastElement
  <2>3. \A m \in 1..(n - 1) : base[cut(m)] = "dict"
    BY <2>2
  <2>4. cut(n) \in Prefixes(path) /\ base[cut(n)] # "dict"
    BY <2>2 DEF Prefixes
  <2>5. \A p \in Above(cut(n)) : base[p] = "dict"
    <3>1. Len(cut(n)) = n /\ \A m \in 1..n : SubSeq(cut(n), 1, m) = cut(m)
      BY <2>2, PrefixLengths
    <3>2. \A p \in Above(cut(n)) : \E m \in 1..n : p = cut(m) /\ cut(m) # cut(n)
      BY <3>1 DEF Above, Prefixes
    <3>3. \A p \in Above(cut(n)) : \E m \in 1..(n - 1) : p = cut(m)
      BY <2>2, <3>2
    <3>4. QED
      BY <2>3, <3>3
  <2>6. Given(override, cut(n))
    BY <1>1, <2>4, PrefixOrder, SectionsAbove
  <2> HIDE DEF cut, Other
  <2>7. QED
    BY <2>4, <2>5, <2>6 DEF Taken
<1>4. QED
  BY <1>2, <1>3

(* What one merge does to a setting: the heart of the argument.            *)
THEOREM MergedSetting ==
    ASSUME NEW base \in Files, NEW override \in Files,
           NEW path \in Paths, NEW leaf \in Leaves
    PROVE  Merge(base, override)[path] = leaf
               <=> \/ override[path] = leaf
                   \/ base[path] = leaf /\ ~ Supersedes(override, path)
<1>1. leaf \notin {"none", "empty", "dict"}
  BY PathsAssumption
<1>2. ASSUME override[path] = leaf
      PROVE  Merge(base, override)[path] = leaf
  BY <1>2, OwnSettingIsTaken, MergeAt
<1>3. ASSUME base[path] = leaf, override[path] # leaf
      PROVE  Taken(base, override, path) <=> Supersedes(override, path)
  <2>1. \A p \in Above(path) : base[p] = "dict"
    BY <1>1, <1>3, SectionsAbove
  <2>2. \A p \in Prefixes(path) : p \in Paths /\ Above(p) \subseteq Above(path)
                                  /\ (p # path => p \in Above(path))
    BY PrefixOrder
  <2>3. ASSUME Taken(base, override, path)
        PROVE  Supersedes(override, path)
    <3>1. PICK p \in Prefixes(path) :
              Given(override, p) /\ ~ (override[p] = "dict" /\ base[p] = "dict")
      BY <2>3 DEF Taken
    <3>2. override[p] \in Leaves \/ (override[p] = "dict" /\ ~ NoKeysBelow(override, p))
      BY <2>2, <3>1 DEF Given, IsEmpty, IsDict, Files, Values
    <3>3. CASE override[p] \in Leaves
      BY <3>3 DEF Supersedes
    <3>4. CASE override[p] = "dict" /\ ~ NoKeysBelow(override, p)
      <4>1. p = path
        BY <2>1, <2>2, <3>1, <3>4
      <4>2. QED
        BY <3>4, <4>1 DEF Supersedes, IsDict
    <3>5. QED
      BY <3>2, <3>3, <3>4
  <2>4. ASSUME NEW p \in Prefixes(path), override[p] \in Leaves
        PROVE  Taken(base, override, path)
    <3>1. Given(override, p) /\ override[p] # "dict"
      BY <2>4, PathsAssumption DEF Given, IsEmpty, IsDict
    <3>2. QED
      BY <2>1, <2>2, <3>1 DEF Taken
  <2>5. ASSUME override[path] = "dict", ~ NoKeysBelow(override, path)
        PROVE  Taken(base, override, path)
    <3>1. Given(override, path) /\ base[path] # "dict"
      BY <1>1, <1>3, <2>5 DEF Given, IsEmpty, IsDict
    <3>2. QED
      BY <2>1, <3>1, PrefixOrder DEF Taken
  <2>6. QED
    BY <2>3, <2>4, <2>5 DEF Supersedes, IsDict
<1>4. QED
  BY <1>2, <1>3, MergeAt
-----------------------------------------------------------------------------
(* The layers stay, one at a time is read, and what is merged is a tree.   *)
Progress ==
    /\ layers \in [1..3 -> Files]
    /\ next \in 1..4
    /\ merged \in Files

ConfigInvariant == Progress /\ LastLayerWins

LEMMA InitConfig == Init => ConfigInvariant
<1> SUFFICES ASSUME Init PROVE ConfigInvariant
  OBVIOUS
<1>1. NoKeys \in Files
  BY DEF NoKeys, Files, Values
<1>2. \A path \in Paths, leaf \in Leaves : merged[path] # leaf
  BY PathsAssumption DEF Init, NoKeys
<1>3. 1..(next - 1) = {}
  BY DEF Init
<1>4. QED
  BY <1>1, <1>2, <1>3 DEF Init, ConfigInvariant, Progress, LastLayerWins

LEMMA ReadLayerKeeps == ConfigInvariant /\ ReadLayer => ConfigInvariant'
<1> SUFFICES ASSUME ConfigInvariant, ReadLayer PROVE ConfigInvariant'
  OBVIOUS
<1> DEFINE layer == layers[next]
<1>1. /\ next \in 1..3 /\ next' = next + 1 /\ layers' = layers
      /\ layer \in Files /\ merged \in Files /\ merged' = Merge(merged, layer)
  BY DEF ConfigInvariant, Progress, ReadLayer
<1>2. Progress'
  BY <1>1, MergeKeepsTrees DEF ConfigInvariant, Progress
<1>3. ASSUME NEW path \in Paths, NEW leaf \in Leaves
      PROVE  merged'[path] = leaf
                 <=> \E i \in 1..next :
                        /\ layers[i][path] = leaf
                        /\ \A j \in (i + 1)..next : ~ Supersedes(layers[j], path)
  <2>1. merged'[path] = leaf
            <=> layer[path] = leaf \/ (merged[path] = leaf /\ ~ Supersedes(layer, path))
    BY <1>1, MergedSetting
  <2>2. merged[path] = leaf
            <=> \E i \in 1..(next - 1) :
                   /\ layers[i][path] = leaf
                   /\ \A j \in (i + 1)..(next - 1) : ~ Supersedes(layers[j], path)
    BY DEF ConfigInvariant, LastLayerWins
  <2>3. (next + 1)..next = {}
    BY <1>1
  <2>4. \A i \in 1..(next - 1) : (i + 1)..next = ((i + 1)..(next - 1)) \cup {next}
    BY <1>1
  <2>5. 1..next = (1..(next - 1)) \cup {next}
    BY <1>1
  <2>6. QED
    BY <2>1, <2>2, <2>3, <2>4, <2>5
<1>4. next' - 1 = next
  BY <1>1
<1>5. LastLayerWins'
  BY <1>1, <1>3, <1>4 DEF LastLayerWins, Supersedes, NoKeysBelow
<1>6. QED
  BY <1>2, <1>5 DEF ConfigInvariant

(* Whatever the three files hold, however deep their sections: the         *)
(* settings of the loaded configuration are those of the last layer that   *)
(* speaks about them.                                                      *)
THEOREM ConfigInvariantHolds == Spec => []ConfigInvariant
<1>1. ConfigInvariant /\ [Next]_configVars => ConfigInvariant'
  <2> SUFFICES ASSUME ConfigInvariant, [Next]_configVars PROVE ConfigInvariant'
    OBVIOUS
  <2>1. CASE FinishConfig
    BY <2>1 DEF FinishConfig, ConfigInvariant, Progress, LastLayerWins
  <2>2. CASE UNCHANGED configVars
    BY <2>2 DEF configVars, ConfigInvariant, Progress, LastLayerWins
  <2>3. QED
    BY <2>1, <2>2, ReadLayerKeeps DEF Next
<1>2. QED
  BY <1>1, InitConfig, PTL DEF Spec

(* Later layers supersede earlier ones.                                    *)
THEOREM LastLayerAlwaysWins == Spec => []LastLayerWins
<1>1. ConfigInvariant => LastLayerWins
  BY DEF ConfigInvariant
<1>2. QED
  BY <1>1, ConfigInvariantHolds, PTL

(* A setting is lost only to another setting, or to a section in its place.*)
THEOREM SettingsSurviveEmpties == Spec => EmptyNeverOverwrites
<1> DEFINE Kept == \A path \in Paths :
                      merged[path] \in Leaves /\ merged'[path] # merged[path]
                          => Supersedes(layers[next], path)
<1>1. ConfigInvariant /\ [Next]_configVars => [Kept]_configVars
  <2> SUFFICES ASSUME ConfigInvariant, [Next]_configVars PROVE [Kept]_configVars
    OBVIOUS
  <2>1. CASE ReadLayer
    <3>1. /\ layers[next] \in Files /\ merged \in Files
          /\ merged' = Merge(merged, layers[next])
      BY <2>1 DEF ConfigInvariant, Progress, ReadLayer
    <3>2. ASSUME NEW path \in Paths, merged[path] \in Leaves,
                 ~ Supersedes(layers[next], path)
          PROVE  merged'[path] = merged[path]
      BY <3>1, <3>2, MergedSetting
    <3>3. QED
      BY <3>2
  <2>2. CASE FinishConfig
    BY <2>2 DEF FinishConfig
  <2>3. CASE UNCHANGED configVars
    BY <2>3
  <2>4. QED
    BY <2>1, <2>2, <2>3 DEF Next
<1>2. QED
  BY <1>1, ConfigInvariantHolds, PTL DEF Spec, EmptyNeverOverwrites
=============================================================================
