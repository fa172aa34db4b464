----------------------------- MODULE BuildProofs -----------------------------
(***************************************************************************)
(* The developer tasks for any contents of the files and any number of     *)
(* tasks, edits and interruptions; the release that extconf.rb builds      *)
(* against, for any releases and any number of changes on the server; and  *)
(* the settings that cmake is told, nested to any depth.                   *)
(***************************************************************************)
EXTENDS DevBuild, CMakeFlatten, Releases, Inductions

\* A hash that was written without an edit in between was written of a finished
\* configuration of the sources it names.
HashVouches ==
    hash \in Hashes /\ ~raced =>
        hash.ninja = [sources |-> hash.sources, conf |-> hash.sources]

\* Any hash was written after cmake had ended.
HashComplete == hash \in Hashes => hash.ninja \in Configurations

\* How far a configuration has come, if nobody edits meanwhile.
Progress ==
    /\ pc \in {"cmake", "write_hash"} /\ ~raced => conf = sources
    /\ pc = "write_hash" => ninja \in Configurations
    /\ pc = "write_hash" /\ ~raced => configured

\* Between the removal of the hash and its return nothing is undisturbed.
DisturbedUntilHash == pc \in (Cleaning \cup Configuring) \ {"unlink_hash"} => disturbed

\* Undisturbed, the files are what the hash says.
Settled == ~disturbed /\ ~raced => hash = state_hash /\ configured /\ conf = sources

DevInv ==
    /\ DevBuildTypeOK /\ HashVouches /\ HashComplete /\ Progress
    /\ NeverBuildsPartial /\ DisturbedUntilHash /\ Settled

-----------------------------------------------------------------------------

LEMMA DevInit == DevBuildInit => DevInv
    BY ContentsAssumption, MarkersAssumption
    DEF DevBuildInit, DevInv, DevBuildTypeOK, HashVouches, HashComplete, Progress, NeverBuildsPartial,
        DisturbedUntilHash, Settled, Cleaning, Configuring

\* What the files are hashed to, and what ninja generates, is of the right type.
LEMMA HashType ==
    ASSUME DevBuildTypeOK
    PROVE  /\ state_hash \in Hashes
           /\ state_hash.ninja = ninja /\ state_hash.sources = sources
           /\ Regenerated \in Configurations \cup {Absent}
           /\ ninja # Absent => Regenerated \in Configurations
           /\ configured => Regenerated = ninja \/ ~(conf = sources)
    BY MarkersAssumption DEF DevBuildTypeOK, state_hash, Hashes, Regenerated, Configurations, configured

\* No step of a task, edit or interruption breaks the invariant.
LEMMA DevStep ==
    ASSUME DevInv, [DevBuildNext]_devBuildVars
    PROVE  DevInv'
    <1> USE DEF DevInv, DevBuildTypeOK, HashVouches, HashComplete, Progress, NeverBuildsPartial,
                DisturbedUntilHash, Settled, Cleaning, Configuring
    <1>1. ASSUME NEW t \in {"pristine", "reconfigure", "maybe_reconfigure", "build"}, Start(t)
          PROVE  DevInv'
        BY <1>1 DEF Start, disk, state_hash, configured
    <1>2. CASE Check
        <2>1. ninja \notin {Absent, Partial} \/ needs_reconfigure
            BY HashType, MarkersAssumption DEF needs_reconfigure
        <2> QED BY <1>2, <2>1 DEF Check, Step, disk, state_hash, configured
    <1>3. CASE UnlinkHash
        BY <1>3, MarkersAssumption DEF UnlinkHash, Step, disk, state_hash, configured
    <1>4. CASE NinjaClean
        BY <1>4, HashType DEF NinjaClean, Step, disk, state_hash, configured
    <1>5. CASE UnlinkOutputs
        BY <1>5 DEF UnlinkOutputs, Step, disk, state_hash, configured
    <1>6. CASE Rmtree
        BY <1>6, MarkersAssumption DEF Rmtree, Step, disk, state_hash, configured
    <1>7. CASE Extconf
        BY <1>7 DEF Extconf, Step, disk, state_hash, configured
    <1>8. CASE Cmake
        <2>1. ninja' \in Configurations
            BY <1>8 DEF Cmake, Configurations
        <2> QED BY <1>8, <2>1 DEF Cmake, Step, disk, state_hash, configured
    <1>9. CASE write_hash_file
        BY <1>9, HashType, MarkersAssumption DEF write_hash_file, Step, disk, state_hash, configured
    <1>10. CASE Make
        BY <1>10 DEF Make, Step, disk, state_hash, configured
    <1>11. ASSUME Ninja \/ NinjaInstall
           PROVE  DevInv'
        <2>1. ninja' = Regenerated /\ ninja' \in Configurations /\ ninja' \notin {Absent, Partial}
            BY <1>11, HashType, MarkersAssumption DEF Ninja, NinjaInstall, Step
        <2>2. configured /\ conf = sources => ninja' = ninja
            BY <2>1, HashType
        <2> QED BY <1>11, <2>1, <2>2 DEF Ninja, NinjaInstall, Step, disk, state_hash, configured
    <1>12. ASSUME NEW c \in Contents, Edit(c)
           PROVE  DevInv'
        BY <1>12 DEF Edit, disk, state_hash, configured
    <1>13. CASE Interrupted
        <2>1. ninja' \in Configurations \cup {Absent, Partial}
            BY <1>13, HashType DEF Interrupted, Configurations
        <2>2. hash' \in {hash, Partial} /\ conf' \in Contents \cup {Absent, Partial}
            BY <1>13 DEF Interrupted
        <2>3. makefile' \in BOOLEAN /\ lib' \in BOOLEAN
            BY <1>13 DEF Interrupted
        <2> QED BY <1>13, <2>1, <2>2, <2>3, MarkersAssumption DEF Interrupted
    <1>14. CASE UNCHANGED devBuildVars
        BY <1>14 DEF devBuildVars, disk, state_hash, configured
    <1> QED BY <1>1, <1>2, <1>3, <1>4, <1>5, <1>6, <1>7, <1>8, <1>9, <1>10, <1>11, <1>12, <1>13, <1>14 DEF DevBuildNext, TaskStep

LEMMA DevInvariant == DevBuildSpec => []DevInv
    <1>1. DevInv /\ [DevBuildNext]_devBuildVars => DevInv'
        BY DevStep
    <1> QED BY <1>1, DevInit, PTL DEF DevBuildSpec

\* The files hold nothing but finished, partial or absent contents, and the tasks are at one
\* of their steps (DevTasks).
THEOREM TypeCorrect == DevBuildSpec => []DevBuildTypeOK
    BY DevInvariant, PTL DEF DevInv

\* A hash that matches vouches for a configuration that was finished, wherever an earlier
\* task was interrupted; only an edit during the configuration escapes it
\* (DevTasks#needs_reconfigure?).
THEOREM HashSound == DevBuildSpec => []HashMeansConfigured
    <1>1. DevInv => HashMeansConfigured
        BY HashType DEF DevInv, HashVouches, HashMeansConfigured, configured
    <1> QED BY <1>1, DevInvariant, PTL

\* build! compiles only with a configuration that cmake completed (DevTasks#build!).
THEOREM BuildsWhole == DevBuildSpec => []NeverBuildsPartial
    BY DevInvariant, PTL DEF DevInv

\* maybe_reconfigure! leaves a configuration alone that nothing has disturbed.
THEOREM Needed == DevBuildSpec => OnlyIfNeeded
    <1>1. DevInv /\ [DevBuildNext]_devBuildVars => [Check /\ pc' = "unlink_hash" => disturbed \/ raced]_devBuildVars
        <2> SUFFICES ASSUME DevInv, Check, pc' = "unlink_hash"
                     PROVE  disturbed \/ raced
            OBVIOUS
        <2>1. needs_reconfigure
            BY DEF Check, Step
        <2> QED BY <2>1 DEF DevInv, Settled, needs_reconfigure
    <1> QED BY <1>1, DevInvariant, PTL DEF DevBuildSpec, OnlyIfNeeded

-----------------------------------------------------------------------------
(* The choice of a release.                                                *)

\* A set of ids has a greatest one, and Newest is it.
LEMMA NewestThere ==
    ASSUME NEW S \in SUBSET Ids, S # {}
    PROVE  Newest(S) \in S /\ \A j \in S : j <= Newest(S)
    <1> DEFINE Newer(i) == {j \in Ids : j > i}
               Sets == {Newer(i) : i \in S}
    <1>1. IsFiniteSet(Ids) /\ Ids \subseteq Nat
        BY IdsAssumption
    <1>2. PICK i \in S : \A j \in S : ~(<<Newer(j), Newer(i)>> \in StrictSubsetOrdering(Ids))
        <2>1. IsWellFoundedOn(StrictSubsetOrdering(Ids), FiniteSubsetsOf(Ids))
            BY FS_StrictSubsetOrderingWellFounded
        <2>2. Sets \subseteq FiniteSubsetsOf(Ids) /\ Sets # {}
            <3>1. \A T \in SUBSET Ids : IsFiniteSet(T)
                BY <1>1, FS_Subset
            <3>2. \A k \in S : Newer(k) \in SUBSET Ids
                OBVIOUS
            <3> QED BY <3>1, <3>2 DEF FiniteSubsetsOf
        <2> HIDE DEF Sets
        <2>3. \E least \in Sets : \A s \in Sets : ~(<<s, least>> \in StrictSubsetOrdering(Ids))
            BY <2>1, <2>2, WFMin
        <2> QED BY <2>3 DEF Sets
    <1>3. \A j \in S : j <= i
        <2> SUFFICES ASSUME NEW j \in S, ~(j <= i)
                     PROVE  FALSE
            OBVIOUS
        <2>1. j \in Nat /\ i \in Nat /\ j > i
            BY <1>1
        <2>2. Newer(j) \subseteq Newer(i)
            <3> SUFFICES ASSUME NEW k \in Ids, k > j
                         PROVE  k > i
                OBVIOUS
            <3>1. k \in Nat
                BY <1>1
            <3> QED BY <2>1, <3>1
        <2>3. j \in Newer(i) /\ j \notin Newer(j)
            BY <1>1, <2>1
        <2>4. <<Newer(j), Newer(i)>> \in StrictSubsetOrdering(Ids)
            BY <2>2, <2>3 DEF StrictSubsetOrdering
        <2> QED BY <1>2, <2>4
    <1> QED BY <1>3 DEF Newest

\* A release of that id was published as stable at some time.
StableOnce(id) == \E v \in Versions : <<id, v>> \in ever /\ v.kind = "stable"

\* What is on the server is part of its history.
ServerRecorded ==
    /\ releases \in [Ids -> Versions \cup {None}]
    /\ \A i \in Ids : releases[i] # None => <<i, releases[i]>> \in ever

\* Where no release was asked for, the id that was chosen was a stable release's.
ChosenWasStable == step = "release" /\ requested = Default => tag = Latest \/ tag \notin Ids \/ StableOnce(tag)

\* The release that is memoized is one the server had, and keeps its history.
MemoizedWasThere ==
    step \in {"asset", "commit", "config"} =>
        /\ release.is \in Versions /\ <<release.id, release.is>> \in ever
        /\ requested = Default => StableOnce(release.id)

BuiltWasThere ==
    built # None =>
        /\ \E v \in Versions : <<built.id, v>> \in ever /\ v.tag = built.tag /\ v.asset = built.asset
        /\ requested = Default => StableOnce(built.id)

RelInv == ServerRecorded /\ ChosenWasStable /\ MemoizedWasThere /\ BuiltWasThere

LEMMA RelInit == ReleasesInit => RelInv
    BY DEF ReleasesInit, RelInv, ServerRecorded, ChosenWasStable, MemoizedWasThere, BuiltWasThere

\* `latest' finds a release that is stable at that moment, or none.
LEMMA LatestIsStable ==
    ASSUME RelInv, latest_release # None
    PROVE  /\ latest_release \in Ids /\ releases[latest_release] \in Versions
           /\ <<latest_release, releases[latest_release]>> \in ever /\ StableOnce(latest_release)
    <1>1. Stable # {} /\ Stable \in SUBSET Ids
        BY DEF latest_release, Stable
    <1>2. latest_release \in Stable
        BY <1>1, NewestThere DEF latest_release
    <1>3. /\ latest_release \in Ids /\ releases[latest_release] # None
          /\ releases[latest_release].kind = "stable"
        BY <1>2 DEF Stable
    <1>4. releases[latest_release] \in Versions /\ <<latest_release, releases[latest_release]>> \in ever
        BY <1>3 DEF RelInv, ServerRecorded
    <1> QED BY <1>3, <1>4 DEF StableOnce

LEMMA ChooseStep ==
    ASSUME RelInv, ChooseTag
    PROVE  RelInv'
    <1>1. CASE Raised
        BY <1>1 DEF Raised, server, RelInv, ServerRecorded, ChosenWasStable, MemoizedWasThere, BuiltWasThere,
            StableOnce
    <1>2. CASE ~Raised
        <2>1. /\ step' = "release" /\ UNCHANGED <<requested, built, server>>
              /\ requested = Default => tag' = latest_release \/ tag' = tag_from_gemspec
              /\ tag' # None
            BY <1>2 DEF ChooseTag
        <2>2. tag' = latest_release => StableOnce(tag')
            BY <2>1, LatestIsStable
        <2>3. tag' = tag_from_gemspec => tag' \notin Ids
            BY <2>1, LibraryKeysAssumption DEF tag_from_gemspec
        <2> QED BY <2>1, <2>2, <2>3
            DEF server, RelInv, ServerRecorded, ChosenWasStable, MemoizedWasThere, BuiltWasThere, StableOnce
    <1> QED BY <1>1, <1>2

LEMMA GetStep ==
    ASSUME RelInv, GetRelease
    PROVE  RelInv'
    <1>1. CASE Found = None
        BY <1>1 DEF GetRelease, Raised, server, RelInv, ServerRecorded, ChosenWasStable, MemoizedWasThere,
            BuiltWasThere, StableOnce
    <1>2. CASE Found # None
        <2>1. /\ step = "release" /\ step' = "asset" /\ UNCHANGED <<requested, built, server>>
              /\ release'.id = Found /\ release'.is = releases[Found]
            BY <1>2 DEF GetRelease
        <2>2. /\ releases[Found] \in Versions /\ <<Found, releases[Found]>> \in ever
              /\ requested = Default => StableOnce(Found)
            <3>1. CASE tag = Latest
                BY <1>2, <3>1, LatestIsStable DEF Found
            <3>2. CASE tag # Latest
                <4>1. Found = tag /\ tag \in Ids /\ releases[tag] # None
                    BY <1>2, <3>2 DEF Found
                <4> QED BY <2>1, <3>2, <4>1 DEF RelInv, ServerRecorded, ChosenWasStable
            <3> QED BY <3>1, <3>2
        <2> QED BY <2>1, <2>2
            DEF server, RelInv, ServerRecorded, ChosenWasStable, MemoizedWasThere, BuiltWasThere, StableOnce
    <1> QED BY <1>1, <1>2

\* People change what is on the server; its history only grows.
LEMMA ChangeStep ==
    ASSUME RelInv, Change
    PROVE  RelInv'
    <1>1. UNCHANGED <<requested, step, tag, release, built>> /\ ever \subseteq ever'
        BY DEF Change, client
    <1>2. ServerRecorded'
        <2>1. CASE UNCHANGED <<releases, ever>>
            BY <2>1 DEF RelInv, ServerRecorded
        <2>2. ASSUME NEW i \in Ids, NEW v \in Versions \cup {None},
                     releases' = [releases EXCEPT ![i] = v], ever' = ever \cup {<<i, v>>}
              PROVE  ServerRecorded'
            BY <2>2 DEF RelInv, ServerRecorded
        <2> QED BY <2>1, <2>2 DEF Change
    <1> QED BY <1>1, <1>2 DEF RelInv, ChosenWasStable, MemoizedWasThere, BuiltWasThere, StableOnce

\* The tag and the asset are those of the release that is memoized.
LEMMA ConfigStep ==
    ASSUME RelInv, config_data
    PROVE  RelInv'
    <1>1. /\ step = "config" /\ step' = "done" /\ UNCHANGED <<requested, server>>
          /\ built'.id = release.id /\ built'.tag = release.is.tag /\ built'.asset = release.is.asset
        BY DEF config_data, Config
    <1>2. /\ release.is \in Versions /\ <<release.id, release.is>> \in ever
          /\ requested = Default => StableOnce(release.id)
        BY <1>1 DEF RelInv, MemoizedWasThere
    <1>3. BuiltWasThere'
        BY <1>1, <1>2 DEF BuiltWasThere, StableOnce, server
    <1> QED BY <1>1, <1>3 DEF RelInv, ServerRecorded, ChosenWasStable, MemoizedWasThere, server

LEMMA RelStep ==
    ASSUME RelInv, [ReleasesNext]_releasesVars
    PROVE  RelInv'
    <1> USE DEF RelInv, ServerRecorded, ChosenWasStable, MemoizedWasThere, BuiltWasThere, StableOnce, server
    <1>1. CASE ChooseTag
        BY <1>1, ChooseStep
    <1>2. CASE GetRelease
        BY <1>2, GetStep
    <1>3. CASE MatchingAsset
        <2>1. /\ step = "asset" /\ step' \in {"raised", "commit"}
              /\ UNCHANGED <<requested, tag, release, built, releases, ever>>
            BY <1>3 DEF MatchingAsset, Raised
        <2> QED BY <2>1
    <1>4. CASE GetCommit
        <2>1. step = "commit" /\ step' = "config" /\ UNCHANGED <<requested, tag, release, built, releases, ever>>
            BY <1>4 DEF GetCommit
        <2> QED BY <2>1
    <1>5. CASE config_data
        BY <1>5, ConfigStep
    <1>6. CASE RequestFails
        BY <1>6 DEF RequestFails, Raised
    <1>7. CASE Change
        BY <1>7, ChangeStep
    <1>8. CASE UNCHANGED releasesVars
        BY <1>8 DEF releasesVars, client
    <1> QED BY <1>1, <1>2, <1>3, <1>4, <1>5, <1>6, <1>7, <1>8 DEF ReleasesNext

\* The tag and the asset that cmake is told of were one release's at one time, and where none
\* was asked for it was published as stable, whatever happens on the server between the
\* requests (GithubRepo#release, #config_data, memoized).
THEOREM BuiltFromOne == ReleasesSpec => []OneRelease
    <1>1. RelInv /\ [ReleasesNext]_releasesVars => RelInv'
        BY RelStep
    <1>2. RelInv => OneRelease
        <2> DEFINE versions == {e[2] : e \in {x \in ever : x[1] = built.id /\ x[2] # None}}
        <2>1. \A v \in Versions : <<built.id, v>> \in ever => v \in versions
            <3> SUFFICES ASSUME NEW v \in Versions, <<built.id, v>> \in ever
                         PROVE  v \in versions
                OBVIOUS
            <3>1. <<built.id, v>> \in {x \in ever : x[1] = built.id /\ x[2] # None}
                BY IdsAssumption
            <3> QED BY <3>1
        <2> QED BY <2>1 DEF RelInv, BuiltWasThere, StableOnce, OneRelease
    <1> QED BY <1>1, <1>2, RelInit, PTL DEF ReleasesSpec

-----------------------------------------------------------------------------
(* cmake_flatten_hash, for settings nested to any depth.                   *)

Given == UNION {{h[k] : k \in DOMAIN h} : h \in Settings}
Tables == UNION {[K -> Given] : K \in SUBSET Seq(STRING)}
Calls == [arg : Settings, hash : Tables, final : Tables, passes : Nat,
          at : {"until", "hashes"}, key : Seq(STRING)]

CMakeFlattenTypeOK ==
    calls \in Seq(Calls) /\ calls # << >> /\ status \in {"looping", "done", "raised"}

\* What a call has in final are settings; its hash has settings and, as they were given,
\* nested hashes.
Told(c) ==
    /\ \A k \in DOMAIN c.final :
          Entry(k, c.final[k]) \in Leaves(c.arg) /\ c.final[k].kind \in {"array", "scalar"}
    /\ \A k \in DOMAIN c.hash :
          \/ Entry(k, c.hash[k]) \in Leaves(c.arg) /\ c.hash[k].kind # "hash"
          \/ k \in Of(c.arg, {"hash"}) /\ c.hash[k] = c.arg[k]

\* A setting of the upper level is in final, or still first in line for its name.
UpperKept(c) ==
    \A k \in Of(c.arg, {"array", "scalar"}) :
        \/ k \in DOMAIN c.final /\ c.final[k] = c.arg[k]
        \/ k \in DOMAIN c.hash \ DOMAIN c.final /\ c.hash[k] = c.arg[k]

\* What was nested under k has been merged.
Merged(c, k) ==
    /\ \A e \in Leaves(c.arg[k].hash) :
          k \o e.key \in DOMAIN c.hash \cup DOMAIN c.final \cup HashNames(c.arg)
    /\ Refused(c.arg[k].hash) = {}

\* A nested hash is still to be flattened, or is being flattened, or has been merged.
NestedKept(c, waiting) ==
    \A k \in Of(c.arg, {"hash"}) :
        \/ k \in DOMAIN c.hash /\ c.hash[k] = c.arg[k]
        \/ waiting /\ k = c.key
        \/ Merged(c, k)

\* The array k of a call came out of a nested hash.
FromBelow(h, k) ==
    \E n \in Of(h, {"hash"}) : \E e \in Leaves(h[n].hash) :
        e.value.kind = "array" /\ k = n \o e.key

\* What each pass has left in the hash.
PassesDone(c) ==
    /\ c.passes = 0 => c = Call(c.arg)
    /\ c.passes > 0 =>
          /\ Of(c.arg, {"other"}) = {} /\ Of(c.hash, {"other"}) = {}
          /\ \A k \in Of(c.hash, {"array"}) : FromBelow(c.arg, k)
          /\ c.at = "until" => Of(c.hash, {"hash", "scalar"}) = {}
    /\ c.passes = 1 =>
          \A k \in DOMAIN c.final :
              k \in Of(c.arg, {"array"}) \/ (c.at = "until" /\ k \notin DOMAIN c.hash)
    /\ c.passes >= 2 =>
          Of(c.hash, {"hash", "scalar"}) = {} /\ DOMAIN c.hash \subseteq Of(c.arg, {"array"})
    /\ c.passes > 2 => ArraysClash(c.arg)

CallInv(c, waiting) == Told(c) /\ UpperKept(c) /\ NestedKept(c, waiting) /\ PassesDone(c)

\* A call waits for one that was made for a nested hash.
Waits(c, inner) ==
    /\ c.at = "hashes" /\ c.passes = 1
    /\ c.key \in Of(c.arg, {"hash"}) /\ inner.arg = c.arg[c.key].hash

Ended ==
    /\ status = "done" => Inner = 1 /\ Now.at = "until" /\ Now.hash = NoEntries
    /\ status = "raised" => Refused(calls[1].arg) # {}

FlattenInv ==
    /\ CMakeFlattenTypeOK /\ Ended
    /\ \A i \in DOMAIN calls :
          /\ CallInv(calls[i], i < Inner)
          /\ i < Inner => Waits(calls[i], calls[i + 1])
          /\ Refused(calls[i].arg) # {} => Refused(calls[1].arg) # {}

\* The recursion of Within ends: for hashes that are nested less than n deep there is such a
\* function, and all of them agree.
LEMMA WithinDef ==
    \A h \in Settings :
        Within[h] =
            {Entry(k, h[k]) : k \in DOMAIN h} \cup
            UNION {{Entry(k \o e.key, e.value) : e \in Within[h[k].hash]} : k \in Of(h, {"hash"})}
    <1> DEFINE Seen(f, h) ==
                   {Entry(k, h[k]) : k \in DOMAIN h} \cup
                   UNION {{Entry(k \o e.key, e.value) : e \in f[h[k].hash]} : k \in Of(h, {"hash"})}
               Upto(n, f) == \A h \in Settings : Nesting[h] < n => f[h] = Seen(f, h)
               Same(n, f, g) == \A h \in Settings : Nesting[h] < n => f[h] = g[h]
    <1>1. ASSUME NEW h \in Settings, NEW f, NEW g, Same(Nesting[h], f, g)
          PROVE  Seen(f, h) = Seen(g, h)
        <2>1. \A k \in Of(h, {"hash"}) : f[h[k].hash] = g[h[k].hash]
            BY <1>1, SettingsAssumption DEF Of
        <2> QED BY <2>1
    <1>2. Nesting \in [Settings -> Nat]
        BY SettingsAssumption
    <1> HIDE DEF Seen
    <1>3. \A n \in Nat : \E f : Upto(n, f)
        <2> DEFINE Reached == {n \in Nat : \E f : Upto(n, f)}
        <2>1. 0 \in Reached
            <3>1. \A f : Upto(0, f)
                BY <1>2
            <3> QED BY <3>1
        <2>2. ASSUME NEW n \in Nat, n \in Reached PROVE n + 1 \in Reached
            <3>1. PICK f : Upto(n, f)
                BY <2>2
            <3> DEFINE g == [h \in Settings |-> Seen(f, h)]
            <3>2. ASSUME NEW h \in Settings, Nesting[h] < n + 1 PROVE g[h] = Seen(g, h)
                <4>1. Same(Nesting[h], f, g)
                    BY <1>2, <3>1, <3>2
                <4> QED BY <4>1, <1>1
            <3>3. Upto(n + 1, g)
                BY <3>2
            <3> HIDE DEF Upto, g
            <3> QED BY <3>3
        <2> HIDE DEF Reached
        <2>3. \A n \in Nat : n \in Reached
            BY <2>1, <2>2, Induction
        <2> QED BY <2>3 DEF Reached
    <1>4. ASSUME NEW f, NEW g, NEW m \in Nat, Upto(m, f), NEW p \in Nat, Upto(p, g)
          PROVE  \A n \in Nat : n <= m /\ n <= p => Same(n, f, g)
        <2> DEFINE Alike == {n \in Nat : n <= m /\ n <= p => Same(n, f, g)}
        <2>1. 0 \in Alike
            BY <1>2
        <2>2. ASSUME NEW n \in Nat, n \in Alike PROVE n + 1 \in Alike
            <3> SUFFICES ASSUME n + 1 <= m, n + 1 <= p, NEW h \in Settings, Nesting[h] < n + 1
                         PROVE  f[h] = g[h]
                OBVIOUS
            <3>1. Same(n, f, g) /\ Nesting[h] \in Nat /\ Nesting[h] <= n
                BY <1>2, <2>2
            <3>2. Same(Nesting[h], f, g)
                BY <1>2, <3>1
            <3>3. Seen(f, h) = Seen(g, h)
                BY <1>1, <3>2
            <3> QED BY <1>2, <1>4, <3>3
        <2> HIDE DEF Alike
        <2>3. \A n \in Nat : n \in Alike
            BY <2>1, <2>2, Induction
        <2> QED BY <2>3 DEF Alike
    <1> DEFINE F(n) == CHOOSE f : Upto(n, f)
               L == [h \in Settings |-> F(Nesting[h] + 1)[h]]
    <1>5. \A n \in Nat : Upto(n, F(n))
        <2> HIDE DEF Upto
        <2> QED BY <1>3
    <1> HIDE DEF F
    <1>6. ASSUME NEW h \in Settings PROVE L[h] = Seen(L, h)
        <2> DEFINE n == Nesting[h]
        <2>1. n \in Nat /\ Upto(n + 1, F(n + 1))
            BY <1>2, <1>5
        <2>2. ASSUME NEW s \in Settings, Nesting[s] < n PROVE F(n + 1)[s] = L[s]
            <3>1. Nesting[s] \in Nat /\ Nesting[s] + 1 \in Nat /\ n + 1 \in Nat
                BY <1>2, <2>1
            <3>2. Upto(Nesting[s] + 1, F(Nesting[s] + 1))
                BY <3>1, <1>5
            <3>3. Same(Nesting[s] + 1, F(n + 1), F(Nesting[s] + 1))
                <4> HIDE DEF Upto, Same, n
                <4>1. Nesting[s] + 1 <= n + 1 /\ Nesting[s] + 1 <= Nesting[s] + 1
                    BY <2>1, <2>2, <3>1
                <4> QED BY <1>4, <2>1, <3>1, <3>2, <4>1
            <3> QED BY <3>1, <3>3
        <2>3. Seen(F(n + 1), h) = Seen(L, h)
            <3>1. Same(n, F(n + 1), L)
                BY <2>2
            <3> HIDE DEF Same, L
            <3> QED BY <1>1, <3>1
        <2>4. F(n + 1)[h] = Seen(F(n + 1), h)
            BY <2>1
        <2> QED BY <2>3, <2>4
    <1>7. L = [h \in Settings |-> Seen(L, h)]
        <2> HIDE DEF F
        <2> QED BY <1>6
    <1> HIDE DEF L
    <1>8. \E f : f = [h \in Settings |-> Seen(f, h)]
        BY <1>7
    <1>9. Within = [h \in Settings |-> Seen(Within, h)]
        BY <1>8 DEF Within, Seen
    <1> QED BY <1>9 DEF Seen

\* The settings of a hash are its own and those of its nested hashes.
LEMMA LeavesOf ==
    ASSUME NEW h \in Settings
    PROVE  /\ \A k \in DOMAIN h : h[k].kind # "hash" => Entry(k, h[k]) \in Leaves(h)
           /\ \A n \in Of(h, {"hash"}) : \A e \in Leaves(h[n].hash) :
                  Entry(n \o e.key, e.value) \in Leaves(h)
           /\ \A e \in Leaves(h) :
                  \/ \E k \in DOMAIN h : h[k].kind # "hash" /\ e = Entry(k, h[k])
                  \/ \E n \in Of(h, {"hash"}) : \E d \in Leaves(h[n].hash) :
                         e = Entry(n \o d.key, d.value)
           /\ \A n \in Of(h, {"hash"}) :
                  /\ n \in HashNames(h)
                  /\ \A m \in HashNames(h[n].hash) : n \o m \in HashNames(h)
    <1>1. \A k, v : Entry(k, v).key = k /\ Entry(k, v).value = v
        BY DEF Entry
    <1>2. \A k \in DOMAIN h : Entry(k, h[k]) \in Within[h]
        BY WithinDef
    <1>3. \A n \in Of(h, {"hash"}) : \A e \in Within[h[n].hash] :
              Entry(n \o e.key, e.value) \in Within[h]
        BY WithinDef
    <1>4. \A e \in Within[h] :
              \/ \E k \in DOMAIN h : e = Entry(k, h[k])
              \/ \E n \in Of(h, {"hash"}) : \E d \in Within[h[n].hash] : e = Entry(n \o d.key, d.value)
        BY WithinDef
    <1> HIDE DEF Entry
    <1>5. \A n \in Of(h, {"hash"}) : n \in DOMAIN h /\ h[n].kind = "hash"
        BY DEF Of
    <1>6. ASSUME NEW k \in DOMAIN h, h[k].kind # "hash" PROVE Entry(k, h[k]) \in Leaves(h)
        BY <1>1, <1>2, <1>6 DEF Leaves
    <1>7. ASSUME NEW n \in Of(h, {"hash"}), NEW e \in Leaves(h[n].hash)
          PROVE  Entry(n \o e.key, e.value) \in Leaves(h)
        BY <1>1, <1>3 DEF Leaves
    <1>8. ASSUME NEW e \in Leaves(h)
          PROVE  \/ \E k \in DOMAIN h : h[k].kind # "hash" /\ e = Entry(k, h[k])
                 \/ \E n \in Of(h, {"hash"}) : \E d \in Leaves(h[n].hash) :
                        e = Entry(n \o d.key, d.value)
        <2>1. e \in Within[h] /\ e.value.kind # "hash"
            BY DEF Leaves
        <2>2. CASE \E k \in DOMAIN h : e = Entry(k, h[k])
            BY <1>1, <2>1, <2>2
        <2>3. CASE \E n \in Of(h, {"hash"}) : \E d \in Within[h[n].hash] : e = Entry(n \o d.key, d.value)
            <3>1. PICK n \in Of(h, {"hash"}) : \E d \in Within[h[n].hash] : e = Entry(n \o d.key, d.value)
                BY <2>3
            <3>2. PICK d \in Within[h[n].hash] : e = Entry(n \o d.key, d.value)
                BY <3>1
            <3>3. d \in Leaves(h[n].hash)
                BY <1>1, <2>1, <3>2 DEF Leaves
            <3> QED BY <3>2, <3>3
        <2> QED BY <1>4, <2>1, <2>2, <2>3
    <1>9. ASSUME NEW n \in Of(h, {"hash"}) PROVE n \in HashNames(h)
        <2>1. Entry(n, h[n]) \in Within[h] \ Leaves(h)
            BY <1>1, <1>2, <1>5 DEF Leaves
        <2> QED BY <1>1, <2>1 DEF HashNames
    <1>10. ASSUME NEW n \in Of(h, {"hash"}), NEW m \in HashNames(h[n].hash)
           PROVE  n \o m \in HashNames(h)
        <2>1. PICK e \in Within[h[n].hash] \ Leaves(h[n].hash) : m = e.key
            BY DEF HashNames
        <2>2. Entry(n \o m, e.value) \in Within[h] \ Leaves(h)
            BY <1>1, <1>3, <2>1 DEF Leaves
        <2> QED BY <1>1, <2>2 DEF HashNames
    <1> QED BY <1>6, <1>7, <1>8, <1>9, <1>10

\* What is refused below is refused above.
LEMMA RefusedAbove ==
    ASSUME NEW h \in Settings, NEW n \in Of(h, {"hash"}), Refused(h[n].hash) # {}
    PROVE  Refused(h) # {}
    <1>1. PICK e \in Leaves(h[n].hash) : e.value.kind = "other"
        BY DEF Refused
    <1>2. Entry(n \o e.key, e.value) \in Leaves(h)
        BY LeavesOf
    <1>3. Entry(n \o e.key, e.value).value = e.value
        BY DEF Entry
    <1> QED BY <1>1, <1>2, <1>3 DEF Refused

\* The hash of a nested call is a setting, and every setting is a table of what was given.
LEMMA SettingsType ==
    ASSUME NEW h \in Settings
    PROVE  /\ h \in Tables /\ NoEntries \in Tables
           /\ \A n \in Of(h, {"hash"}) : n \in Seq(STRING) /\ h[n].hash \in Settings
    <1>1. h = [k \in DOMAIN h |-> h[k]] /\ DOMAIN h \in SUBSET Seq(STRING)
        BY SettingsAssumption
    <1>2. \A k \in DOMAIN h : h[k] \in Given
        BY DEF Given
    <1>3. h \in [DOMAIN h -> Given]
        BY <1>1, <1>2
    <1>4. NoEntries \in [{} -> Given] /\ {} \in SUBSET Seq(STRING)
        BY DEF NoEntries
    <1>5. \A n \in Of(h, {"hash"}) : n \in Seq(STRING) /\ h[n].hash \in Settings
        BY SettingsAssumption DEF Of
    <1> QED BY <1>1, <1>3, <1>4, <1>5 DEF Tables

\* A table is a function of what was given.
LEMMA TableForm ==
    ASSUME NEW f
    PROVE  f \in Tables <=> /\ f = [k \in DOMAIN f |-> f[k]] /\ DOMAIN f \subseteq Seq(STRING)
                            /\ \A k \in DOMAIN f : f[k] \in Given
    <1>1. ASSUME f \in Tables
          PROVE  f = [k \in DOMAIN f |-> f[k]] /\ DOMAIN f \subseteq Seq(STRING)
                 /\ \A k \in DOMAIN f : f[k] \in Given
        <2>1. PICK K \in SUBSET Seq(STRING) : f \in [K -> Given]
            BY <1>1 DEF Tables
        <2> QED BY <2>1
    <1>2. ASSUME f = [k \in DOMAIN f |-> f[k]], DOMAIN f \subseteq Seq(STRING),
                 \A k \in DOMAIN f : f[k] \in Given
          PROVE  f \in Tables
        <2>1. f \in [DOMAIN f -> Given]
            BY <1>2
        <2> QED BY <1>2, <2>1 DEF Tables
    <1> QED BY <1>1, <1>2

LEMMA GivenKinds ==
    \A v \in Given :
        /\ v.kind \in {"array", "hash", "scalar", "other"}
        /\ v.kind = "hash" => v.hash \in Settings
    BY SettingsAssumption DEF Given

\* What the helpers return.
LEMMA Restricted ==
    ASSUME NEW f \in Tables, NEW K
    PROVE  /\ Without(f, K) \in Tables
           /\ DOMAIN Without(f, K) = DOMAIN f \ K
           /\ \A k \in DOMAIN f \ K : Without(f, K)[k] = f[k]
           /\ K \subseteq DOMAIN f =>
                 /\ Restrict(f, K) \in Tables
                 /\ DOMAIN Restrict(f, K) = K
                 /\ \A k \in K : Restrict(f, K)[k] = f[k]
    BY TableForm DEF Without, Restrict

LEMMA MergeOf ==
    ASSUME NEW f \in Tables, NEW g \in Tables
    PROVE  /\ Merge(f, g) \in Tables
           /\ DOMAIN Merge(f, g) = DOMAIN f \cup DOMAIN g
           /\ \A k \in DOMAIN f : Merge(f, g)[k] = f[k]
           /\ \A k \in DOMAIN g : k \in DOMAIN f \/ Merge(f, g)[k] = g[k]
    BY TableForm DEF Merge

LEMMA PrefixedOf ==
    ASSUME NEW f \in Tables, NEW p \in Seq(STRING)
    PROVE  /\ Prefixed(p, f) \in Tables
           /\ DOMAIN Prefixed(p, f) = {p \o l : l \in DOMAIN f}
           /\ \A k \in DOMAIN Prefixed(p, f) :
                  \E l \in DOMAIN f : k = p \o l /\ Prefixed(p, f)[k] = f[l]
    <1> DEFINE keys == {p \o l : l \in DOMAIN f}
               From(k) == CHOOSE l \in DOMAIN f : k = p \o l
    <1>1. \A k \in keys : From(k) \in DOMAIN f /\ k = p \o From(k)
        OBVIOUS
    <1>2. DOMAIN f \subseteq Seq(STRING) /\ \A l \in DOMAIN f : f[l] \in Given
        BY TableForm
    <1>3. keys \subseteq Seq(STRING)
        <2>1. \A l \in Seq(STRING) : p \o l \in Seq(STRING)
            OBVIOUS
        <2> QED BY <1>2, <2>1
    <1> HIDE DEF keys, From
    <1>4. Prefixed(p, f) = [k \in keys |-> f[From(k)]]
        BY DEF Prefixed, keys, From
    <1>5. Prefixed(p, f) \in Tables
        <2>1. \A k \in keys : f[From(k)] \in Given
            BY <1>1, <1>2
        <2> QED BY <1>3, <1>4, <2>1, TableForm
    <1>6. DOMAIN Prefixed(p, f) = {p \o l : l \in DOMAIN f}
        BY <1>4 DEF keys
    <1> QED BY <1>1, <1>4, <1>5, <1>6 DEF keys

-----------------------------------------------------------------------------
(* The parts of a pass keep what is known of a call.                       *)

LEMMA CallStarts ==
    ASSUME NEW h \in Settings
    PROVE  Call(h) \in Calls /\ CallInv(Call(h), FALSE)
    <1>1. Call(h) \in Calls
        BY SettingsType DEF Call, Calls
    <1>2. /\ Call(h).arg = h /\ Call(h).hash = h /\ Call(h).final = NoEntries
          /\ Call(h).passes = 0 /\ Call(h).at = "until" /\ DOMAIN NoEntries = {}
        BY DEF Call, NoEntries
    <1> HIDE DEF Call
    <1>3. Told(Call(h))
        BY <1>2, LeavesOf DEF Told, Of
    <1>4. UpperKept(Call(h)) /\ NestedKept(Call(h), FALSE) /\ PassesDone(Call(h))
        BY <1>2 DEF UpperKept, NestedKept, PassesDone, Of
    <1> QED BY <1>1, <1>3, <1>4 DEF CallInv

\* A call whose hash, final and place have changed.
Updated(c, h, f, n, at) == [c EXCEPT !.hash = h, !.final = f, !.passes = n, !.at = at]

LEMMA CallUpdated ==
    ASSUME NEW c \in Calls, NEW h \in Tables, NEW f \in Tables, NEW n \in Nat,
           NEW at \in {"until", "hashes"}
    PROVE  LET d == Updated(c, h, f, n, at)
           IN  /\ d \in Calls /\ d.arg = c.arg /\ d.hash = h /\ d.final = f /\ d.passes = n
               /\ d.at = at /\ d.key = c.key
    BY DEF Updated, Calls

\* What TakeArrays does to a call.
LEMMA ArraysTaken ==
    ASSUME NEW c \in Calls
    PROVE  LET d == TakeArrays(c)
           IN  /\ d \in Calls /\ d.arg = c.arg /\ d.passes = c.passes + 1 /\ d.at = "hashes"
               /\ d.key = c.key
               /\ DOMAIN d.hash \cup DOMAIN d.final = DOMAIN c.hash \cup DOMAIN c.final
               /\ DOMAIN d.hash \subseteq DOMAIN c.hash /\ DOMAIN c.final \subseteq DOMAIN d.final
               /\ \A k \in DOMAIN d.hash : d.hash[k] = c.hash[k]
               /\ \A k \in DOMAIN d.final :
                      IF k \in DOMAIN c.final THEN d.final[k] = c.final[k]
                      ELSE k \in Of(c.hash, {"array"}) /\ d.final[k] = c.hash[k]
               /\ \A k \in DOMAIN c.hash :
                      IF c.hash[k].kind = "array" THEN k \in DOMAIN d.final /\ (k \in DOMAIN d.hash => k \in DOMAIN c.final)
                      ELSE k \in DOMAIN d.hash /\ (k \in DOMAIN d.final => k \in DOMAIN c.final)
    <1> DEFINE taken == Of(c.hash, {"array"}) \ DOMAIN c.final
               moved == Restrict(c.hash, taken)
               d == TakeArrays(c)
    <1>1. c.hash \in Tables /\ c.final \in Tables /\ c.passes \in Nat
        BY DEF Calls
    <1>2. /\ taken \subseteq DOMAIN c.hash
          /\ \A k \in taken : k \in Of(c.hash, {"array"}) /\ k \notin DOMAIN c.final
          /\ \A k \in DOMAIN c.hash : k \in taken <=> c.hash[k].kind = "array" /\ k \notin DOMAIN c.final
        BY DEF Of
    <1>3. d = Updated(c, Without(c.hash, taken), Merge(c.final, moved), c.passes + 1, "hashes")
        BY DEF TakeArrays, Updated
    <1> HIDE DEF taken, d
    <1>4. moved \in Tables /\ DOMAIN moved = taken /\ \A k \in taken : moved[k] = c.hash[k]
        BY <1>1, <1>2, Restricted
    <1>5. /\ Without(c.hash, taken) \in Tables /\ DOMAIN Without(c.hash, taken) = DOMAIN c.hash \ taken
          /\ \A k \in DOMAIN c.hash \ taken : Without(c.hash, taken)[k] = c.hash[k]
        BY <1>1, Restricted
    <1> HIDE DEF moved
    <1>6. /\ Merge(c.final, moved) \in Tables
          /\ DOMAIN Merge(c.final, moved) = DOMAIN c.final \cup taken
          /\ \A k \in DOMAIN c.final : Merge(c.final, moved)[k] = c.final[k]
          /\ \A k \in taken : Merge(c.final, moved)[k] = c.hash[k]
        BY <1>1, <1>2, <1>4, MergeOf
    <1>7. /\ d.arg = c.arg /\ d.hash = Without(c.hash, taken) /\ d.final = Merge(c.final, moved)
          /\ d.passes = c.passes + 1 /\ d.at = "hashes" /\ d.key = c.key /\ d \in Calls
        <2> DEFINE h == Without(c.hash, taken)
                   f == Merge(c.final, moved)
                   n == c.passes + 1
        <2>1. h \in Tables /\ f \in Tables /\ n \in Nat
            BY <1>1, <1>5, <1>6
        <2>2. d = Updated(c, h, f, n, "hashes")
            BY <1>3
        <2> HIDE DEF h, f, n
        <2>3. /\ d \in Calls /\ d.arg = c.arg /\ d.hash = h /\ d.final = f /\ d.passes = n
              /\ d.at = "hashes" /\ d.key = c.key
            BY <2>1, <2>2, CallUpdated
        <2> QED BY <2>3 DEF h, f, n
    <1> QED BY <1>2, <1>5, <1>6, <1>7 DEF d

LEMMA ArraysKeep ==
    ASSUME NEW c \in Calls, CallInv(c, FALSE), c.at = "until", c.hash # NoEntries,
           Of(c.hash, {"other"}) = {}
    PROVE  CallInv(TakeArrays(c), FALSE)
    <1> DEFINE d == TakeArrays(c)
    <1>1. /\ d \in Calls /\ d.arg = c.arg /\ d.passes = c.passes + 1 /\ d.at = "hashes"
          /\ DOMAIN d.hash \cup DOMAIN d.final = DOMAIN c.hash \cup DOMAIN c.final
          /\ DOMAIN d.hash \subseteq DOMAIN c.hash /\ DOMAIN c.final \subseteq DOMAIN d.final
          /\ \A k \in DOMAIN d.hash : d.hash[k] = c.hash[k]
          /\ \A k \in DOMAIN d.final :
                 IF k \in DOMAIN c.final THEN d.final[k] = c.final[k]
                 ELSE k \in Of(c.hash, {"array"}) /\ d.final[k] = c.hash[k]
          /\ \A k \in DOMAIN c.hash :
                 IF c.hash[k].kind = "array" THEN k \in DOMAIN d.final /\ (k \in DOMAIN d.hash => k \in DOMAIN c.final)
                 ELSE k \in DOMAIN d.hash /\ (k \in DOMAIN d.final => k \in DOMAIN c.final)
        BY ArraysTaken
    <1> HIDE DEF d
    <1>2. Told(c) /\ UpperKept(c) /\ NestedKept(c, FALSE) /\ PassesDone(c)
        BY DEF CallInv
    <1>3. c.passes \in Nat /\ c.arg \in Settings
        BY DEF Calls
    <1>4. Told(d)
        <2>1. ASSUME NEW k \in DOMAIN d.final
              PROVE  Entry(k, d.final[k]) \in Leaves(d.arg) /\ d.final[k].kind \in {"array", "scalar"}
            <3>1. CASE k \in DOMAIN c.final
                BY <1>1, <1>2, <3>1 DEF Told
            <3>2. CASE k \notin DOMAIN c.final
                <4>1. k \in DOMAIN c.hash /\ c.hash[k].kind = "array" /\ d.final[k] = c.hash[k]
                    BY <1>1, <3>2 DEF Of
                <4>2. Entry(k, c.hash[k]) \in Leaves(c.arg)
                    BY <1>2, <4>1 DEF Told, Of
                <4> QED BY <1>1, <4>1, <4>2
            <3> QED BY <3>1, <3>2
        <2>2. ASSUME NEW k \in DOMAIN d.hash
              PROVE  \/ Entry(k, d.hash[k]) \in Leaves(d.arg) /\ d.hash[k].kind # "hash"
                     \/ k \in Of(d.arg, {"hash"}) /\ d.hash[k] = d.arg[k]
            BY <1>1, <1>2 DEF Told
        <2> QED BY <2>1, <2>2 DEF Told
    <1>5. UpperKept(d)
        <2> SUFFICES ASSUME NEW k \in Of(c.arg, {"array", "scalar"})
                     PROVE  \/ k \in DOMAIN d.final /\ d.final[k] = c.arg[k]
                            \/ k \in DOMAIN d.hash \ DOMAIN d.final /\ d.hash[k] = c.arg[k]
            BY <1>1 DEF UpperKept
        <2>1. CASE k \in DOMAIN c.final /\ c.final[k] = c.arg[k]
            BY <1>1, <2>1
        <2>2. CASE k \in DOMAIN c.hash \ DOMAIN c.final /\ c.hash[k] = c.arg[k]
            BY <1>1, <2>2
        <2> QED BY <1>2, <2>1, <2>2 DEF UpperKept
    <1>6. NestedKept(d, FALSE)
        <2> SUFFICES ASSUME NEW k \in Of(c.arg, {"hash"})
                     PROVE  (k \in DOMAIN d.hash /\ d.hash[k] = c.arg[k]) \/ Merged(d, k)
            BY <1>1 DEF NestedKept
        <2>1. CASE k \in DOMAIN c.hash /\ c.hash[k] = c.arg[k]
            BY <1>1, <2>1 DEF Of
        <2>2. CASE Merged(c, k)
            BY <1>1, <2>2 DEF Merged
        <2> QED BY <1>2, <2>1, <2>2 DEF NestedKept
    <1>7. Of(d.hash, {"array"}) = Of(d.hash, {"array"}) \cap DOMAIN c.final
          /\ Of(d.hash, {"array"}) \subseteq Of(c.hash, {"array"})
        BY <1>1 DEF Of
    <1>8. PassesDone(d)
        <2>1. d.passes > 0 /\ d.passes # 0
            BY <1>1, <1>3
        <2>2. Of(d.arg, {"other"}) = {} /\ Of(d.hash, {"other"}) = {}
            <3>1. Of(d.hash, {"other"}) = {}
                BY <1>1 DEF Of
            <3>2. c.passes = 0 => c.hash = c.arg
                BY <1>2, <1>3 DEF PassesDone, Call
            <3> QED BY <1>1, <1>2, <1>3, <3>1, <3>2 DEF PassesDone
        <2>3. ASSUME NEW k \in Of(d.hash, {"array"}) PROVE FromBelow(d.arg, k)
            <3>1. CASE c.passes = 0
                <4>1. DOMAIN c.final = {}
                    BY <1>2, <3>1 DEF PassesDone, Call, NoEntries
                <4> QED BY <1>7, <4>1
            <3>2. CASE c.passes > 0
                BY <1>1, <1>2, <1>7, <3>2 DEF PassesDone
            <3> QED BY <1>3, <3>1, <3>2
        <2>4. ASSUME d.passes = 1, NEW k \in DOMAIN d.final PROVE k \in Of(d.arg, {"array"})
            <3>1. c.passes = 0
                BY <1>1, <1>3, <2>4
            <3>2. c.hash = c.arg /\ DOMAIN c.final = {}
                BY <1>2, <3>1 DEF PassesDone, Call, NoEntries
            <3> QED BY <1>1, <2>4, <3>2
        <2>5. ASSUME d.passes >= 2
              PROVE  Of(d.hash, {"hash", "scalar"}) = {} /\ DOMAIN d.hash \subseteq Of(d.arg, {"array"})
            <3>1. c.passes >= 1
                BY <1>1, <1>3, <2>5
            <3>2. Of(c.hash, {"hash", "scalar"}) = {}
                BY <1>2, <1>3, <3>1 DEF PassesDone
            <3>3. Of(d.hash, {"hash", "scalar"}) = {}
                BY <1>1, <3>2 DEF Of
            <3>4. ASSUME NEW k \in DOMAIN d.hash PROVE k \in Of(d.arg, {"array"})
                <4>1. d.hash[k].kind \in {"array", "hash", "scalar", "other"}
                    BY <1>1, GivenKinds, TableForm DEF Calls
                <4>2. k \in Of(d.hash, {"array"})
                    BY <2>2, <3>3, <4>1 DEF Of
                <4>3. k \in DOMAIN c.final /\ k \in DOMAIN c.hash
                    BY <1>1, <1>7, <4>2
                <4>4. CASE c.passes = 1
                    BY <1>1, <1>2, <4>3, <4>4 DEF PassesDone
                <4>5. CASE c.passes >= 2
                    BY <1>1, <1>2, <4>3, <4>5 DEF PassesDone
                <4> QED BY <1>3, <3>1, <4>4, <4>5
            <3> QED BY <3>3, <3>4
        <2>6. ASSUME d.passes > 2 PROVE ArraysClash(d.arg)
            <3>1. c.passes >= 2
                BY <1>1, <1>3, <2>6
            <3>2. PICK k : k \in DOMAIN c.hash
                <4>1. c.hash = [k \in DOMAIN c.hash |-> c.hash[k]]
                    BY TableForm DEF Calls
                <4>2. DOMAIN c.hash # {}
                    BY <4>1 DEF NoEntries
                <4> QED BY <4>2
            <3>3. k \in Of(c.arg, {"array"}) /\ Of(c.hash, {"hash", "scalar"}) = {}
                BY <1>2, <3>1, <3>2 DEF PassesDone
            <3>4. c.hash[k].kind \in {"array", "hash", "scalar", "other"}
                BY <3>2, GivenKinds, TableForm DEF Calls
            <3>5. k \in Of(c.hash, {"array"})
                BY <3>2, <3>3, <3>4 DEF Of
            <3>6. FromBelow(c.arg, k)
                BY <1>2, <1>3, <3>1, <3>5 DEF PassesDone
            <3> QED BY <1>1, <3>3, <3>6 DEF FromBelow, ArraysClash
        <2> QED BY <1>1, <2>1, <2>2, <2>3, <2>4, <2>5, <2>6 DEF PassesDone
    <1> QED BY <1>4, <1>5, <1>6, <1>8 DEF CallInv, d

\* What TakeScalars does to a call.
LEMMA ScalarsTaken ==
    ASSUME NEW c \in Calls
    PROVE  LET d == TakeScalars(c)
               scalars == Of(c.hash, {"scalar"})
           IN  /\ d \in Calls /\ d.arg = c.arg /\ d.passes = c.passes /\ d.at = "until"
               /\ DOMAIN d.hash = DOMAIN c.hash \ scalars
               /\ \A k \in DOMAIN d.hash : d.hash[k] = c.hash[k]
               /\ DOMAIN d.final = DOMAIN c.final \cup scalars
               /\ \A k \in DOMAIN c.final : d.final[k] = c.final[k]
               /\ \A k \in scalars : k \in DOMAIN c.final \/ d.final[k] = c.hash[k]
    <1> DEFINE scalars == Of(c.hash, {"scalar"})
               moved == Restrict(c.hash, scalars)
               d == TakeScalars(c)
               h == Without(c.hash, scalars)
               f == Merge(c.final, moved)
    <1>1. c.hash \in Tables /\ c.final \in Tables /\ c.passes \in Nat /\ scalars \subseteq DOMAIN c.hash
        BY DEF Calls, Of
    <1>2. d = Updated(c, h, f, c.passes, "until")
        BY DEF TakeScalars, Updated, Calls
    <1> HIDE DEF scalars, d
    <1>3. moved \in Tables /\ DOMAIN moved = scalars /\ \A k \in scalars : moved[k] = c.hash[k]
        BY <1>1, Restricted
    <1>4. /\ h \in Tables /\ DOMAIN h = DOMAIN c.hash \ scalars
          /\ \A k \in DOMAIN c.hash \ scalars : h[k] = c.hash[k]
        BY <1>1, Restricted
    <1> HIDE DEF moved, h
    <1>5. /\ f \in Tables /\ DOMAIN f = DOMAIN c.final \cup scalars
          /\ \A k \in DOMAIN c.final : f[k] = c.final[k]
          /\ \A k \in scalars : k \in DOMAIN c.final \/ f[k] = c.hash[k]
        BY <1>1, <1>3, MergeOf
    <1> HIDE DEF f
    <1>6. /\ d \in Calls /\ d.arg = c.arg /\ d.hash = h /\ d.final = f /\ d.passes = c.passes
          /\ d.at = "until"
        <2> DEFINE n == c.passes
        <2>1. h \in Tables /\ f \in Tables /\ n \in Nat /\ d = Updated(c, h, f, n, "until")
            BY <1>1, <1>2, <1>4, <1>5
        <2> HIDE DEF n
        <2>2. d \in Calls /\ d.arg = c.arg /\ d.hash = h /\ d.final = f /\ d.passes = n /\ d.at = "until"
            BY <2>1, CallUpdated
        <2> QED BY <2>2 DEF n
    <1> QED BY <1>4, <1>5, <1>6 DEF d, scalars

LEMMA ScalarsKeep ==
    ASSUME NEW c \in Calls, CallInv(c, FALSE), c.at = "hashes", Of(c.hash, {"hash"}) = {}
    PROVE  CallInv(TakeScalars(c), FALSE)
    <1> DEFINE d == TakeScalars(c)
               scalars == Of(c.hash, {"scalar"})
    <1>1. /\ d \in Calls /\ d.arg = c.arg /\ d.passes = c.passes /\ d.at = "until"
          /\ DOMAIN d.hash = DOMAIN c.hash \ scalars
          /\ \A k \in DOMAIN d.hash : d.hash[k] = c.hash[k]
          /\ DOMAIN d.final = DOMAIN c.final \cup scalars
          /\ \A k \in DOMAIN c.final : d.final[k] = c.final[k]
          /\ \A k \in scalars : k \in DOMAIN c.final \/ d.final[k] = c.hash[k]
        BY ScalarsTaken
    <1>2. \A k : k \in scalars <=> k \in DOMAIN c.hash /\ c.hash[k].kind = "scalar"
        BY DEF Of
    <1> HIDE DEF d, scalars
    <1>3. Told(c) /\ UpperKept(c) /\ NestedKept(c, FALSE) /\ PassesDone(c)
        BY DEF CallInv
    <1>4. c.passes \in Nat /\ c.passes > 0
        BY <1>3 DEF Calls, PassesDone, Call
    <1>5. Told(d)
        <2>1. ASSUME NEW k \in DOMAIN d.final
              PROVE  Entry(k, d.final[k]) \in Leaves(d.arg) /\ d.final[k].kind \in {"array", "scalar"}
            <3>1. CASE k \in DOMAIN c.final
                BY <1>1, <1>3, <3>1 DEF Told
            <3>2. CASE k \notin DOMAIN c.final
                <4>1. k \in DOMAIN c.hash /\ c.hash[k].kind = "scalar" /\ d.final[k] = c.hash[k]
                    BY <1>1, <1>2, <3>2
                <4>2. Entry(k, c.hash[k]) \in Leaves(c.arg)
                    BY <1>3, <4>1 DEF Told, Of
                <4> QED BY <1>1, <4>1, <4>2
            <3> QED BY <3>1, <3>2
        <2>2. ASSUME NEW k \in DOMAIN d.hash
              PROVE  \/ Entry(k, d.hash[k]) \in Leaves(d.arg) /\ d.hash[k].kind # "hash"
                     \/ k \in Of(d.arg, {"hash"}) /\ d.hash[k] = d.arg[k]
            BY <1>1, <1>3 DEF Told
        <2> QED BY <2>1, <2>2 DEF Told
    <1>6. UpperKept(d)
        <2> SUFFICES ASSUME NEW k \in Of(c.arg, {"array", "scalar"})
                     PROVE  \/ k \in DOMAIN d.final /\ d.final[k] = c.arg[k]
                            \/ k \in DOMAIN d.hash \ DOMAIN d.final /\ d.hash[k] = c.arg[k]
            BY <1>1 DEF UpperKept
        <2>1. CASE k \in DOMAIN c.final /\ c.final[k] = c.arg[k]
            BY <1>1, <2>1
        <2>2. CASE k \in DOMAIN c.hash \ DOMAIN c.final /\ c.hash[k] = c.arg[k]
            BY <1>1, <2>2
        <2> QED BY <1>3, <2>1, <2>2 DEF UpperKept
    <1>7. NestedKept(d, FALSE)
        <2> SUFFICES ASSUME NEW k \in Of(c.arg, {"hash"})
                     PROVE  Merged(d, k)
            BY <1>1 DEF NestedKept
        <2>1. Merged(c, k)
            BY <1>3 DEF NestedKept, Of
        <2>2. DOMAIN d.hash \cup DOMAIN d.final = DOMAIN c.hash \cup DOMAIN c.final
            BY <1>1, <1>2
        <2> QED BY <1>1, <2>1, <2>2 DEF Merged
    <1>8. PassesDone(d)
        <2>1. \A kinds : Of(d.hash, kinds) \subseteq Of(c.hash, kinds)
            BY <1>1 DEF Of
        <2>2. Of(d.hash, {"hash", "scalar"}) = {}
            BY <1>1, <1>2 DEF Of
        <2>3. ASSUME d.passes = 1, NEW k \in DOMAIN d.final
              PROVE  k \in Of(d.arg, {"array"}) \/ (d.at = "until" /\ k \notin DOMAIN d.hash)
            <3>1. CASE k \in DOMAIN c.final
                BY <1>1, <1>3, <2>3, <3>1 DEF PassesDone
            <3>2. CASE k \in scalars
                BY <1>1, <3>2
            <3> QED BY <1>1, <3>1, <3>2
        <2>4. /\ Of(d.arg, {"other"}) = {} /\ Of(d.hash, {"other"}) = {}
              /\ \A k \in Of(d.hash, {"array"}) : FromBelow(d.arg, k)
            BY <1>1, <1>3, <1>4, <2>1 DEF PassesDone
        <2>5. /\ d.passes >= 2 => DOMAIN d.hash \subseteq Of(d.arg, {"array"})
              /\ d.passes > 2 => ArraysClash(d.arg)
            BY <1>1, <1>3 DEF PassesDone
        <2> QED BY <1>1, <1>4, <2>2, <2>3, <2>4, <2>5 DEF PassesDone
    <1> QED BY <1>5, <1>6, <1>7, <1>8 DEF CallInv, d

\* A nested hash is taken out of the hash, and the call waits.
LEMMA HashKeeps ==
    ASSUME NEW c \in Calls, CallInv(c, FALSE), c.at = "hashes", NEW k \in Of(c.hash, {"hash"})
    PROVE  LET d == TakeHash(c, k)
           IN  /\ d \in Calls /\ d.arg = c.arg /\ CallInv(d, TRUE)
               /\ d.at = "hashes" /\ d.passes = 1 /\ d.key = k
               /\ k \in Of(c.arg, {"hash"}) /\ c.hash[k] = c.arg[k]
    <1> DEFINE d == TakeHash(c, k)
               h == Without(c.hash, {k})
    <1>1. c.hash \in Tables /\ c.passes \in Nat /\ c.arg \in Settings
        BY DEF Calls
    <1>2. h \in Tables /\ DOMAIN h = DOMAIN c.hash \ {k} /\ \A j \in DOMAIN c.hash \ {k} : h[j] = c.hash[j]
        BY <1>1, Restricted
    <1>3. Told(c) /\ UpperKept(c) /\ NestedKept(c, FALSE) /\ PassesDone(c)
        BY DEF CallInv
    <1>4. k \in DOMAIN c.hash /\ c.hash[k].kind = "hash"
        BY DEF Of
    <1>5. k \in Of(c.arg, {"hash"}) /\ c.hash[k] = c.arg[k]
        BY <1>3, <1>4 DEF Told
    <1>6. k \in Seq(STRING) /\ k \in HashNames(c.arg)
        BY <1>1, <1>5, SettingsType, LeavesOf
    <1> HIDE DEF h
    <1>7. /\ d \in Calls /\ d.arg = c.arg /\ d.hash = h /\ d.final = c.final
          /\ d.passes = c.passes /\ d.at = c.at /\ d.key = k
        BY <1>2, <1>6 DEF TakeHash, Calls, h
    <1>8. c.passes = 1
        BY <1>1, <1>3, <1>4 DEF PassesDone, Call, Of
    <1> HIDE DEF d
    <1>9. Told(d) /\ UpperKept(d)
        <2>1. Told(d)
            BY <1>2, <1>3, <1>7 DEF Told
        <2>2. UpperKept(d)
            <3>1. \A j \in Of(c.arg, {"array", "scalar"}) : j # k
                BY <1>5 DEF Of
            <3> QED BY <1>2, <1>3, <1>7, <3>1 DEF UpperKept
        <2> QED BY <2>1, <2>2
    <1>10. NestedKept(d, TRUE)
        <2> SUFFICES ASSUME NEW j \in Of(c.arg, {"hash"}), j # k
                     PROVE  (j \in DOMAIN d.hash /\ d.hash[j] = c.arg[j]) \/ Merged(d, j)
            BY <1>7 DEF NestedKept
        <2>1. CASE j \in DOMAIN c.hash /\ c.hash[j] = c.arg[j]
            BY <1>2, <1>7, <2>1
        <2>2. CASE Merged(c, j)
            BY <1>2, <1>6, <1>7, <2>2 DEF Merged
        <2> QED BY <1>3, <2>1, <2>2 DEF NestedKept
    <1>11. PassesDone(d)
        <2>1. \A kinds : Of(d.hash, kinds) \subseteq Of(c.hash, kinds)
            BY <1>2, <1>7 DEF Of
        <2>2. d.passes = 1 /\ d.at = "hashes"
            BY <1>7, <1>8
        <2>3. /\ Of(d.arg, {"other"}) = {} /\ Of(d.hash, {"other"}) = {}
              /\ \A j \in Of(d.hash, {"array"}) : FromBelow(d.arg, j)
            BY <1>3, <1>7, <1>8, <2>1 DEF PassesDone
        <2>4. \A j \in DOMAIN d.final : j \in Of(d.arg, {"array"})
            BY <1>3, <1>7, <1>8 DEF PassesDone
        <2> QED BY <2>2, <2>3, <2>4 DEF PassesDone
    <1> QED BY <1>5, <1>7, <1>8, <1>9, <1>10, <1>11 DEF CallInv, d

\* What the nested call returned is merged.
LEMMA FlatKeeps ==
    ASSUME NEW c \in Calls, CallInv(c, TRUE), c.at = "hashes", c.passes = 1,
           c.key \in Of(c.arg, {"hash"}), NEW flat \in Tables,
           Flattens(flat, c.arg[c.key].hash), Refused(c.arg[c.key].hash) = {},
           \A l \in DOMAIN flat : flat[l].kind \in {"array", "scalar"}
    PROVE  /\ MergeFlat(c, flat) \in Calls /\ MergeFlat(c, flat).arg = c.arg
           /\ CallInv(MergeFlat(c, flat), FALSE)
    <1> DEFINE d == MergeFlat(c, flat)
               below == c.arg[c.key].hash
               p == Prefixed(c.key, flat)
               h == Merge(c.hash, p)
    <1>1. c.hash \in Tables /\ c.arg \in Settings /\ c.key \in Seq(STRING) /\ below \in Settings
        BY SettingsType DEF Calls
    <1>2. /\ p \in Tables /\ DOMAIN p = {c.key \o l : l \in DOMAIN flat}
          /\ \A k \in DOMAIN p : \E l \in DOMAIN flat : k = c.key \o l /\ p[k] = flat[l]
        BY <1>1, PrefixedOf
    <1> HIDE DEF p
    <1>3. /\ h \in Tables /\ DOMAIN h = DOMAIN c.hash \cup DOMAIN p
          /\ \A k \in DOMAIN c.hash : h[k] = c.hash[k]
          /\ \A k \in DOMAIN p : k \in DOMAIN c.hash \/ h[k] = p[k]
        BY <1>1, <1>2, MergeOf
    <1> HIDE DEF h
    <1>4. /\ d \in Calls /\ d.arg = c.arg /\ d.hash = h /\ d.final = c.final
          /\ d.passes = 1 /\ d.at = "hashes" /\ d.key = c.key
        BY <1>3 DEF MergeFlat, Calls, h, p
    <1> HIDE DEF d
    <1>5. Told(c) /\ UpperKept(c) /\ NestedKept(c, TRUE) /\ PassesDone(c)
        BY DEF CallInv
    <1>6. ASSUME NEW k \in DOMAIN d.hash, k \notin DOMAIN c.hash
          PROVE  /\ Entry(k, d.hash[k]) \in Leaves(d.arg) /\ d.hash[k].kind \in {"array", "scalar"}
                 /\ d.hash[k].kind = "array" => FromBelow(d.arg, k)
        <2>1. PICK l \in DOMAIN flat : k = c.key \o l /\ d.hash[k] = flat[l]
            <3>1. k \in DOMAIN p /\ d.hash[k] = p[k]
                BY <1>3, <1>4, <1>6
            <3> QED BY <1>2, <3>1
        <2>2. Entry(l, flat[l]) \in Leaves(below)
            BY DEF Flattens
        <2>3. Entry(l, flat[l]).key = l /\ Entry(l, flat[l]).value = flat[l]
            BY DEF Entry
        <2>4. Entry(c.key \o l, flat[l]) \in Leaves(c.arg)
            <3> HIDE DEF below
            <3>1. \A e \in Leaves(below) : Entry(c.key \o e.key, e.value) \in Leaves(c.arg)
                BY <1>1, LeavesOf DEF below
            <3> QED BY <2>2, <2>3, <3>1
        <2>5. flat[l].kind = "array" => FromBelow(c.arg, k)
            BY <2>1, <2>2, <2>3 DEF FromBelow
        <2> QED BY <1>4, <2>1, <2>4, <2>5
    <1>7. Told(d)
        <2>1. ASSUME NEW k \in DOMAIN d.hash
              PROVE  \/ Entry(k, d.hash[k]) \in Leaves(d.arg) /\ d.hash[k].kind # "hash"
                     \/ k \in Of(d.arg, {"hash"}) /\ d.hash[k] = d.arg[k]
            <3>1. CASE k \in DOMAIN c.hash
                BY <1>3, <1>4, <1>5, <3>1 DEF Told
            <3>2. CASE k \notin DOMAIN c.hash
                BY <1>6, <3>2
            <3> QED BY <3>1, <3>2
        <2> QED BY <1>4, <1>5, <2>1 DEF Told
    <1>8. UpperKept(d)
        BY <1>3, <1>4, <1>5 DEF UpperKept
    <1>9. NestedKept(d, FALSE)
        <2> SUFFICES ASSUME NEW j \in Of(c.arg, {"hash"})
                     PROVE  (j \in DOMAIN d.hash /\ d.hash[j] = c.arg[j]) \/ Merged(d, j)
            BY <1>4 DEF NestedKept
        <2>1. CASE j \in DOMAIN c.hash /\ c.hash[j] = c.arg[j]
            BY <1>3, <1>4, <2>1
        <2>2. CASE Merged(c, j)
            BY <1>3, <1>4, <2>2 DEF Merged
        <2>3. CASE j = c.key
            <3>1. ASSUME NEW e \in Leaves(below)
                  PROVE  c.key \o e.key \in DOMAIN d.hash \cup DOMAIN d.final \cup HashNames(d.arg)
                <4>1. e.key \in DOMAIN flat \cup HashNames(below)
                    BY DEF Flattens, LeafNames
                <4>2. CASE e.key \in DOMAIN flat
                    BY <1>2, <1>3, <1>4, <4>2
                <4>3. CASE e.key \in HashNames(below)
                    BY <1>1, <1>4, <4>3, LeavesOf
                <4> QED BY <4>1, <4>2, <4>3
            <3> QED BY <1>4, <2>3, <3>1 DEF Merged
        <2> QED BY <1>5, <2>1, <2>2, <2>3 DEF NestedKept
    <1>10. PassesDone(d)
        <2>1. Of(d.arg, {"other"}) = {}
            BY <1>4, <1>5 DEF PassesDone
        <2>2. Of(d.hash, {"other"}) = {}
            BY <1>3, <1>4, <1>5, <1>6 DEF PassesDone, Of
        <2>3. ASSUME NEW k \in Of(d.hash, {"array"}) PROVE FromBelow(d.arg, k)
            <3>1. k \in DOMAIN d.hash /\ d.hash[k].kind = "array"
                BY DEF Of
            <3>2. CASE k \in DOMAIN c.hash
                <4>1. k \in Of(c.hash, {"array"})
                    BY <1>3, <1>4, <3>1, <3>2 DEF Of
                <4> QED BY <1>4, <1>5, <4>1 DEF PassesDone
            <3>3. CASE k \notin DOMAIN c.hash
                BY <1>6, <3>1, <3>3
            <3> QED BY <3>2, <3>3
        <2>4. \A k \in DOMAIN d.final : k \in Of(d.arg, {"array"})
            BY <1>4, <1>5 DEF PassesDone
        <2> QED BY <1>4, <2>1, <2>2, <2>3, <2>4 DEF PassesDone
    <1> QED BY <1>4, <1>7, <1>8, <1>9, <1>10 DEF CallInv, d

\* A call whose hash is empty has flattened its argument.
LEMMA CallReturns ==
    ASSUME NEW c \in Calls, CallInv(c, FALSE), c.at = "until", c.hash = NoEntries
    PROVE  /\ Flattens(c.final, c.arg) /\ Refused(c.arg) = {}
           /\ \A k \in DOMAIN c.final : c.final[k].kind \in {"array", "scalar"}
    <1>1. Told(c) /\ UpperKept(c) /\ NestedKept(c, FALSE) /\ PassesDone(c)
        BY DEF CallInv
    <1>2. DOMAIN c.hash = {} /\ c.arg \in Settings /\ c.passes \in Nat
        BY DEF NoEntries, Calls
    <1>3. Of(c.arg, {"other"}) = {}
        BY <1>1, <1>2 DEF PassesDone, Call, Of
    <1>4. \A k \in Of(c.arg, {"array", "scalar"}) : k \in DOMAIN c.final /\ c.final[k] = c.arg[k]
        BY <1>1, <1>2 DEF UpperKept
    <1>5. \A n \in Of(c.arg, {"hash"}) : Merged(c, n)
        BY <1>1, <1>2 DEF NestedKept
    <1>6. \A k, v : Entry(k, v).key = k /\ Entry(k, v).value = v
        BY DEF Entry
    <1>7. ASSUME NEW e \in Leaves(c.arg)
          PROVE  e.key \in DOMAIN c.final \cup HashNames(c.arg) /\ e.value.kind # "other"
        <2>1. CASE \E k \in DOMAIN c.arg : c.arg[k].kind # "hash" /\ e = Entry(k, c.arg[k])
            <3>1. PICK k \in DOMAIN c.arg : c.arg[k].kind # "hash" /\ e = Entry(k, c.arg[k])
                BY <2>1
            <3>2. c.arg[k].kind \in {"array", "hash", "scalar", "other"}
                BY <1>2, SettingsAssumption
            <3>3. c.arg[k].kind # "other" /\ k \in Of(c.arg, {"array", "scalar"})
                BY <1>3, <3>1, <3>2 DEF Of
            <3> QED BY <1>4, <1>6, <3>1, <3>3
        <2>2. CASE \E n \in Of(c.arg, {"hash"}) : \E d \in Leaves(c.arg[n].hash) :
                       e = Entry(n \o d.key, d.value)
            <3>1. PICK n \in Of(c.arg, {"hash"}) : \E d \in Leaves(c.arg[n].hash) :
                       e = Entry(n \o d.key, d.value)
                BY <2>2
            <3>2. PICK d \in Leaves(c.arg[n].hash) : e = Entry(n \o d.key, d.value)
                BY <3>1
            <3>3. n \o d.key \in DOMAIN c.final \cup HashNames(c.arg) /\ d.value.kind # "other"
                BY <1>2, <1>5 DEF Merged, Refused
            <3> QED BY <1>6, <3>2, <3>3
        <2> QED BY <1>2, <2>1, <2>2, LeavesOf
    <1>8. Refused(c.arg) = {}
        BY <1>7 DEF Refused
    <1>9. Flattens(c.final, c.arg)
        BY <1>1, <1>4, <1>7 DEF Flattens, LeafNames, Told
    <1> QED BY <1>1, <1>8, <1>9 DEF Told

-----------------------------------------------------------------------------
(* The stack of calls.                                                     *)

LEMMA FlattenInit == CMakeFlattenInit => FlattenInv
    <1> SUFFICES ASSUME CMakeFlattenInit
                 PROVE  FlattenInv
        OBVIOUS
    <1>1. PICK h \in Inputs : calls = <<Call(h)>>
        BY DEF CMakeFlattenInit
    <1>2. h \in Settings
        BY SettingsAssumption
    <1>3. Call(h) \in Calls /\ CallInv(Call(h), FALSE)
        BY <1>2, CallStarts
    <1>4. Len(calls) = 1 /\ calls[1] = Call(h) /\ DOMAIN calls = {1} /\ calls \in Seq(Calls)
          /\ calls # << >>
        BY <1>1, <1>3
    <1>5. status = "looping"
        BY DEF CMakeFlattenInit
    <1>6. ASSUME NEW i \in DOMAIN calls
          PROVE  /\ CallInv(calls[i], i < Inner) /\ ~(i < Inner)
                 /\ Refused(calls[i].arg) # {} => Refused(calls[1].arg) # {}
        <2>1. i = 1 /\ (i < Inner) = FALSE
            BY <1>4 DEF Inner
        <2>2. CallInv(calls[i], FALSE)
            BY <1>3, <1>4, <2>1
        <2> QED BY <2>1, <2>2
    <1> QED BY <1>4, <1>5, <1>6 DEF FlattenInv, CMakeFlattenTypeOK, Ended

\* What is known of the calls, one by one.
LEMMA StackFacts ==
    ASSUME FlattenInv
    PROVE  /\ Inner \in Nat /\ Inner >= 1 /\ calls \in Seq(Calls) /\ DOMAIN calls = 1..Inner
           /\ Now \in Calls /\ Now.arg \in Settings /\ CallInv(Now, FALSE)
           /\ Refused(Now.arg) # {} => Refused(calls[1].arg) # {}
           /\ \A i \in 1..Inner :
                 /\ calls[i] \in Calls /\ CallInv(calls[i], i < Inner)
                 /\ i < Inner => Waits(calls[i], calls[i + 1])
                 /\ Refused(calls[i].arg) # {} => Refused(calls[1].arg) # {}
    <1>1. calls \in Seq(Calls) /\ calls # << >>
        BY DEF FlattenInv, CMakeFlattenTypeOK
    <1>2. Inner \in Nat /\ Inner >= 1 /\ DOMAIN calls = 1..Inner
        BY <1>1 DEF Inner
    <1>3. \A i \in 1..Inner : calls[i] \in Calls
        BY <1>1, <1>2
    <1>4. \A i \in 1..Inner :
                 /\ CallInv(calls[i], i < Inner)
                 /\ i < Inner => Waits(calls[i], calls[i + 1])
                 /\ Refused(calls[i].arg) # {} => Refused(calls[1].arg) # {}
        BY <1>2 DEF FlattenInv
    <1>5. Inner \in 1..Inner /\ (Inner < Inner) = FALSE
        BY <1>2
    <1>6. CallInv(Now, FALSE)
        BY <1>4, <1>5 DEF Now
    <1>7. Now \in Calls /\ Now.arg \in Settings
        BY <1>3, <1>5 DEF Now, Calls
    <1>8. Refused(Now.arg) # {} => Refused(calls[1].arg) # {}
        BY <1>4, <1>5 DEF Now
    <1> QED BY <1>1, <1>2, <1>3, <1>4, <1>6, <1>7, <1>8

\* The innermost call has gone a part of its pass.
LEMMA InnerMoves ==
    ASSUME FlattenInv, status = "looping", status' = status,
           NEW d \in Calls, d.arg = Now.arg, CallInv(d, FALSE), calls' = [calls EXCEPT ![Inner] = d]
    PROVE  FlattenInv'
    <1>1. /\ Inner \in Nat /\ Inner >= 1 /\ calls \in Seq(Calls) /\ DOMAIN calls = 1..Inner
          /\ \A i \in 1..Inner :
                 /\ calls[i] \in Calls /\ CallInv(calls[i], i < Inner)
                 /\ i < Inner => Waits(calls[i], calls[i + 1])
                 /\ Refused(calls[i].arg) # {} => Refused(calls[1].arg) # {}
        BY StackFacts
    <1>2. calls' \in Seq(Calls) /\ Len(calls') = Inner /\ DOMAIN calls' = 1..Inner /\ calls' # << >>
        BY <1>1 DEF Inner
    <1>3. calls'[Inner] = d /\ \A i \in 1..Inner : i # Inner => calls'[i] = calls[i]
        BY <1>1
    <1>4. \A i \in 1..Inner : calls'[i].arg = calls[i].arg
        BY <1>3 DEF Now
    <1>5. ASSUME NEW i \in 1..Inner
          PROVE  /\ CallInv(calls'[i], i < Inner)
                 /\ i < Inner => Waits(calls'[i], calls'[i + 1])
                 /\ Refused(calls'[i].arg) # {} => Refused(calls'[1].arg) # {}
        <2>1. CASE i = Inner
            <3>1. (i < Inner) = FALSE
                BY <1>1, <2>1
            <3>2. CallInv(calls'[i], FALSE)
                BY <1>3, <2>1
            <3>3. CallInv(calls'[i], i < Inner)
                BY <3>1, <3>2
            <3>4. Refused(calls'[i].arg) # {} => Refused(calls'[1].arg) # {}
                <4>1. 1 \in 1..Inner
                    BY <1>1
                <4> QED BY <1>1, <1>4, <4>1
            <3> QED BY <3>1, <3>3, <3>4
        <2>2. CASE i # Inner
            <3>1. i < Inner /\ i + 1 \in 1..Inner /\ 1 \in 1..Inner
                BY <1>1, <2>2
            <3>2. calls'[i] = calls[i]
                BY <1>3, <2>2
            <3>3. Waits(calls'[i], calls'[i + 1])
                BY <1>1, <1>4, <3>1, <3>2 DEF Waits
            <3>4. CallInv(calls'[i], i < Inner)
                BY <1>1, <3>2
            <3>5. Refused(calls'[i].arg) # {} => Refused(calls'[1].arg) # {}
                BY <1>1, <1>4, <3>1
            <3> QED BY <3>3, <3>4, <3>5
        <2> QED BY <2>1, <2>2
    <1>6. Inner' = Inner
        BY <1>2 DEF Inner
    <1> QED BY <1>2, <1>5, <1>6 DEF FlattenInv, CMakeFlattenTypeOK, Ended

LEMMA NestedStep ==
    ASSUME FlattenInv, NEW k, Nested(k)
    PROVE  FlattenInv'
    <1> DEFINE d == TakeHash(Now, k)
               h == Now.hash[k].hash
    <1>1. /\ Inner \in Nat /\ Inner >= 1 /\ calls \in Seq(Calls) /\ DOMAIN calls = 1..Inner
          /\ Now \in Calls /\ Now.arg \in Settings /\ CallInv(Now, FALSE)
          /\ Refused(Now.arg) # {} => Refused(calls[1].arg) # {}
          /\ \A i \in 1..Inner :
                 /\ calls[i] \in Calls /\ CallInv(calls[i], i < Inner)
                 /\ i < Inner => Waits(calls[i], calls[i + 1])
                 /\ Refused(calls[i].arg) # {} => Refused(calls[1].arg) # {}
        BY StackFacts
    <1>2. /\ status = "looping" /\ Now.at = "hashes" /\ k \in Of(Now.hash, {"hash"})
          /\ calls' = Append([calls EXCEPT ![Inner] = d], Call(h)) /\ status' = status
        BY <1>1 DEF Nested, Looping, Now, Inner
    <1>3. /\ d \in Calls /\ d.arg = Now.arg /\ CallInv(d, TRUE) /\ d.at = "hashes" /\ d.passes = 1
          /\ d.key = k /\ k \in Of(Now.arg, {"hash"}) /\ h = Now.arg[k].hash
        BY <1>1, <1>2, HashKeeps
    <1>4. h \in Settings
        BY <1>1, <1>3, SettingsType
    <1>5. Call(h) \in Calls /\ CallInv(Call(h), FALSE) /\ Call(h).arg = h
        BY <1>4, CallStarts DEF Call
    <1> HIDE DEF d, h
    <1>6. /\ calls' \in Seq(Calls) /\ Len(calls') = Inner + 1 /\ calls' # << >>
          /\ DOMAIN calls' = 1..(Inner + 1)
          /\ calls'[Inner + 1] = Call(h) /\ calls'[Inner] = d
          /\ \A i \in 1..Inner : i # Inner => calls'[i] = calls[i]
        <2> DEFINE s == [calls EXCEPT ![Inner] = d]
        <2>1. s \in Seq(Calls) /\ Len(s) = Len(calls)
            BY <1>1, <1>3
        <2>2. s[Inner] = d /\ \A i \in 1..Inner : i # Inner => s[i] = calls[i]
            BY <1>1
        <2>3. calls' = Append(s, Call(h))
            BY <1>2
        <2>4. Len(s) = Inner
            BY <2>1 DEF Inner
        <2> HIDE DEF s
        <2> QED BY <1>1, <1>5, <2>1, <2>2, <2>3, <2>4
    <1>7. \A i \in 1..Inner : calls'[i].arg = calls[i].arg
        BY <1>3, <1>6 DEF Now
    <1>8. ASSUME NEW i \in 1..(Inner + 1)
          PROVE  /\ CallInv(calls'[i], i < Inner + 1)
                 /\ i < Inner + 1 => Waits(calls'[i], calls'[i + 1])
                 /\ Refused(calls'[i].arg) # {} => Refused(calls'[1].arg) # {}
        <2>0. 1 \in 1..Inner
            BY <1>1
        <2>1. CASE i = Inner + 1
            <3>1. (i < Inner + 1) = FALSE
                BY <1>1, <2>1
            <3>2. Refused(h) # {} => Refused(Now.arg) # {}
                BY <1>1, <1>3, RefusedAbove
            <3>3. CallInv(calls'[i], i < Inner + 1)
                BY <1>5, <1>6, <2>1, <3>1
            <3>4. Refused(calls'[i].arg) # {} => Refused(calls'[1].arg) # {}
                BY <1>1, <1>5, <1>6, <1>7, <2>0, <2>1, <3>2
            <3> QED BY <3>1, <3>3, <3>4
        <2>2. CASE i = Inner
            <3>1. (i < Inner + 1) = TRUE
                BY <1>1, <2>2
            <3>2. Waits(d, Call(h))
                BY <1>3, <1>5 DEF Waits
            <3>3. CallInv(calls'[i], i < Inner + 1)
                BY <1>3, <1>6, <2>2, <3>1
            <3>4. Refused(calls'[i].arg) # {} => Refused(calls'[1].arg) # {}
                BY <1>1, <1>3, <1>6, <1>7, <2>0, <2>2
            <3> QED BY <1>6, <2>2, <3>2, <3>3, <3>4
        <2>3. CASE i < Inner
            <3>1. i \in 1..Inner /\ i + 1 \in 1..Inner /\ (i < Inner + 1) = TRUE /\ (i < Inner) = TRUE
                BY <1>1, <2>3
            <3>2. calls'[i] = calls[i]
                BY <1>6, <2>3, <3>1
            <3>3. Waits(calls'[i], calls'[i + 1])
                BY <1>1, <1>7, <2>3, <3>1, <3>2 DEF Waits
            <3>4. CallInv(calls'[i], TRUE)
                <4>1. CallInv(calls[i], i < Inner)
                    BY <1>1, <3>1
                <4> QED BY <3>1, <3>2, <4>1
            <3> QED BY <1>1, <1>7, <2>0, <3>1, <3>3, <3>4
        <2> QED BY <1>1, <2>1, <2>2, <2>3
    <1>9. Inner' = Inner + 1
        BY <1>6 DEF Inner
    <1> QED BY <1>2, <1>6, <1>8, <1>9 DEF FlattenInv, CMakeFlattenTypeOK, Ended

LEMMA ReturnStep ==
    ASSUME FlattenInv, Return
    PROVE  FlattenInv'
    <1> DEFINE n == Inner - 1
               c == calls[n]
               d == MergeFlat(c, Now.final)
    <1>1. /\ Inner \in Nat /\ Inner >= 1 /\ calls \in Seq(Calls) /\ DOMAIN calls = 1..Inner
          /\ Now \in Calls /\ CallInv(Now, FALSE)
          /\ \A i \in 1..Inner :
                 /\ calls[i] \in Calls /\ CallInv(calls[i], i < Inner)
                 /\ i < Inner => Waits(calls[i], calls[i + 1])
                 /\ Refused(calls[i].arg) # {} => Refused(calls[1].arg) # {}
        BY StackFacts
    <1>2. /\ status = "looping" /\ status' = status /\ Inner > 1
          /\ Now.at = "until" /\ Now.hash = NoEntries
          /\ calls' = [i \in 1..n |-> IF i = n THEN MergeFlat(calls[i], Now.final) ELSE calls[i]]
        BY DEF Return, Looping
    <1>3. n \in 1..Inner /\ n + 1 = Inner /\ n \in Nat /\ n >= 1 /\ (n < Inner) = TRUE
        BY <1>1, <1>2
    <1>4. /\ Flattens(Now.final, Now.arg) /\ Refused(Now.arg) = {}
          /\ \A k \in DOMAIN Now.final : Now.final[k].kind \in {"array", "scalar"}
        BY <1>1, <1>2, CallReturns
    <1>5. c \in Calls /\ CallInv(c, TRUE) /\ Waits(c, Now)
        <2>1. CallInv(c, n < Inner) /\ Waits(c, calls[n + 1]) /\ c \in Calls
            BY <1>1, <1>3
        <2> HIDE DEF n, c
        <2> QED BY <1>3, <2>1 DEF Now
    <1>6. Now.final \in Tables
        BY <1>1 DEF Calls
    <1> HIDE DEF n, c
    <1>7. d \in Calls /\ d.arg = c.arg /\ CallInv(d, FALSE)
        BY <1>4, <1>5, <1>6, FlatKeeps DEF Waits
    <1> HIDE DEF d
    <1>8. /\ calls'[n] = d /\ \A i \in 1..n : i # n => calls'[i] = calls[i]
          /\ calls' \in Seq(Calls) /\ Len(calls') = n /\ DOMAIN calls' = 1..n /\ calls' # << >>
        <2>1. \A i \in 1..n : i \in 1..Inner
            BY <1>1, <1>3
        <2>2. \A i \in 1..n : calls'[i] = IF i = n THEN d ELSE calls[i]
            BY <1>2 DEF d, c
        <2>3. \A i \in 1..n : calls'[i] \in Calls
            BY <1>1, <1>7, <2>1, <2>2
        <2>4. calls' = [i \in 1..n |-> calls'[i]]
            BY <1>2
        <2>5. calls' \in Seq(Calls) /\ Len(calls') = n /\ DOMAIN calls' = 1..n
            BY <1>3, <2>3, <2>4
        <2> QED BY <1>3, <2>2, <2>5
    <1>9. \A i \in 1..n : calls'[i].arg = calls[i].arg
        BY <1>7, <1>8 DEF c
    <1>10. ASSUME NEW i \in 1..n
           PROVE  /\ CallInv(calls'[i], i < n)
                  /\ i < n => Waits(calls'[i], calls'[i + 1])
                  /\ Refused(calls'[i].arg) # {} => Refused(calls'[1].arg) # {}
        <2>1. i \in 1..Inner /\ 1 \in 1..n /\ (i < Inner) = TRUE
            BY <1>1, <1>3
        <2>2. Refused(calls'[i].arg) # {} => Refused(calls'[1].arg) # {}
            BY <1>1, <1>9, <2>1
        <2>3. CASE i = n
            <3>1. (i < n) = FALSE
                BY <1>3, <2>3
            <3> QED BY <1>7, <1>8, <2>2, <2>3, <3>1
        <2>4. CASE i # n
            <3>1. i + 1 \in 1..n /\ (i < n) = TRUE
                BY <1>3, <2>4
            <3>2. calls'[i] = calls[i] /\ calls'[i + 1].arg = calls[i + 1].arg
                BY <1>8, <1>9, <2>4, <3>1
            <3>3. Waits(calls[i], calls[i + 1]) /\ CallInv(calls[i], i < Inner)
                BY <1>1, <2>1
            <3>4. CallInv(calls'[i], TRUE)
                BY <2>1, <3>2, <3>3
            <3> QED BY <2>2, <3>1, <3>2, <3>3, <3>4 DEF Waits
        <2> QED BY <2>3, <2>4
    <1>11. Inner' = n
        BY <1>8 DEF Inner
    <1> QED BY <1>2, <1>8, <1>10, <1>11 DEF FlattenInv, CMakeFlattenTypeOK, Ended

\* No step of a call breaks the invariant.
LEMMA FlattenStep ==
    ASSUME FlattenInv, [CMakeFlattenNext]_cmakeFlattenVars
    PROVE  FlattenInv'
    <1>1. /\ Inner \in Nat /\ Inner >= 1 /\ DOMAIN calls = 1..Inner
          /\ Now \in Calls /\ Now.arg \in Settings /\ CallInv(Now, FALSE)
          /\ Refused(Now.arg) # {} => Refused(calls[1].arg) # {}
        BY StackFacts
    <1>2. CASE Arrays
        <2> DEFINE d == TakeArrays(Now)
        <2>1. status = "looping" /\ status' = status /\ calls' = [calls EXCEPT ![Inner] = d]
            BY <1>1, <1>2 DEF Arrays, Looping, Now
        <2>2. d \in Calls /\ d.arg = Now.arg
            BY <1>1, ArraysTaken
        <2>3. CallInv(d, FALSE)
            BY <1>1, <1>2, ArraysKeep DEF Arrays, Looping, Unrecognized
        <2> HIDE DEF d
        <2> QED BY <2>1, <2>2, <2>3, InnerMoves
    <1>3. CASE Raise
        <2>1. PICK k : k \in DOMAIN Now.hash /\ Now.hash[k].kind = "other"
            BY <1>3 DEF Raise, Unrecognized, Of
        <2>2. Entry(k, Now.hash[k]) \in Leaves(Now.arg)
            BY <1>1, <2>1 DEF CallInv, Told, Of
        <2>3. Entry(k, Now.hash[k]).value = Now.hash[k]
            BY DEF Entry
        <2>4. Refused(Now.arg) # {}
            BY <2>1, <2>2, <2>3 DEF Refused
        <2> QED BY <1>1, <1>3, <2>4 DEF Raise, FlattenInv, CMakeFlattenTypeOK, Ended, Inner, Now
    <1>4. CASE Scalars
        <2> DEFINE d == TakeScalars(Now)
        <2>1. status = "looping" /\ status' = status /\ calls' = [calls EXCEPT ![Inner] = d]
            BY <1>1, <1>4 DEF Scalars, Looping, Now
        <2>2. d \in Calls /\ d.arg = Now.arg
            BY <1>1, ScalarsTaken
        <2>3. CallInv(d, FALSE)
            BY <1>1, <1>4, ScalarsKeep DEF Scalars, Looping
        <2> HIDE DEF d
        <2> QED BY <2>1, <2>2, <2>3, InnerMoves
    <1>5. CASE Return
        BY <1>5, ReturnStep
    <1>6. CASE Finish
        BY <1>6 DEF Finish, Looping, FlattenInv, CMakeFlattenTypeOK, Ended, Inner, Now
    <1>7. ASSUME NEW k \in DOMAIN Now.hash, Nested(k)
          PROVE  FlattenInv'
        BY <1>7, NestedStep
    <1>8. CASE UNCHANGED cmakeFlattenVars
        BY <1>8 DEF cmakeFlattenVars, FlattenInv, CMakeFlattenTypeOK, Ended, Inner, Now
    <1> QED BY <1>2, <1>3, <1>4, <1>5, <1>6, <1>7, <1>8 DEF CMakeFlattenNext

LEMMA FlattenInvariant == CMakeFlattenSpec => []FlattenInv
    BY FlattenInit, FlattenStep, PTL DEF CMakeFlattenSpec

\* A call has the shape the method gives it (cmake_flatten_hash).
THEOREM FlattenTypeCorrect == CMakeFlattenSpec => []CMakeFlattenTypeOK
    BY FlattenInvariant, PTL DEF FlattenInv

\* For settings nested to any depth and flattened in any order: cmake is told every setting
\* under its joined name, an upper one before a nested one, or the method raises, exactly when
\* a value cannot be told (cmake_flatten_hash, cmake.rb:73-131).
THEOREM SettingsReachCMake == CMakeFlattenSpec => []FinalIsFlattening
    <1>1. FlattenInv => FinalIsFlattening
        <2> SUFFICES ASSUME FlattenInv
                     PROVE  FinalIsFlattening
            OBVIOUS
        <2>1. ASSUME status = "done"
              PROVE  Flattens(calls[1].final, calls[1].arg) /\ Refused(calls[1].arg) = {}
            <3>1. Inner = 1 /\ Now.at = "until" /\ Now.hash = NoEntries
                BY <2>1 DEF FlattenInv, Ended
            <3>2. Now \in Calls /\ CallInv(Now, FALSE)
                BY StackFacts
            <3>3. Flattens(Now.final, Now.arg) /\ Refused(Now.arg) = {}
                BY <3>1, <3>2, CallReturns
            <3> QED BY <3>1, <3>3 DEF Now
        <2> QED BY <2>1 DEF FinalIsFlattening, FlattenInv, Ended
    <1> QED BY <1>1, FlattenInvariant, PTL

\* No call of any depth goes round a third time, except over two arrays of one name
\* (cmake.rb:76, :86-91).
THEOREM TwoPassesSuffice == CMakeFlattenSpec => []AtMostTwoPasses
    <1>1. FlattenInv => AtMostTwoPasses
        <2> SUFFICES ASSUME FlattenInv, NEW i \in DOMAIN calls
                     PROVE  calls[i].passes <= 2 \/ ArraysClash(calls[i].arg)
            BY DEF AtMostTwoPasses
        <2>1. calls[i] \in Calls /\ CallInv(calls[i], i < Inner)
            BY StackFacts
        <2>2. calls[i].passes \in Nat /\ (calls[i].passes > 2 => ArraysClash(calls[i].arg))
            BY <2>1 DEF Calls, CallInv, PassesDone
        <2> QED BY <2>2
    <1> QED BY <1>1, FlattenInvariant, PTL

=============================================================================
