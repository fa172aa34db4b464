------------------------------ MODULE Releases ------------------------------
(***************************************************************************)
(* Which release of SimpleBLE (or of Boost) extconf.rb builds against      *)
(* (lib/ruble/build/github_repo.rb): up to three requests to GitHub, each  *)
(* of whose answers is memoized, while people go on publishing, editing    *)
(* and removing releases and moving tags.                                  *)
(***************************************************************************)
EXTENDS Integers, FiniteSets

CONSTANTS
    Ids,           \* ids of releases; a newer one has a greater id
    Versions,      \* what a release may be: its kind, tag and matching asset
    Tags, Commits,
    Default, Latest,
    Requests,      \* values of --with-simpleble-release
    LibraryKeys,   \* keys of the gemspec's metadata, with the tags they name
    ClassKey,      \* the key made from the name of the class
    None,
    MaxChanges     \* bound on what happens on the server

\* Ids are numbers of a fixed width: there is a greatest.
ASSUME IdsAssumption ==
    /\ Ids \subseteq Nat /\ IsFiniteSet(Ids)
    /\ None \notin Versions /\ None \notin Ids
ASSUME VersionsAssumption ==
    \A v \in Versions : v.kind \in {"stable", "prerelease", "draft"} /\ v.tag \in Tags

\* The gemspec names tags, like v0.6.1, and no numbers.
ASSUME LibraryKeysAssumption == \A key \in DOMAIN LibraryKeys : LibraryKeys[key] \notin Ids

VARIABLES
    releases,    \* on the server: a version for each id, None if there is none
    commits,     \* on the server: the commit of each tag
    requested, debug,
    step, tag,   \* the next step, and what release() will ask for
    release,     \* memoized: the release
    commit_hash, \* memoized
    built,       \* config_data: None, or what cmake is told
    ever,        \* history: every version a release has had
    changes

client == <<requested, debug, step, tag, release, commit_hash, built>>
server == <<releases, commits, ever, changes>>
releasesVars == <<client, server>>

ReleasesInit ==
    /\ releases \in [Ids -> Versions \cup {None}] /\ commits \in [Tags -> Commits]
    /\ requested \in Requests /\ debug \in BOOLEAN
    /\ step = "tag" /\ tag = None /\ release = None /\ commit_hash = None /\ built = None
    /\ ever = {<<i, releases[i]>> : i \in {j \in Ids : releases[j] # None}} /\ changes = 0

-----------------------------------------------------------------------------

Stable == {i \in Ids : releases[i] # None /\ releases[i].kind = "stable"}
Newest(S) == CHOOSE i \in S : \A j \in S : j <= i

\* The first release listed that is neither a draft nor a pre-release; detect finds none.
latest_release == IF Stable = {} THEN None ELSE Newest(Stable)

tag_from_gemspec == IF ClassKey \in DOMAIN LibraryKeys THEN LibraryKeys[ClassKey] ELSE None

Raised == step' = "raised" /\ UNCHANGED <<requested, debug, tag, release, commit_hash, built, server>>

\* release(), up to the request; finding nothing raises.
ChooseTag ==
    /\ step = "tag"
    /\ LET chosen == IF requested # Default THEN requested
                     ELSE IF debug THEN latest_release ELSE tag_from_gemspec
       IN  IF chosen = None THEN Raised
           ELSE /\ tag' = chosen /\ step' = "release"
                /\ UNCHANGED <<requested, debug, release, commit_hash, built, server>>

\* GET releases/TAG: GitHub knows ids and `latest'.
Found == IF tag = Latest THEN latest_release
         ELSE IF tag \in Ids /\ releases[tag] # None THEN tag ELSE None

GetRelease ==
    /\ step = "release"
    /\ IF Found = None THEN Raised
       ELSE /\ release' = [id |-> Found, is |-> releases[Found]] /\ step' = "asset"
            /\ UNCHANGED <<requested, debug, tag, commit_hash, built, server>>

\* assets.fetch(asset_filename)
MatchingAsset ==
    /\ step = "asset"
    /\ IF release.is.asset = None THEN Raised
       ELSE step' = "commit" /\ UNCHANGED <<requested, debug, tag, release, commit_hash, built, server>>

GetCommit ==
    /\ step = "commit" /\ commit_hash' = commits[release.is.tag] /\ step' = "config"
    /\ UNCHANGED <<requested, debug, tag, release, built, server>>

Config(id, is) ==
    /\ step = "config" /\ step' = "done"
    /\ built' = [id |-> id, tag |-> release.is.tag, asset |-> is.asset, commit |-> commit_hash]
    /\ UNCHANGED <<requested, debug, tag, release, commit_hash, server>>

\* Mutant: the release is asked for again when the asset is.
ConfigDataUnmemoized == Config(release.id, IF releases[release.id] = None THEN release.is ELSE releases[release.id])

config_data == Config(release.id, release.is)

\* A request fails however often it is repeated.
RequestFails ==
    /\ step \in {"release", "commit"} \/ (step = "tag" /\ requested = Default /\ debug)
    /\ Raised

Change ==
    /\ changes < MaxChanges /\ changes' = changes + 1
    /\ \/ \E i \in Ids, v \in Versions \cup {None} :
             /\ releases' = [releases EXCEPT ![i] = v]
             /\ ever' = ever \cup {<<i, v>>} /\ UNCHANGED commits
       \/ \E t \in Tags, c \in Commits :
             commits' = [commits EXCEPT ![t] = c] /\ UNCHANGED <<releases, ever>>
    /\ UNCHANGED client

ReleasesNext == ChooseTag \/ GetRelease \/ MatchingAsset \/ GetCommit \/ config_data \/ RequestFails \/ Change

ReleasesSpec == ReleasesInit /\ [][ReleasesNext]_releasesVars

-----------------------------------------------------------------------------
(* Properties.                                                             *)

\* The tag and the asset that cmake is told of belong together: one release had both at one
\* time, although it may be edited between the requests (memoize release, github_repo.rb:45-50);
\* and where no release was asked for, it was at some time published as stable
\* (latest_release, :37-43).
OneRelease ==
    built # None =>
        LET versions == {e[2] : e \in {x \in ever : x[1] = built.id /\ x[2] # None}}
        IN  /\ \E v \in versions : v.tag = built.tag /\ v.asset = built.asset
            /\ requested = Default => \E v \in versions : v.kind = "stable"

=============================================================================
