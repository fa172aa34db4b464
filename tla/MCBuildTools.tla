---------------------------- MODULE MCBuildTools ----------------------------
(***************************************************************************)
(* For TLC: the Ruby programs that build the extension, one of them in     *)
(* each behaviour.  They share no state that the models keep.              *)
(*                                                                         *)
(*   - the developer tasks, over three contents of the watched files;      *)
(*   - cmake_flatten_hash, of hashes of three levels over the keys "a",    *)
(*     "a_b", "b", below "b", "b_a", and below "a";                        *)
(*   - the choice between two releases that change twice.                  *)
(***************************************************************************)
EXTENDS DevBuild, CMakeFlatten, Releases

Scalar(x) == [kind |-> "scalar", of |-> x]
Array(x) == [kind |-> "array", of |-> x]
Other == [kind |-> "other"]
Hash(h) == [kind |-> "hash", hash |-> h]

\* The hashes of up to two of the keys.
HashesOver(keys, values) ==
    UNION {[K -> values] : K \in {K \in SUBSET keys : Cardinality(K) <= 2}}

Innermost == HashesOver({<<"a">>}, {Array(5)})
Middle == HashesOver({<<"b">>, <<"b", "a">>},
                     {Scalar(3), Array(4), Other} \cup {Hash(h) : h \in Innermost \ {<<>>}})
MCInputs == HashesOver({<<"a">>, <<"a", "b">>, <<"b">>},
                       {Scalar(1), Array(2), Other} \cup {Hash(h) : h \in Middle})

MCSettings == Innermost \cup Middle \cup MCInputs
MCNesting ==
    [h \in MCSettings |-> CASE h \in Innermost -> 0 [] h \in Middle -> 1 [] OTHER -> 2]

CONSTANT V061    \* the tag that ruble.gemspec names

Version(k, t, a) == [kind |-> k, tag |-> t, asset |-> a]
MCVersions ==
    {Version("stable", "v1", "x"), Version("stable", "v2", "y"), Version("prerelease", "v2", "y"),
     Version("draft", "v1", "x"), Version("stable", "v1", None)}

MCRequests == {Default, Latest, 1}

\* The metadata of ruble.gemspec, and "#{self.class.name.downcase}_library_release_tag".
MCLibraryKeys == [k \in {"simpleble_library_release_tag"} |-> V061]
MCClassKey == "ruble::build::simpleble_library_release_tag"

VARIABLE program    \* the one this behaviour follows

Others(p) ==
    /\ UNCHANGED program
    /\ p # "dev_tasks" => UNCHANGED devBuildVars
    /\ p # "cmake_flatten" => UNCHANGED cmakeFlattenVars
    /\ p # "releases" => UNCHANGED releasesVars

\* Values for the programs that are not followed.
ASomething(S) == CHOOSE x \in S : TRUE

MCInit ==
    /\ program \in {"dev_tasks", "cmake_flatten", "releases"}
    /\ DevBuildInit /\ CMakeFlattenInit /\ ReleasesInit
    /\ program # "dev_tasks" => sources = ASomething(Contents)
    /\ program # "cmake_flatten" => calls = <<Call(<<>>)>>
    /\ program # "releases" =>
          /\ releases = [i \in Ids |-> None] /\ commits = [t \in Tags |-> ASomething(Commits)]
          /\ requested = Default /\ ~debug

MCNext ==
    \/ program = "dev_tasks" /\ DevBuildNext /\ Others("dev_tasks")
    \/ program = "cmake_flatten" /\ CMakeFlattenNext /\ Others("cmake_flatten")
    \/ program = "releases" /\ ReleasesNext /\ Others("releases")

MCSpec == MCInit /\ [][MCNext]_<<program, devBuildVars, cmakeFlattenVars, releasesVars>>
=============================================================================
