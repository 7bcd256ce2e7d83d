----------------------------- MODULE MCDriftPolicy ----------------------------
(* DriftPolicy on a job of two groups, one of which may be autoscaled.     *)
EXTENDS DriftPolicy

At(level, group, path, name) == [level |-> level, group |-> group, path |-> path, name |-> name]

MCPlace ==
    [managed |-> At("job", "", <<"Meta">>, "gitops_managed"),
     policy  |-> At("job", "", <<>>, "Meta[gitops_update_policy]"),
     image   |-> At("task", "web", <<"Config">>, "Image"),
     memory  |-> At("task", "web", <<"Resources">>, "MemoryMB"),
     deep    |-> At("group", "web", <<"Service", "Sidecar", "Config">>, "image"),
     scaling |-> At("group", "web", <<"Scaling">>, "Enabled"),
     count   |-> At("group", "web", <<>>, "Count"),
     plain   |-> At("group", "cron", <<>>, "Count")]

MCOwner ==
    [managed |-> "meta", policy |-> "meta", image |-> "image", memory |-> "git",
     deep |-> "git", scaling |-> "scaling", count |-> "count", plain |-> "count"]

MCLeaves == DOMAIN MCPlace

Base == [l \in MCLeaves |-> CASE l = "managed" -> "true" [] l = "policy" -> "full"
                              [] l = "scaling" -> "off" [] OTHER -> "a"]

Under(policy, spec) == [spec EXCEPT !["policy"] = policy]
Unmanaged(spec) == [spec EXCEPT !["managed"] = "unset"]
Scaled == [Base EXCEPT !["scaling"] = "on"]
But(leaf, spec) == [spec EXCEPT ![leaf] = "b"]

Conf == [default |-> "none", glob |-> FALSE, existing |-> FALSE,
         metaOnly |-> FALSE, create |-> FALSE, includeDead |-> FALSE]

Calm == [files |-> {Base}, runs |-> {Base}, counts |-> {"a", "b"}, lives |-> {Base},
         commits |-> 3, edits |-> 1, restarts |-> 0]

With(flags, bounds) == [conf |-> flags, limit |-> bounds]

\* The tag and wider policies come to a job that differs from its file.
WiderScope ==
    LET f == But("memory", Base)
    IN  With(Conf, [Calm EXCEPT
            !.files = {Unmanaged(f), f, Under("image-only", f),
                       Under("image-only", But("image", f))},
            !.runs = {But("image", Base)}])

\* Images and other changes under policy image-only.
Images ==
    LET f == Under("image-only", Base)
    IN  With(Conf, [Calm EXCEPT
            !.files = {f, But("image", f), But("deep", But("image", f))},
            !.runs = {But("memory", Base)}])

\* An autoscaled group beside one that is not, and an autoscaler.
Autoscaled ==
    With(Conf, [Calm EXCEPT
        !.files = {Base, But("memory", Scaled), But("plain", Scaled)},
        !.lives = {Scaled}, !.commits = 2, !.edits = 2])

\* A job that is stopped, and started again, while it is updated.
Stops(includeDead, create) ==
    With([Conf EXCEPT !.includeDead = includeDead, !.create = create],
         [Calm EXCEPT !.files = {Base, But("memory", Base)}, !.commits = 2, !.edits = 2])

\* A file that comes and goes, of a job that may not run.
Creation ==
    With([Conf EXCEPT !.glob = TRUE, !.create = TRUE],
         [Calm EXCEPT !.files = {Absent, Base, Under("image-only", Base)},
                      !.lives = {Absent, Base}, !.restarts = 1])

\* The policy by default, and changes of nothing but the keys.
Keys(metaOnly) ==
    With([Conf EXCEPT !.default = "image-only", !.metaOnly = metaOnly, !.existing = TRUE],
         [Calm EXCEPT !.files = {Under("unset", But("image", Base)), Under("full", Base),
                                 Under("odd", But("image", Base))},
                      !.edits = 0, !.restarts = 1])

PolicySettings ==
    {WiderScope, Images, Autoscaled, Creation}
    \cup {Stops(includeDead, create) : includeDead, create \in BOOLEAN}
    \cup {Keys(metaOnly) : metaOnly \in BOOLEAN}

\* Nobody but the branch changes anything.
CountSettings == {With(Conf, [Calm EXCEPT !.files = {Scaled, But("plain", Scaled)},
                                          !.lives = {Scaled}, !.edits = 0])}
===============================================================================
