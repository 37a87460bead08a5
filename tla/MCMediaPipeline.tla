---------------------------- MODULE MCMediaPipeline ----------------------------
(* Small instances of the media modules: a behaviour is about the jobs of a     *)
(* file, about what stands behind them, or about review cases (focus).          *)
(* Jobs: two of them, or one and two runs that overlap, the scheduler's or one *)
(* of an operator with a workerId of his own.                                  *)
EXTENDS MediaPipeline, MediaReview, TLC

CONSTANTS r1, r2, m1, m2

VARIABLES focus, setting, adapters, jobs, worker, served, upload, clock

AllJobs == AllTypes
MCWorkerIds == r1 :> {"scheduler"} @@ r2 :> {"scheduler", "operator"}

(* Providers: what a configuration says of scanners, of moderators, of the     *)
(* CDN, of the storage or of the database, each with a clean and a bad file.   *)
Url(host) == [scheme |-> "https", host |-> host, path |-> <<>>]
Cdn == Url(<<"cdn">>)
Store == Url(<<"store">>)
On(url, name) == [url EXCEPT !.path = <<name>>]
Maybe(key, values) == {<<>>} \cup {key :> v : v \in values}
Both(A, B) == {a @@ b : a \in A, b \in B}
Yes == {"given"}

MCScanners ==
    Both(Maybe("MEDIA_MALWARE_SCAN_PROVIDER", {"clamav", "http", "other"}),
         Both(Maybe("CLAMAV_SCAN_URL", Yes), Maybe("MEDIA_MALWARE_SCAN_ENDPOINT", Yes)))
MCModerators ==
    Both(Both(Maybe("MEDIA_CONTENT_MODERATION_PROVIDER", {"sightengine", "http"}),
              Both(Maybe("SIGHTENGINE_API_USER", Yes), Maybe("SIGHTENGINE_API_SECRET", Yes))),
         Both(Maybe("MEDIA_CONTENT_MODERATION_ENDPOINT", Yes),
              Maybe("MEDIA_CONTENT_MODERATION_THRESHOLD", {0, 70})))
MCCdn ==
    Both(Both({"MEDIA_IMAGE_TRANSFORM_ENDPOINT" :> "given"}, Maybe("MEDIA_CDN_VERIFICATION_PROVIDER", {"off", "live"})),
         Both(Maybe("SPACES_CDN_ENDPOINT", {Cdn, [Cdn EXCEPT !.scheme = "http"]}),
              Maybe("MEDIA_CDN_ALLOWED_ORIGINS", {{Store, Cdn}})))
S3 == "MEDIA_S3_ACCESS_KEY_ID" :> "given" @@ "SPACES_SECRET_KEY" :> "given"
      @@ "MEDIA_S3_BUCKET" :> "media" @@ "MEDIA_S3_ENDPOINT" :> Store
MCStorage ==
    Both(Both({S3, "SPACES_BUCKET" :> "media", [S3 EXCEPT !["MEDIA_S3_ENDPOINT"] = Url(<<"media", "store">>)]},
              Maybe("MEDIA_STORAGE_DRIVER", {"s3", "development"})),
         Both(Both(Maybe("MEDIA_S3_PUBLIC_BASE_URL", {Cdn}), Maybe("SPACES_CDN_ENDPOINT", {Url(<<"other">>)})),
              Both(Maybe("MEDIA_S3_FORCE_PATH_STYLE", {"true"}), Maybe("MEDIA_UPLOAD_URL_TTL_SECONDS", {5, 999999}))))
MCDatabase ==
    Both(Maybe("MEDIA_JOB_QUEUE_DRIVER", {"prisma", "memory", "other"}),
         Both(Maybe("DATABASE_URL", Yes), Maybe("PERSISTENCE_DRIVER", {"live", "memory"})))

File == [kind |-> "IMAGE", infected |-> FALSE, score |-> 30, source |-> On(Cdn, "source"),
         urls |-> <<On(Cdn, "a"), On(Cdn, "b"), On(Cdn, "a")>>]
Infected == [File EXCEPT !.infected = TRUE, !.kind = "VIDEO"]
Offensive == [File EXCEPT !.score = 60]
Sets(configs, types, limit, files) ==
    {[config |-> c, types |-> types, limit |-> limit, file |-> f] : c \in configs, f \in files}
MCSettings ==
    Sets(MCScanners, {"MALWARE_SCAN"}, 1, {File, Infected})
    \cup Sets(MCModerators, {"CONTENT_MODERATION"}, 1, {File, Offensive})
    \cup Sets(MCCdn, {"IMAGE_TRANSFORM"}, 1, {File})
    \cup Sets(MCStorage \cup MCDatabase, {}, 1, {File})
    \cup Sets({"CLAMAV_SCAN_URL" :> "given"}, {"MALWARE_SCAN", "VIDEO_TRANSCODE"}, 2, {Infected})
MCReplies ==
    {[status |-> 200, body |-> b, again |-> FALSE] : b \in {"verdict", "refuses", "fails", "unreadable"}}
    \cup {[status |-> s, body |-> "fails", again |-> s = 200] : s \in {0, 200, 422, 429, 503}}

P == INSTANCE MediaProviders WITH
        Workers <- Runs, Settings <- MCSettings, Replies <- MCReplies, MaxTries <- MaxAttempts,
        MAX_URLS <- 2, RetryAfter <- 1, MaxTime <- 1

(* Review cases: two of them, one of a country without a playbook, which one   *)
(* of the two moderators cannot decide.                                        *)
MCOpened == [c1 |-> [job |-> "MALWARE_SCAN", about |-> "other", country |-> "KE"],
             c2 |-> [job |-> "IMAGE_TRANSFORM", about |-> "child", country |-> "UG"]]
MCReach == m1 :> {"KE", "UG"} @@ m2 :> {"KE"}

providerVars == <<setting, adapters, jobs, worker, served, upload, clock>>
allVars == <<focus, vars, providerVars, reviewVars>>

Ours(A) == /\ A
           /\ \/ focus = "publication" /\ run'[r2] = Idle
              \/ focus = "overlaps" /\ asset'.read = NoAsset

MediaInit ==
    /\ Init /\ ReviewInit
    /\ P!Init
    /\ focus \in {"publication", "overlaps", "providers", "reviews"}
    /\ focus = "providers" \/ setting = CHOOSE s \in MCSettings : TRUE

MediaNext ==
    /\ UNCHANGED focus
    /\ \/ Ours(Next) /\ UNCHANGED <<providerVars, reviewVars>>
       \/ focus = "providers" /\ P!Next /\ UNCHANGED <<vars, reviewVars>>
       \/ focus = "reviews" /\ ReviewNext /\ UNCHANGED <<vars, providerVars>>

MediaSpec ==
    /\ MediaInit /\ [][MediaNext]_allVars
    /\ \A r \in Runs : WF_vars(Ours(Step(r))) /\ WF_vars(Ours(AskForAll(r)))

(* What stands behind the jobs answers as it should.                           *)
AnswersHold == P!ProvidersHold
=============================================================================
