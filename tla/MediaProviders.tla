---------------------------- MODULE MediaProviders ----------------------------
(***************************************************************************)
(* What stands behind the media jobs (MediaPipeline): the start-up that     *)
(* picks storage, queue and processors from the configuration or refuses    *)
(* it, the links uploads are signed for, the queue in memory, what the      *)
(* scanners, moderators and transformers make of a provider's answer, and   *)
(* the check that a transformed file can be fetched from the CDN.           *)
(*                                                                         *)
(* A configuration maps the keys it gives a value to these values; no value *)
(* is blank.  A URL is a record of scheme, host and path, the last two      *)
(* sequences.  A provider says what it finds in the file, unless its answer *)
(* is no use; the CDN comes to serve URLs one after the other.  The queue   *)
(* in memory makes every operation one step, as nothing in it awaits.  A    *)
(* tick of the clock is half a second where an upload is signed.            *)
(***************************************************************************)
EXTENDS Integers, Sequences, FiniteSets, SequencesExt, FiniteSetsExt, TLC

CONSTANTS
    Workers,      \* runs of the media worker, with a workerId of their own
    Settings,     \* what may be started: [config, types, limit, file]
    Replies,      \* what a provider may answer: [status, body, again]
    MaxTries,     \* maxAttempts of a job
    MAX_URLS,     \* how many URLs of a transform are checked
    RetryAfter,   \* ticks until a job that failed is due again
    MaxTime       \* bound on the clock

VARIABLES
    setting,   \* configuration, types the runs ask for and their limit, and the file
    adapters,  \* what the start-up made of the configuration, or "refused"
    jobs,      \* the jobs of the file in memory, by type
    worker,    \* per run: its batch, the job before it and what it decides
    served,    \* the URLs the CDN serves
    upload,    \* the link handed out for an upload
    clock

vars == <<setting, adapters, jobs, worker, served, upload, clock>>

Scans == {"MALWARE_SCAN", "CONTENT_MODERATION"}
Transforms == {"IMAGE_TRANSFORM", "VIDEO_TRANSCODE"}
mediaProcessingJobTypes == Scans \cup Transforms
config == setting.config
file == setting.file
-----------------------------------------------------------------------------
(* Reading a configuration.                                                *)

Given(c, key) == key \in DOMAIN c
Says(c, key, values) == Given(c, key) /\ c[key] \in values
SomeGiven(c, keys) == \E i \in DOMAIN keys : Given(c, keys[i])
firstConfig(c, keys) == c[keys[Min({i \in DOMAIN keys : Given(c, keys[i])})]]

Drivers == <<"MEDIA_STORAGE_DRIVER", "MEDIA_STORAGE_PROVIDER">>
Bases == <<"MEDIA_S3_PUBLIC_BASE_URL", "SPACES_CDN_ENDPOINT">>
Endpoints == <<"MEDIA_S3_ENDPOINT", "SPACES_ENDPOINT">>
Buckets == <<"MEDIA_S3_BUCKET", "SPACES_BUCKET">>
AccessKeys == <<"MEDIA_S3_ACCESS_KEY_ID", "SPACES_ACCESS_KEY">>
SecretKeys == <<"MEDIA_S3_SECRET_ACCESS_KEY", "SPACES_SECRET_KEY">>

hasLiveObjectStorageConfig(c) ==
    \A keys \in {AccessKeys, SecretKeys, Endpoints, Buckets} : SomeGiven(c, keys)

DriverSays(c, values) == SomeGiven(c, Drivers) /\ firstConfig(c, Drivers) \in values
resolveMediaStorageDriver(c) ==
    CASE DriverSays(c, {"development", "local", "memory"}) -> "development"
      [] DriverSays(c, {"s3", "s3-compatible", "spaces", "digitalocean-spaces"}) -> "s3"
      [] OTHER -> IF hasLiveObjectStorageConfig(c) THEN "s3" ELSE "development"

(* Memory or the database, by the key of the queue, its alias, or the key  *)
(* for all of the system; "refused" for a value that is neither, or for a  *)
(* database without its URL.                                               *)
resolvePersistenceMode(c, keys) ==
    LET Mode(key, live) ==
            CASE c[key] \in live -> IF Given(c, "DATABASE_URL") THEN "prisma" ELSE "refused"
              [] c[key] \in {"memory", "development", "off", "none"} -> "memory"
              [] OTHER -> "refused"
        database == {"prisma", "postgres", "database"}
    IN  CASE SomeGiven(c, keys) ->
                Mode(keys[Min({i \in DOMAIN keys : Given(c, keys[i])})], database)
          [] Given(c, "PERSISTENCE_DRIVER") -> Mode("PERSISTENCE_DRIVER", database \cup {"live"})
          [] OTHER -> "memory"

Origin(url) == <<url.scheme, url.host>>
resolveAllowedCdnOrigins(c) ==
    LET First(keys) == IF SomeGiven(c, keys) THEN {firstConfig(c, keys)} ELSE {}
        urls == First(Reverse(Bases)) \cup First(Reverse(Endpoints))
                \cup IF Given(c, "MEDIA_CDN_ALLOWED_ORIGINS") THEN c["MEDIA_CDN_ALLOWED_ORIGINS"] ELSE {}
    IN  {Origin(u) : u \in {v \in urls : v.scheme = "https"}}

Endpoint == [MALWARE_SCAN |-> "MEDIA_MALWARE_SCAN_ENDPOINT",
             CONTENT_MODERATION |-> "MEDIA_CONTENT_MODERATION_ENDPOINT",
             IMAGE_TRANSFORM |-> "MEDIA_IMAGE_TRANSFORM_ENDPOINT",
             VIDEO_TRANSCODE |-> "MEDIA_VIDEO_TRANSCODE_ENDPOINT"]
SaysClamAv(c) == Says(c, "MEDIA_MALWARE_SCAN_PROVIDER", {"clamav"})
SaysSightengine(c) == Says(c, "MEDIA_CONTENT_MODERATION_PROVIDER", {"sightengine"})

clamAvUrl(c) == \/ Given(c, "CLAMAV_SCAN_URL")
                \/ SaysClamAv(c) /\ Given(c, Endpoint["MALWARE_SCAN"])
sightengineKeys(c) == Given(c, "SIGHTENGINE_API_USER") /\ Given(c, "SIGHTENGINE_API_SECRET")

(* Mutant: the generic endpoint of a job type has the last word. *)
overlayApprovedMediaJobProcessorsMutant(c, processors) ==
    [t \in mediaProcessingJobTypes |->
        CASE t = "MALWARE_SCAN" /\ clamAvUrl(c) /\ processors[t] # "http" -> "clamav"
          [] t = "CONTENT_MODERATION" /\ sightengineKeys(c) /\ processors[t] # "http" -> "sightengine"
          [] OTHER -> processors[t]]

overlayApprovedMediaJobProcessors(c, processors) ==
    [t \in mediaProcessingJobTypes |->
        CASE /\ t = "MALWARE_SCAN" /\ clamAvUrl(c)
             /\ ~Says(c, "MEDIA_MALWARE_SCAN_PROVIDER", {"http"}) -> "clamav"
          [] /\ t = "CONTENT_MODERATION" /\ sightengineKeys(c)
             /\ ~Says(c, "MEDIA_CONTENT_MODERATION_PROVIDER", {"http"}) -> "sightengine"
          [] OTHER -> processors[t]]

createConfiguredMediaJobProcessors(c) ==
    overlayApprovedMediaJobProcessors(c,
        [t \in mediaProcessingJobTypes |-> IF Given(c, Endpoint[t]) THEN "http" ELSE "development"])

SaysOff(c) == Says(c, "MEDIA_CDN_VERIFICATION_PROVIDER", {"development", "off", "none", "skip"})
SaysLive(c) == Says(c, "MEDIA_CDN_VERIFICATION_PROVIDER", {"live", "http", "cdn", "spaces"})
overlayCdnPublicationVerification(c) == ~SaysOff(c) /\ resolveAllowedCdnOrigins(c) # {}

QueueKeys == <<"MEDIA_JOB_QUEUE_DRIVER", "MEDIA_PROCESSING_QUEUE_DRIVER">>

(* What stops the start-up: something is asked for by name, and what it    *)
(* needs is not given.                                                     *)
Refused(c) ==
    \/ resolveMediaStorageDriver(c) = "s3" /\ ~hasLiveObjectStorageConfig(c)
    \/ SaysClamAv(c) /\ ~clamAvUrl(c)
    \/ SaysSightengine(c) /\ ~sightengineKeys(c)
    \/ SaysLive(c) /\ resolveAllowedCdnOrigins(c) = {}
    \/ resolvePersistenceMode(c, QueueKeys) = "refused"

createConfiguredMediaAdapters(c) ==
    [storage |-> resolveMediaStorageDriver(c), queue |-> resolvePersistenceMode(c, QueueKeys),
     processors |-> createConfiguredMediaJobProcessors(c),
     verified |-> overlayCdnPublicationVerification(c)]
-----------------------------------------------------------------------------
(* Uploads: an S3 link signed for a while, and the file's public address.  *)

TicksPerSecond == 2
InSeconds(ticks) == ticks \div TicksPerSecond
expiresSeconds(c) ==
    LET asked == IF Given(c, "MEDIA_UPLOAD_URL_TTL_SECONDS") THEN c["MEDIA_UPLOAD_URL_TTL_SECONDS"] ELSE 900
    IN  Min({604800, Max({60, asked})})

ObjectKey == <<"advert", "tenant", "owner", "file">>
PathStyle(c) == Says(c, "MEDIA_S3_FORCE_PATH_STYLE", {"true"})

(* Mutant: the bucket is put before a host that names it already. *)
uploadUrlMutant(c) ==
    LET endpoint == firstConfig(c, Endpoints) bucket == firstConfig(c, Buckets)
    IN  IF PathStyle(c) THEN [endpoint EXCEPT !.path = @ \o <<bucket>> \o ObjectKey]
        ELSE [endpoint EXCEPT !.host = <<bucket>> \o @, !.path = @ \o ObjectKey]

uploadUrl(c) ==
    LET endpoint == firstConfig(c, Endpoints) bucket == firstConfig(c, Buckets)
    IN  CASE PathStyle(c) -> [endpoint EXCEPT !.path = @ \o <<bucket>> \o ObjectKey]
          [] ~PathStyle(c) /\ Head(endpoint.host) = bucket -> [endpoint EXCEPT !.path = @ \o ObjectKey]
          [] OTHER -> [endpoint EXCEPT !.host = <<bucket>> \o @, !.path = @ \o ObjectKey]

publicUrl(c) ==
    IF SomeGiven(c, Bases) THEN [firstConfig(c, Bases) EXCEPT !.path = @ \o ObjectKey]
    ELSE [firstConfig(c, Endpoints) EXCEPT !.path = @ \o <<firstConfig(c, Buckets)>> \o ObjectKey]

(* What the signature of a PUT of the key is made of: the second of the    *)
(* date, how long it lasts, host and path, and the content type.           *)
Signed(c, now, mimeType) ==
    [date |-> InSeconds(now), expires |-> expiresSeconds(c), host |-> uploadUrl(c).host,
     path |-> uploadUrl(c).path, type |-> mimeType]

prepareUpload(c, now) ==
    IF resolveMediaStorageDriver(c) = "s3"
    THEN [storage |-> "s3", url |-> uploadUrl(c), public |-> publicUrl(c),
          signature |-> Signed(c, now, "image/png"), type |-> "image/png",
          expiresAt |-> now + expiresSeconds(c) * TicksPerSecond]
    ELSE [storage |-> "development", type |-> "image/png",
          expiresAt |-> now + 900 * TicksPerSecond]
-----------------------------------------------------------------------------
(* The queue in memory.                                                    *)

Unheard == [status |-> 0, body |-> "none", again |-> FALSE]
NoJob == [status |-> "NONE", tries |-> 0, due |-> 0, owner |-> "nobody",
          result |-> "none", heard |-> Unheard, asked |-> 0]
Idle == [pc |-> "idle", since |-> 0, todo |-> <<>>, decision |-> "none", left |-> <<>>]

TypesOf(kind) == Scans \cup {IF kind = "VIDEO" THEN "VIDEO_TRANSCODE" ELSE "IMAGE_TRANSFORM"}
Place(t) == CASE t = "MALWARE_SCAN" -> 1 [] t = "CONTENT_MODERATION" -> 2 [] OTHER -> 3

(* The jobs a run claims: of its types, due, the one due first to begin    *)
(* with, no more than its limit.                                           *)
claimQueuedJobs ==
    LET due == {t \in setting.types : jobs[t].status = "QUEUED" /\ jobs[t].due <= clock}
        first == SetToSortSeq(due, LAMBDA s, t :
                     \/ jobs[s].due < jobs[t].due
                     \/ jobs[s].due = jobs[t].due /\ Place(s) < Place(t))
    IN  SubSeq(first, 1, Min({setting.limit, Len(first)}))

Running(w, t) == jobs[t].status = "RUNNING" /\ jobs[t].owner = w

Completed(t, result) ==
    [jobs EXCEPT ![t].status = "SUCCEEDED", ![t].owner = "nobody", ![t].result = result]

(* Mutant: a job that failed once is given up. *)
FailedMutant(t, retryable, since) ==
    [jobs EXCEPT ![t].status = "FAILED", ![t].owner = "nobody"]

Failed(t, retryable, since) ==
    LET shouldRetry == retryable /\ jobs[t].tries < MaxTries
    IN  [jobs EXCEPT ![t].status = IF shouldRetry THEN "QUEUED" ELSE "FAILED",
                     ![t].due = IF shouldRetry THEN since + RetryAfter ELSE @,
                     ![t].owner = "nobody"]
-----------------------------------------------------------------------------
(* Providers: what each processor makes of an answer.  "retry" and "final" *)
(* are failures; the others are the verdict the job ends with.             *)

threshold ==
    IF Given(config, "MEDIA_CONTENT_MODERATION_THRESHOLD") /\ config["MEDIA_CONTENT_MODERATION_THRESHOLD"] # 0
    THEN config["MEDIA_CONTENT_MODERATION_THRESHOLD"] ELSE 50

(* Is the file bad, as the provider sees it that scans or moderates? *)
Bad(t, kind) ==
    CASE t = "MALWARE_SCAN" -> file.infected
      [] t = "CONTENT_MODERATION" -> file.score >= IF kind = "sightengine" THEN threshold ELSE 50
      [] OTHER -> FALSE

(* An answer with "refuses" (ok: false) or "verdict" is about the file,    *)
(* one with "fails" is about the service, "unreadable" is not even JSON;   *)
(* status 0 stands for a call that fails or takes too long.                *)
Answers(t, kind) == {r \in Replies : r.body = "refuses" => Bad(t, kind) /\ kind # "sightengine"}

isRetryableStatus(status) == status \in {408, 409, 425, 429} \/ status >= 500

httpProcess(t, r) ==
    CASE r.status = 0 -> "retry"
      [] r.status \notin {0, 200} -> IF isRetryableStatus(r.status) THEN "retry" ELSE "final"
      [] r.status = 200 /\ r.body = "fails" -> IF r.again THEN "retry" ELSE "final"
      [] r.status = 200 /\ r.body = "refuses" -> "final"
      [] r.status = 200 /\ r.body = "verdict" -> IF Bad(t, "http") THEN "unsafe" ELSE "passed"
      [] OTHER -> "unknown"

(* Mutant: an answer that is not HTTP 200 is not looked at. *)
clamAvProcessMutant(t, r) ==
    CASE r.status = 0 -> "retry"
      [] r.status # 0 /\ r.body \in {"refuses", "verdict"} /\ Bad(t, "clamav") -> "final"
      [] OTHER -> "passed"

clamAvProcess(t, r) ==
    CASE r.status = 0 -> "retry"
      [] r.status \notin {0, 200} -> "final"
      [] r.status = 200 /\ (r.body \in {"refuses", "fails"} \/ (r.body = "verdict" /\ Bad(t, "clamav"))) -> "final"
      [] OTHER -> "passed"

sightengineProcess(t, r) ==
    CASE r.status = 0 \/ r.status >= 500 -> "retry"
      [] r.status \in 201..499 \/ (r.status = 200 /\ r.body = "fails") -> "final"
      [] r.status = 200 /\ r.body = "verdict" /\ Bad(t, "sightengine") -> "final"
      [] OTHER -> "passed"

processWith(kind, t, r) ==
    CASE kind = "http" -> httpProcess(t, r)
      [] kind = "clamav" -> clamAvProcess(t, r)
      [] kind = "sightengine" -> sightengineProcess(t, r)
      [] OTHER -> "passed"

(* The URLs a transform tells of; none, if it tells nothing one can read.  *)
ToldBy(kind, decision) == IF kind = "http" /\ decision = "passed" THEN file.urls ELSE <<>>

(* Mutant: the thumbnail and the variants go unchecked. *)
collectPublicationUrlsMutant(told) == IF told = <<>> THEN <<file.source>> ELSE <<Head(told)>>

collectPublicationUrls(told) ==
    LET Add(urls, u) == IF Contains(urls, u) \/ Len(urls) >= MAX_URLS THEN urls ELSE Append(urls, u)
    IN  IF told = <<>> THEN <<file.source>> ELSE FoldLeft(Add, <<>>, told)

Allowed(url) == url.scheme = "https" /\ Origin(url) \in resolveAllowedCdnOrigins(config)
-----------------------------------------------------------------------------
Init ==
    /\ setting \in Settings
    /\ adapters = [state |-> "starting"]
    /\ jobs = [t \in mediaProcessingJobTypes |-> NoJob]
    /\ worker = [w \in Workers |-> Idle]
    /\ served = {}
    /\ upload = [storage |-> "none"]
    /\ clock = 0

Started == adapters.state = "ready"
Idling == \A w \in Workers : worker[w] = Idle

Start ==
    /\ adapters.state = "starting"
    /\ adapters' = IF Refused(config) THEN [state |-> "refused"]
                   ELSE [state |-> "ready"] @@ createConfiguredMediaAdapters(config)
    /\ UNCHANGED <<setting, jobs, worker, served, upload, clock>>

PrepareUpload ==
    /\ Started /\ upload.storage = "none"
    /\ upload' = prepareUpload(config, clock)
    /\ UNCHANGED <<setting, adapters, jobs, worker, served, clock>>

(* The file is attached once the client has its link.                      *)
enqueueMediaProcessingJobs ==
    /\ Started /\ upload.storage # "none" /\ adapters.queue = "memory"
    /\ \A t \in mediaProcessingJobTypes : jobs[t] = NoJob
    /\ jobs' = [t \in mediaProcessingJobTypes |->
                   IF t \in TypesOf(file.kind) THEN [NoJob EXCEPT !.status = "QUEUED", !.due = clock]
                   ELSE NoJob]
    /\ UNCHANGED <<setting, adapters, worker, served, upload, clock>>

Claim(w) ==
    /\ worker[w].pc = "idle"
    /\ claimQueuedJobs # <<>>
    /\ worker' = [worker EXCEPT ![w] = [Idle EXCEPT !.pc = "work", !.since = clock, !.todo = claimQueuedJobs]]
    /\ jobs' = [t \in mediaProcessingJobTypes |->
                   IF Contains(claimQueuedJobs, t)
                   THEN [jobs[t] EXCEPT !.status = "RUNNING", !.tries = @ + 1, !.owner = w]
                   ELSE jobs[t]]
    /\ UNCHANGED <<setting, adapters, served, upload, clock>>

Ask(w) ==
    /\ worker[w].pc = "work"
    /\ LET t == Head(worker[w].todo) kind == adapters.processors[t]
       IN  \E r \in IF kind = "development" THEN {Unheard} ELSE Answers(t, kind) :
              LET decision == processWith(kind, t, r)
                  checked == t \in Transforms /\ adapters.verified /\ decision \in {"passed", "unknown"}
              IN  /\ jobs' = [jobs EXCEPT ![t].heard = r, ![t].asked = @ + 1]
                  /\ worker' = [worker EXCEPT
                        ![w].pc = IF checked THEN "verify" ELSE "settle", ![w].decision = decision,
                        ![w].left = IF checked THEN collectPublicationUrls(ToldBy(kind, decision)) ELSE <<>>]
    /\ UNCHANGED <<setting, adapters, served, upload, clock>>

(* The URLs of a transform are asked for one by one; the CDN may be in     *)
(* trouble, or not serve one yet.                                          *)
Verify(w) ==
    LET Settled(decision) == worker' = [worker EXCEPT ![w].pc = "settle", ![w].left = <<>>, ![w].decision = decision]
        url == Head(worker[w].left)
    IN  /\ worker[w].pc = "verify"
        /\ IF worker[w].left = <<>> THEN Settled(worker[w].decision)
           ELSE IF ~Allowed(url) THEN Settled("final")
           ELSE \/ url \in served /\ worker' = [worker EXCEPT ![w].left = Tail(@)]
                \/ url \notin served /\ Settled("final")
                \/ Settled("retry")
        /\ UNCHANGED <<setting, adapters, jobs, served, upload, clock>>

(* The job ends, if the run still has it, or is queued again; then the     *)
(* next one of the batch.                                                  *)
Settle(w) ==
    LET t == Head(worker[w].todo) decision == worker[w].decision
        rest == [Idle EXCEPT !.pc = "work", !.since = worker[w].since, !.todo = Tail(worker[w].todo)]
    IN  /\ worker[w].pc = "settle"
        /\ jobs' = CASE ~Running(w, t) -> jobs
                     [] Running(w, t) /\ decision \in {"retry", "final"} ->
                           Failed(t, decision = "retry", worker[w].since)
                     [] OTHER -> Completed(t, decision)
        /\ worker' = [worker EXCEPT ![w] = IF rest.todo = <<>> THEN Idle ELSE rest]
        /\ UNCHANGED <<setting, adapters, served, upload, clock>>

(* The CDN serves one more of the file's URLs.                             *)
Serve ==
    /\ Started
    /\ \E u \in (ToSet(file.urls) \cup {file.source}) \ served : served' = served \cup {u}
    /\ UNCHANGED <<setting, adapters, jobs, worker, upload, clock>>

Tick ==
    /\ Started /\ clock < MaxTime
    /\ clock' = clock + 1
    /\ UNCHANGED <<setting, adapters, jobs, worker, served, upload>>

Next ==
    \/ Start \/ PrepareUpload \/ enqueueMediaProcessingJobs \/ Serve \/ Tick
    \/ \E w \in Workers : Claim(w) \/ Ask(w) \/ Verify(w) \/ Settle(w)
-----------------------------------------------------------------------------
(* Properties.                                                             *)

(* A system that has started uses every provider, storage and queue its    *)
(* configuration names, and checks the CDN if told to: it never falls back *)
(* on the development ones instead (the errors of the overlays).           *)
NamedIsUsed ==
    Started =>
        /\ SaysClamAv(config) => adapters.processors["MALWARE_SCAN"] = "clamav"
        /\ SaysSightengine(config) => adapters.processors["CONTENT_MODERATION"] = "sightengine"
        /\ \A t \in mediaProcessingJobTypes :
              Given(config, Endpoint[t]) => adapters.processors[t] # "development"
        /\ SaysLive(config) => adapters.verified
        /\ DriverSays(config, {"s3", "spaces"}) => adapters.storage = "s3"
        /\ Says(config, "MEDIA_JOB_QUEUE_DRIVER", {"prisma"}) => adapters.queue = "prisma"

KindOf(t) == adapters.processors[t]

(* No bad file passes a provider that can be read, whatever errors, tries  *)
(* and jobs come before (the processors fail closed).  An answer of ClamAV *)
(* or Sightengine that is not JSON does pass.                              *)
PassIsMeant ==
    \A t \in Scans :
        jobs[t].result = "passed" /\ KindOf(t) # "development" =>
            ~Bad(t, KindOf(t)) \/ jobs[t].heard.body = "unreadable"

(* A provider that is down or busy costs a job a try and not its life; for *)
(* ClamAV that is only so if it does not answer, as any error it answers   *)
(* is final, and Sightengine is not asked again when it is busy.           *)
FailureIsMeant ==
    \A t \in mediaProcessingJobTypes :
        jobs[t].status = "FAILED" /\ jobs[t].tries < MaxTries =>
            /\ jobs[t].heard.status # 0
            /\ KindOf(t) # "clamav" => jobs[t].heard.status < 500
            /\ KindOf(t) = "http" => jobs[t].heard.status # 429

(* A provider is asked once for each try, by whatever run.                 *)
AskedPerTry ==
    \A t \in mediaProcessingJobTypes :
        /\ jobs[t].tries <= MaxTries
        /\ jobs[t].asked \in {jobs[t].tries - 1, jobs[t].tries}
        /\ jobs[t].status # "RUNNING" => jobs[t].asked = jobs[t].tries

(* What a transform publishes can be fetched, and from where it should be: *)
(* every URL it told of, unless there are more than are checked, though    *)
(* the CDN serves them one by one and a retry asks anew.                   *)
PublishedIsServed ==
    \A t \in Transforms :
        jobs[t].status = "SUCCEEDED" /\ adapters.verified /\ Cardinality(ToSet(file.urls)) <= MAX_URLS =>
            \A u \in ToSet(ToldBy(KindOf(t), jobs[t].result)) : u \in served /\ Allowed(u)

(* Where the storage looks for the object of a URL: under the bucket that  *)
(* the host names, or the first segment of the path; the CDN has that of   *)
(* its origin.                                                             *)
ObjectAt(c, url) ==
    LET bucket == firstConfig(c, Buckets)
        host == firstConfig(c, Endpoints).host
        store == IF Head(host) = bucket THEN Tail(host) ELSE host
        bases == {c[Bases[i]].host : i \in {j \in DOMAIN Bases : Given(c, Bases[j])}}
    IN  CASE url.host = store -> url.path
          [] url.host \in bases \cup {<<bucket>> \o store} -> <<bucket>> \o url.path
          [] OTHER -> <<>>

(* A link lasts until the second it is said to expire, between a minute    *)
(* and a week, and what it uploads is found at the public address, which   *)
(* the CDN check allows.  An endpoint that names its bucket needs a public *)
(* base URL for that, as its own address gets the bucket twice, and no     *)
(* path style; and two base URLs are read in opposite orders.              *)
UploadIsGood ==
    upload.storage = "s3" =>
        /\ upload.expiresAt - (upload.signature.date + upload.signature.expires) * TicksPerSecond
              \in 0..(TicksPerSecond - 1)
        /\ upload.signature.expires \in 60..604800
        /\ \/ /\ Head(firstConfig(config, Endpoints).host) = firstConfig(config, Buckets)
              /\ SomeGiven(config, Bases) = PathStyle(config)
           \/ /\ ObjectAt(config, upload.public) = ObjectAt(config, upload.url)
              /\ ObjectAt(config, upload.url) # <<>>
        /\ adapters.verified /\ upload.public.scheme = "https" /\ ~(\A i \in DOMAIN Bases : Given(config, Bases[i]))
              => Allowed(upload.public)

ProvidersHold ==
    /\ NamedIsUsed
    /\ Started => PassIsMeant /\ FailureIsMeant /\ AskedPerTry /\ PublishedIsServed
    /\ UploadIsGood
=============================================================================
