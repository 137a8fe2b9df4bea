----------------------------- MODULE PublishPackages ---------------------------
(* The manual publish workflow: publish-plan.mjs lists the versions that npm does
   not show yet, then ci-publish.mjs publishes them one after the other, applies
   deprecation messages, pushes a tag for each and creates GitHub releases.

   A workflow run may fail or be killed anywhere; someone starts it again.  Only
   one runs at a time (publish.yml has a concurrency group).  npm shows a version
   some time after it took it.  Each package stands for its current version.   *)
EXTENDS Naturals, FiniteSets

CONSTANTS
  Registered,  \* the public packages whose name npm knows; others are skipped
  Before,      \* <<p, q>>: p comes before q in the manifest, by name
  Deprecated,  \* those with a deprecation message in their package.json
  Fallback,    \* a token to retry with is given
  Attempts,    \* how often npmRegistryPropagationGuard looks and retries
  MaxFaults,   \* bound on the faults of a behaviour, refused deprecations aside
  Faults

Kinds == {"auth", "tlog", "answer", "view", "deprecate", "npmrc", "push", "release", "crash"}

ASSUME ConstantsAssumption ==
  /\ Before \subseteq Registered \X Registered
  /\ \A p, q \in Registered : <<p, q>> \in Before => <<q, p>> \notin Before
  /\ Deprecated \subseteq Registered
  /\ Fallback \in BOOLEAN
  /\ Attempts \in Nat \ {0}
  /\ MaxFaults \in Nat
  /\ Faults \subseteq Kinds

VARIABLES
  phase,       \* where the run stands
  manifest,    \* publishablePackages of the run
  todo,        \* those its loop has not come to
  attempt,
  env,         \* is NODE_AUTH_TOKEN set, and which npmrc is NPM_CONFIG_USERCONFIG
  saved,       \* what a token attempt found there and puts back
  registry,    \* the versions npm has
  visible,     \* those npm view shows
  tlog,        \* those whose provenance is logged although npm has not got them
  deprecated,
  tags,        \* the tags on the remote
  releases,
  interrupted, \* history: the manifests of runs that failed
  unwritten,   \* history: in this run the npmrc of a token attempt was not written
  budget

run == <<phase, manifest, todo, attempt>>
shell == <<env, saved, unwritten>>
npm == <<registry, visible, tlog, deprecated>>
github == <<tags, releases>>
vars == <<run, shell, npm, github, interrupted, budget>>

Phases == {"idle", "publish", "token", "wait", "deprecate", "deprecateToken", "tag", "release"}
Environments == [token : BOOLEAN, config : {"oidc", "token"}]

\* What sanitizeOidcEnvironment makes of any environment.
Sanitized == [token |-> FALSE, config |-> "oidc"]

TypeOK ==
  /\ phase \in Phases
  /\ manifest \subseteq Registered /\ todo \subseteq manifest
  /\ attempt \in 1..Attempts
  /\ env \in Environments /\ saved \in Environments /\ unwritten \in BOOLEAN
  /\ visible \subseteq registry /\ registry \subseteq Registered
  /\ tlog \subseteq Registered
  /\ deprecated \subseteq Deprecated \cap registry
  /\ tags \subseteq Registered /\ releases \subseteq Registered
  /\ interrupted \subseteq Registered
  /\ budget \in 0..MaxFaults

\* What was released earlier is complete.
Init ==
  /\ phase = "idle" /\ manifest = {} /\ todo = {} /\ attempt = 1
  /\ env = Sanitized /\ saved = Sanitized /\ unwritten = FALSE
  /\ registry \in SUBSET Registered
  /\ visible = registry /\ tags = registry /\ releases = registry
  /\ deprecated = registry \cap Deprecated
  /\ tlog = {} /\ interrupted = {} /\ budget = MaxFaults

NoFault == UNCHANGED budget
Fault(kind) == kind \in Faults /\ budget > 0 /\ budget' = budget - 1

\* Mutant: the loop starts at the end.
CurrentFromTheEnd(p) == p \in todo /\ \A q \in todo \ {p} : <<q, p>> \in Before

\* The package the loop is at.
Current(p) == p \in todo /\ \A q \in todo \ {p} : <<p, q>> \in Before

Enter(to, packages) ==
  /\ phase' = to /\ todo' = packages /\ attempt' = 1
  /\ UNCHANGED manifest

Next1(p) == Enter(phase, todo \ {p})

\* The process takes its environment with it; the next one sanitizes its own.
EndProcess ==
  /\ phase' = "idle" /\ manifest' = {} /\ todo' = {} /\ attempt' = 1
  /\ env' = Sanitized /\ saved' = Sanitized /\ unwritten' = FALSE

\* The script throws or its job is killed.
Fail == EndProcess /\ interrupted' = interrupted \cup manifest

\* withTokenFallbackEnvironment up to its try block, and its finally block.
WithToken(to) ==
  /\ phase' = to
  /\ saved' = env /\ env' = [token |-> TRUE, config |-> "token"]
  /\ UNCHANGED <<manifest, todo, attempt, unwritten>>
Restore == env' = saved /\ saved' = Sanitized /\ UNCHANGED unwritten

--------------------------------------------------------------------------------

\* publish-plan.mjs.  With no candidates there is no further job.
Plan ==
  /\ phase = "idle"
  /\ Registered \ visible # {}
  /\ manifest' = Registered \ visible /\ todo' = manifest'
  /\ phase' = "publish"
  /\ UNCHANGED <<attempt, shell, npm, github, interrupted, budget>>

SkipPublished(p) ==
  /\ phase = "publish" /\ Current(p)
  /\ p \in visible
  /\ Next1(p)
  /\ UNCHANGED <<shell, npm, github, interrupted, budget>>

Take(p) == registry' = registry \cup {p} /\ UNCHANGED <<visible, tlog, deprecated>>

Publish(p) ==
  /\ phase = "publish" /\ Current(p)
  /\ p \notin visible \cup registry \cup tlog
  /\ Take(p) /\ Next1(p)
  /\ UNCHANGED <<shell, github, interrupted, budget>>

\* npm refuses a version it has (E403) or whoever asks (ENEEDAUTH, E401, E404).
PublishRefused(p) ==
  /\ phase = "publish" /\ Current(p) /\ p \notin visible
  /\ (p \in registry /\ NoFault) \/ (p \notin registry /\ Fault("auth"))
  /\ IF Fallback
     THEN WithToken("token") /\ UNCHANGED interrupted
     ELSE Fail
  /\ UNCHANGED <<npm, github>>

\* A duplicate in the transparency log is not retried with the token.
PublishBreaks(p) ==
  /\ phase = "publish" /\ Current(p) /\ p \notin visible \cup registry
  /\ \/ p \in tlog /\ NoFault /\ UNCHANGED npm
     \/ Fault("tlog") /\ tlog' = tlog \cup {p} /\ UNCHANGED <<registry, visible, deprecated>>
     \/ p \notin tlog /\ Fault("answer") /\ Take(p)
  /\ Fail
  /\ UNCHANGED github

\* Mutant: the environment is not restored.
PublishWithTokenKept(p) ==
  /\ phase = "token" /\ Current(p) /\ p \notin registry
  /\ Take(p) /\ Enter("publish", todo \ {p})
  /\ UNCHANGED <<shell, github, interrupted, budget>>

PublishWithToken(p) ==
  /\ phase = "token" /\ Current(p) /\ p \notin registry
  /\ Take(p) /\ Restore /\ Enter("publish", todo \ {p})
  /\ UNCHANGED <<github, interrupted, budget>>

\* Mutant: the failure is logged and the loop goes on.
TokenRefusedIgnored(p) ==
  /\ phase = "token" /\ Current(p)
  /\ (p \in registry /\ NoFault) \/ Fault("auth")
  /\ Restore /\ Enter("publish", todo \ {p})
  /\ UNCHANGED <<npm, github, interrupted>>

TokenRefused(p) ==
  /\ phase = "token" /\ Current(p)
  /\ (p \in registry /\ NoFault) \/ Fault("auth")
  /\ Fail
  /\ UNCHANGED <<npm, github>>

AllPublished ==
  /\ phase = "publish" /\ todo = {}
  /\ Enter("wait", manifest \cap Deprecated)
  /\ UNCHANGED <<shell, npm, github, interrupted, budget>>

--------------------------------------------------------------------------------
(* npmRegistryPropagationGuard *)

\* Mutant: it waits as long as it takes.
WaitUnbounded(p) ==
  /\ phase = "wait" /\ Current(p)
  /\ IF p \in visible THEN Enter("deprecate", todo) ELSE UNCHANGED run
  /\ UNCHANGED <<shell, npm, github, interrupted, budget>>

Wait(p) ==
  /\ phase = "wait" /\ Current(p)
  /\ \/ p \in visible /\ Enter("deprecate", todo)
     \/ p \notin visible /\ attempt < Attempts /\ attempt' = attempt + 1 /\ UNCHANGED <<phase, manifest, todo>>
     \/ p \notin visible /\ attempt = Attempts /\ Next1(p)
  /\ UNCHANGED <<shell, npm, github, interrupted, budget>>

\* npm view fails with something else than E404: here and in the publish loop.
ViewThrows(p) ==
  /\ phase \in {"publish", "wait"} /\ Current(p)
  /\ Fault("view")
  /\ Fail
  /\ UNCHANGED <<npm, github>>

\* Mutant: the guard retries without a bound.
RetryUnbounded == phase' = "deprecate" /\ UNCHANGED <<manifest, todo, attempt>>

\* What the guard does with an error of npm deprecate: E404 is retried, with OIDC
\* first, anything else is not; neither fails the run.
Retry ==
  /\ attempt < Attempts /\ attempt' = attempt + 1
  /\ phase' = "deprecate"
  /\ UNCHANGED <<manifest, todo>>
GiveUp(p) == Enter("wait", todo \ {p})

\* The next package waits again.
Deprecate(p) ==
  /\ phase = "deprecate" /\ Current(p)
  /\ deprecated' = deprecated \cup {p}
  /\ Enter("wait", todo \ {p})
  /\ UNCHANGED <<shell, registry, visible, tlog, github, interrupted, budget>>

\* npm refuses whoever asks (ENEEDAUTH, E401, E403, E404), however often.
DeprecateRefused(p) ==
  /\ phase = "deprecate" /\ Current(p)
  /\ "deprecate" \in Faults /\ Fallback
  /\ WithToken("deprecateToken")
  /\ UNCHANGED <<npm, github, interrupted, budget>>

\* Another error, or there is no token to retry with.
DeprecateFails(p) ==
  /\ phase = "deprecate" /\ Current(p)
  /\ "deprecate" \in Faults
  /\ (~Fallback /\ Retry) \/ GiveUp(p)
  /\ UNCHANGED <<shell, npm, github, interrupted, budget>>

DeprecateWithToken(p) ==
  /\ phase = "deprecateToken" /\ Current(p)
  /\ deprecated' = deprecated \cup {p}
  /\ Restore /\ Enter("wait", todo \ {p})
  /\ UNCHANGED <<registry, visible, tlog, github, interrupted, budget>>

\* Mutant: the environment is restored after a success only.
TokenDeprecationFailsKept(p) ==
  /\ phase = "deprecateToken" /\ Current(p)
  /\ "deprecate" \in Faults
  /\ Retry \/ GiveUp(p)
  /\ UNCHANGED <<shell, npm, github, interrupted, budget>>

\* The finally block, then the guard's catch.
TokenDeprecationFails(p) ==
  /\ phase = "deprecateToken" /\ Current(p)
  /\ "deprecate" \in Faults
  /\ Restore /\ (Retry \/ GiveUp(p))
  /\ UNCHANGED <<npm, github, interrupted, budget>>

\* The npmrc for the token cannot be written when npm has refused OIDC.  This is
\* between setting the token and the try block: nothing takes the token back when
\* the guard catches the error and goes on.
NpmrcFails(p) ==
  /\ Current(p) /\ Fallback /\ Fault("npmrc")
  /\ \/ phase = "publish" /\ p \notin visible /\ (p \in registry \/ "auth" \in Faults) /\ Fail
     \/ /\ phase = "deprecate" /\ "deprecate" \in Faults
        /\ env' = [token |-> TRUE, config |-> env.config] /\ unwritten' = TRUE
        /\ GiveUp(p)
        /\ UNCHANGED <<saved, interrupted>>
  /\ UNCHANGED <<npm, github>>

AllDeprecated ==
  /\ phase = "wait" /\ todo = {}
  /\ Enter("tag", manifest)
  /\ UNCHANGED <<shell, npm, github, interrupted, budget>>

--------------------------------------------------------------------------------

\* Mutant: only what npm did not show when the run got here is tagged.
PushTagsOfInvisible ==
  /\ phase = "tag"
  /\ tags' = tags \cup (manifest \ visible)
  /\ Enter("release", manifest)
  /\ UNCHANGED <<shell, npm, releases, interrupted, budget>>

\* The missing tags are created in the runner's clone, then all are pushed.
PushTags ==
  /\ phase = "tag"
  /\ tags' = tags \cup manifest
  /\ Enter("release", manifest)
  /\ UNCHANGED <<shell, npm, releases, interrupted, budget>>

\* A push that fails may have delivered some of them.
PushFails ==
  /\ phase = "tag"
  /\ Fault("push")
  /\ \E some \in SUBSET manifest : tags' = tags \cup some
  /\ Fail
  /\ UNCHANGED <<npm, releases>>

Release(p) ==
  /\ phase = "release" /\ Current(p)
  /\ releases' = releases \cup {p}
  /\ Next1(p)
  /\ UNCHANGED <<shell, npm, tags, interrupted, budget>>

\* RAWSQL_FAIL_ON_RELEASE_ERROR is not set by the workflow.
ReleaseFails(p) ==
  /\ phase = "release" /\ Current(p)
  /\ Fault("release")
  /\ Next1(p)
  /\ UNCHANGED <<shell, npm, github, interrupted>>

Finish ==
  /\ phase = "release" /\ todo = {}
  /\ EndProcess
  /\ UNCHANGED <<npm, github, interrupted, budget>>

Crash ==
  /\ phase # "idle"
  /\ Fault("crash")
  /\ Fail
  /\ UNCHANGED <<npm, github>>

\* npm catches up.
BecomeVisible(p) ==
  /\ p \in registry \ visible
  /\ visible' = visible \cup {p}
  /\ UNCHANGED <<run, shell, registry, tlog, deprecated, github, interrupted, budget>>

--------------------------------------------------------------------------------

Script ==
  \/ \E p \in Registered :
       \/ SkipPublished(p) \/ Publish(p) \/ PublishRefused(p) \/ PublishBreaks(p)
       \/ PublishWithToken(p) \/ TokenRefused(p)
       \/ Wait(p) \/ ViewThrows(p) \/ NpmrcFails(p)
       \/ Deprecate(p) \/ DeprecateRefused(p) \/ DeprecateFails(p)
       \/ DeprecateWithToken(p) \/ TokenDeprecationFails(p)
       \/ Release(p) \/ ReleaseFails(p)
  \/ AllPublished \/ AllDeprecated \/ PushTags \/ PushFails \/ Finish

Next == Plan \/ Script \/ Crash \/ \E p \in Registered : BecomeVisible(p)

Spec == Init /\ [][Next]_vars

\* The script is one thread and every command it waits for returns.
FairSpec == Spec /\ WF_vars(Script)

--------------------------------------------------------------------------------
(* Properties *)

\* A tag, a release and a deprecation are only for versions that npm has, and a
\* release only for a version with a tag, whatever was skipped, failed or killed.
TagsFollowTheRegistry ==
  tags \subseteq registry /\ releases \subseteq tags /\ deprecated \subseteq visible

\* Between runs every version on npm has its tag, except those of a run that did
\* not get to its end: a later run's plan does not list them any more.
OnlyInterruptedVersionsLackTags ==
  phase = "idle" => registry \subseteq tags \cup interrupted

\* An OIDC attempt to publish never sees the token.  No other npm command outside
\* a token attempt finds the npmrc of the token, and it finds the token itself only
\* after that npmrc could not be written in the same run: whichever attempts came
\* before, for this package or others, and succeeded, were retried or given up.
OidcSeesNoToken ==
  /\ phase = "publish" => env = Sanitized
  /\ phase \notin {"token", "deprecateToken"} =>
       env.config = "oidc" /\ (env.token => unwritten)

\* Every run ends, also when npm never shows what it took: waiting for it and
\* retrying a deprecation are bounded.
RunsEnd == phase # "idle" ~> phase = "idle"

\* Someone starts a run again as long as the plan lists something, and npm shows
\* in the end what it has.
Reruns == WF_vars(Plan) /\ \A p \in Registered : WF_vars(BecomeVisible(p))

\* With enough runs every version gets onto npm, except one whose provenance was
\* logged without it, and those whose turn comes after that one.
EverythingIsPublished ==
  Reruns =>
    <>(\A p \in Registered : p \in registry \/ \E q \in tlog \ registry : q = p \/ <<q, p>> \in Before)

================================================================================
