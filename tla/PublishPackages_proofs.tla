-------------------------- MODULE PublishPackages_proofs ------------------------
(* What holds of the publish workflow for every set of packages, every order of
   them and every number of faults.

   The run's own knowledge of npm is the loop it is in: what is behind the loop
   that publishes is on npm, and once that loop has ended all of the manifest is.
   TagsFollowTheRegistry and OnlyInterruptedVersionsLackTags need this, and that a
   tag is missing only for what is still in the manifest.                      *)
EXTENDS PublishPackages, TLAPS

After == {"wait", "deprecate", "deprecateToken", "tag", "release"}

\* The loops know what npm has.
LoopsFollowNpm ==
  /\ phase \in {"publish", "token"} => manifest \ todo \subseteq registry
  /\ phase \in After => manifest \subseteq registry
  /\ phase = "release" => manifest \subseteq tags
  /\ phase = "idle" => manifest = {}
  /\ phase \in {"wait", "deprecate", "deprecateToken"} => todo \subseteq Deprecated
  /\ phase \in {"deprecate", "deprecateToken"} => \A p \in todo : Current(p) => p \in visible

\* No tag is missing but for the manifest of this run or of one that failed.
TagsAreAccountedFor == registry \subseteq tags \cup interrupted \cup manifest

\* TypeOK but for the environment.
RunTypeOK ==
  /\ phase \in Phases
  /\ manifest \subseteq Registered /\ todo \subseteq manifest
  /\ attempt \in 1..Attempts
  /\ visible \subseteq registry /\ registry \subseteq Registered
  /\ tlog \subseteq Registered
  /\ deprecated \subseteq Deprecated \cap registry
  /\ tags \subseteq Registered /\ releases \subseteq Registered
  /\ interrupted \subseteq Registered
  /\ budget \in 0..MaxFaults

RunInv == RunTypeOK /\ TagsFollowTheRegistry /\ LoopsFollowNpm /\ TagsAreAccountedFor

TokenPhases == {"token", "deprecateToken"}

\* A token attempt finds what OidcSeesNoToken promises and puts it back; what it
\* finds in the loop that publishes is a sanitized environment.
TokenIsBorrowed ==
  /\ phase \in TokenPhases => saved.config = "oidc" /\ (saved.token => unwritten)
  /\ phase = "token" => saved = Sanitized
  /\ phase = "idle" => env = Sanitized
  /\ phase \in {"idle", "publish", "token"} => ~unwritten

ShellInv ==
  /\ env \in Environments /\ saved \in Environments /\ unwritten \in BOOLEAN
  /\ OidcSeesNoToken
  /\ TokenIsBorrowed

IInv == RunInv /\ ShellInv

--------------------------------------------------------------------------------

\* The invariant holds before the first run.
LEMMA InitInv == ASSUME Init PROVE IInv
<1>1. 1 \in 1..Attempts /\ MaxFaults \in 0..MaxFaults
  BY ConstantsAssumption
<1>2. RunTypeOK
  BY <1>1, ConstantsAssumption DEF Init, RunTypeOK, Phases
<1>3. TagsFollowTheRegistry /\ TagsAreAccountedFor
  BY DEF Init, TagsFollowTheRegistry, TagsAreAccountedFor
<1>4. LoopsFollowNpm
  BY DEF Init, LoopsFollowNpm, After
<1>5. ShellInv
  BY DEF Init, ShellInv, OidcSeesNoToken, TokenIsBorrowed, TokenPhases, Environments, Sanitized
<1> QED BY <1>2, <1>3, <1>4, <1>5 DEF IInv, RunInv

\* A fault leaves a number within its bound.
LEMMA FaultBounds ==
  ASSUME NEW kind, budget \in 0..MaxFaults, Fault(kind) PROVE budget' \in 0..MaxFaults
BY ConstantsAssumption DEF Fault


--------------------------------------------------------------------------------

\* A run that fails leaves its manifest as interrupted; npm may have taken one of
\* its versions, and the remote some of its tags.
LEMMA FailInv ==
  ASSUME RunInv, Fail, budget' \in 0..MaxFaults, tlog' \subseteq Registered,
         UNCHANGED <<visible, deprecated, releases>>,
         registry \subseteq registry', registry' \subseteq registry \cup manifest,
         tags \subseteq tags', tags' \subseteq registry
  PROVE  RunInv'
<1> USE DEF RunInv, RunTypeOK, Fail, EndProcess
<1>1. RunTypeOK'
  <2>1. phase' \in Phases /\ manifest' \subseteq Registered /\ todo' \subseteq manifest'
    BY DEF Phases
  <2>2. attempt' \in 1..Attempts
    BY ConstantsAssumption
  <2> QED BY <2>1, <2>2
<1>2. TagsFollowTheRegistry'
  BY DEF TagsFollowTheRegistry
<1>3. LoopsFollowNpm'
  BY DEF LoopsFollowNpm, After
<1>4. TagsAreAccountedFor'
  BY DEF TagsAreAccountedFor
<1> QED BY <1>1, <1>2, <1>3, <1>4

\* The guard's two ways on, of a deprecation that did not succeed.
LEMMA GuardInv ==
  ASSUME RunInv, NEW p \in Registered, Current(p), Retry \/ GiveUp(p),
         phase \in {"deprecate", "deprecateToken"}, budget' \in 0..MaxFaults,
         UNCHANGED <<npm, github, interrupted>>
  PROVE  RunInv'
<1> USE ConstantsAssumption DEF RunInv, RunTypeOK, Phases, TagsFollowTheRegistry, LoopsFollowNpm, After,
         TagsAreAccountedFor, npm, github, Current
<1>1. CASE Retry
  BY <1>1 DEF Retry
<1>2. CASE GiveUp(p)
  BY <1>2 DEF GiveUp, Enter
<1> QED BY <1>1, <1>2

\* What the runs and npm know is inductive: one step per action of the script and
\* of npm.
LEMMA RunStep == ASSUME RunInv, [Next]_vars PROVE RunInv'
<1> USE DEF RunInv, RunTypeOK, Phases, TagsFollowTheRegistry, LoopsFollowNpm, After,
         TagsAreAccountedFor, run, npm, github
<1>1. ASSUME NEW p \in Registered, SkipPublished(p) PROVE RunInv'
  BY <1>1, ConstantsAssumption DEF SkipPublished, Current, Next1, Enter
<1>2. ASSUME NEW p \in Registered, Publish(p) PROVE RunInv'
  BY <1>2, ConstantsAssumption DEF Publish, Current, Next1, Enter, Take
<1>3. ASSUME NEW p \in Registered, PublishRefused(p) PROVE RunInv'
  <2>1. CASE Fallback
    BY <1>3, <2>1, ConstantsAssumption, FaultBounds DEF PublishRefused, WithToken, Current, NoFault
  <2>2. CASE ~Fallback
    BY <1>3, <2>2, FaultBounds, FailInv DEF PublishRefused, NoFault
  <2> QED BY <2>1, <2>2
<1>4. ASSUME NEW p \in Registered, PublishBreaks(p) PROVE RunInv'
  BY <1>4, FaultBounds, FailInv DEF PublishBreaks, Current, NoFault, Take
<1>5. ASSUME NEW p \in Registered, PublishWithToken(p) PROVE RunInv'
  BY <1>5, ConstantsAssumption DEF PublishWithToken, Current, Enter, Take
<1>6. ASSUME NEW p \in Registered, TokenRefused(p) PROVE RunInv'
  BY <1>6, FaultBounds, FailInv DEF TokenRefused, NoFault
<1>7. ASSUME NEW p \in Registered, Wait(p) PROVE RunInv'
  <2>1. CASE p \in visible
    <3>1. phase' = "deprecate" /\ todo' = todo /\ attempt' = 1 /\ UNCHANGED manifest
      BY <1>7, <2>1 DEF Wait, Enter
    <3>2. \A q \in todo' : Current(q)' => q \in visible'
      <4> SUFFICES ASSUME NEW q \in todo, Current(q)' PROVE q = p
        BY <1>7, <2>1, <3>1 DEF Wait
      <4> QED BY <1>7, <3>1, ConstantsAssumption DEF Wait, Current
    <3> QED BY <1>7, <2>1, <3>1, <3>2, ConstantsAssumption DEF Wait
  <2>2. CASE p \notin visible /\ attempt < Attempts
    <3>1. attempt' \in 1..Attempts
      BY <1>7, <2>2, ConstantsAssumption DEF Wait
    <3> QED BY <1>7, <2>2, <3>1 DEF Wait
  <2>3. CASE p \notin visible /\ attempt = Attempts
    BY <1>7, <2>3, ConstantsAssumption DEF Wait, Next1, Enter
  <2> QED BY <2>1, <2>2, <2>3, ConstantsAssumption
<1>8. ASSUME NEW p \in Registered, ViewThrows(p) PROVE RunInv'
  BY <1>8, FaultBounds, FailInv DEF ViewThrows
<1>9. ASSUME NEW p \in Registered, Deprecate(p) \/ DeprecateWithToken(p) PROVE RunInv'
  <2>1. p \in visible /\ p \in Deprecated
    BY <1>9 DEF Deprecate, DeprecateWithToken, Current
  <2>2. deprecated' = deprecated \cup {p} /\ Enter("wait", todo \ {p})
    BY <1>9 DEF Deprecate, DeprecateWithToken
  <2>3. /\ phase \in {"deprecate", "deprecateToken"}
        /\ UNCHANGED <<registry, visible, tlog, github, interrupted, budget>>
    BY <1>9 DEF Deprecate, DeprecateWithToken
  <2>4. RunTypeOK'
    <3>1. attempt' \in 1..Attempts
      BY <2>2, ConstantsAssumption DEF Enter
    <3>2. deprecated' \subseteq Deprecated \cap registry'
      BY <2>1, <2>2, <2>3
    <3> QED BY <2>2, <2>3, <3>1, <3>2 DEF Enter
  <2>5. TagsFollowTheRegistry' /\ TagsAreAccountedFor' /\ LoopsFollowNpm'
    BY <2>1, <2>2, <2>3 DEF Enter
  <2> QED BY <2>4, <2>5
<1>10. ASSUME NEW p \in Registered, DeprecateFails(p) \/ TokenDeprecationFails(p) PROVE RunInv'
  BY <1>10, GuardInv DEF DeprecateFails, TokenDeprecationFails
<1>22. ASSUME NEW p \in Registered, DeprecateRefused(p) PROVE RunInv'
  BY <1>22, ConstantsAssumption DEF DeprecateRefused, WithToken, Current
<1>23. ASSUME NEW p \in Registered, NpmrcFails(p) PROVE RunInv'
  <2>1. budget' \in 0..MaxFaults
    BY <1>23, FaultBounds DEF NpmrcFails
  <2>2. CASE Fail
    BY <1>23, <2>1, <2>2, FailInv DEF NpmrcFails
  <2>3. CASE phase = "deprecate" /\ GiveUp(p) /\ UNCHANGED interrupted
    BY <1>23, <2>1, <2>3, GuardInv DEF NpmrcFails
  <2> QED BY <1>23, <2>2, <2>3 DEF NpmrcFails
<1>11. ASSUME NEW p \in Registered, Release(p) PROVE RunInv'
  BY <1>11, ConstantsAssumption DEF Release, Current, Next1, Enter
<1>12. ASSUME NEW p \in Registered, ReleaseFails(p) PROVE RunInv'
  BY <1>12, ConstantsAssumption, FaultBounds DEF ReleaseFails, Current, Next1, Enter
<1>13. ASSUME NEW p \in Registered, BecomeVisible(p) PROVE RunInv'
  BY <1>13, ConstantsAssumption DEF BecomeVisible, Current
<1>14. CASE Plan
  BY <1>14, ConstantsAssumption DEF Plan
<1>15. CASE AllPublished
  BY <1>15, ConstantsAssumption DEF AllPublished, Enter
<1>16. CASE AllDeprecated
  BY <1>16, ConstantsAssumption DEF AllDeprecated, Enter
<1>17. CASE PushTags
  BY <1>17, ConstantsAssumption DEF PushTags, Enter
<1>18. CASE PushFails
  BY <1>18, FaultBounds, FailInv DEF PushFails
<1>19. CASE Finish
  BY <1>19, ConstantsAssumption DEF Finish, EndProcess
<1>20. CASE Crash
  BY <1>20, FaultBounds, FailInv DEF Crash
<1>21. CASE UNCHANGED vars
  BY <1>21 DEF vars, Current
<1> QED
  BY <1>1, <1>2, <1>3, <1>4, <1>5, <1>6, <1>7, <1>8, <1>9, <1>10, <1>11, <1>12, <1>13, <1>14, <1>15, <1>16, <1>17, <1>18, <1>19, <1>20, <1>21, <1>22, <1>23 DEF Next, Script

--------------------------------------------------------------------------------

\* The environment is inductive on its own: whatever a token attempt comes to, what
\* it found is put back, or its run has left the token behind and knows it.
LEMMA ShellStep == ASSUME ShellInv, [Next]_vars PROVE ShellInv'
<1>0. /\ Sanitized \in Environments /\ Sanitized.config = "oidc" /\ Sanitized.token = FALSE
      /\ [token |-> TRUE, config |-> "token"] \in Environments
  BY DEF Environments, Sanitized
<1>e. [token |-> TRUE, config |-> env.config] \in Environments
  BY DEF ShellInv, Environments
<1>1. ASSUME EndProcess PROVE ShellInv'
  <2>1. env' = Sanitized /\ saved' = Sanitized /\ unwritten' = FALSE /\ phase' = "idle"
    BY <1>1 DEF EndProcess
  <2> HIDE DEF Sanitized, Environments
  <2> QED BY <1>0, <2>1 DEF ShellInv, OidcSeesNoToken, TokenIsBorrowed, TokenPhases
<1> USE DEF ShellInv, OidcSeesNoToken, TokenIsBorrowed, TokenPhases, Environments, Sanitized, shell
<1>2. ASSUME NEW p \in Registered, PublishRefused(p) PROVE ShellInv'
  <2>1. CASE Fail
    BY <1>1, <2>1 DEF Fail
  <2>2. CASE WithToken("token")
    <3>1. /\ phase = "publish" /\ phase' = "token" /\ unwritten' = unwritten
          /\ saved' = env /\ env' = [token |-> TRUE, config |-> "token"]
      BY <1>2, <2>2 DEF PublishRefused, WithToken
    <3> QED BY <1>0, <3>1
  <2> QED BY <1>2, <2>1, <2>2 DEF PublishRefused
<1>3. ASSUME NEW p \in Registered, DeprecateRefused(p) PROVE ShellInv'
  BY <1>3 DEF DeprecateRefused, WithToken
<1>4. ASSUME NEW p \in Registered, PublishWithToken(p) PROVE ShellInv'
  BY <1>4 DEF PublishWithToken, Restore, Enter
<1>5. ASSUME NEW p \in Registered, DeprecateWithToken(p) PROVE ShellInv'
  BY <1>5 DEF DeprecateWithToken, Restore, Enter
<1>6. ASSUME NEW p \in Registered, TokenDeprecationFails(p) PROVE ShellInv'
  BY <1>6 DEF TokenDeprecationFails, Restore, Retry, GiveUp, Enter
<1>7. ASSUME NEW p \in Registered, NpmrcFails(p) PROVE ShellInv'
  <2>1. CASE Fail
    BY <1>1, <2>1 DEF Fail
  <2>2. CASE phase = "deprecate" /\ env' = [token |-> TRUE, config |-> env.config]
             /\ unwritten' = TRUE /\ GiveUp(p) /\ UNCHANGED saved
    <3>1. phase' = "wait"
      BY <2>2 DEF GiveUp, Enter
    <3> QED BY <1>e, <2>2, <3>1
  <2> QED BY <1>7, <2>1, <2>2 DEF NpmrcFails
<1>8. ASSUME NEW p \in Registered, PublishBreaks(p) \/ TokenRefused(p) \/ ViewThrows(p) PROVE ShellInv'
  BY <1>1, <1>8 DEF Fail, PublishBreaks, TokenRefused, ViewThrows
<1>9. ASSUME NEW p \in Registered,
             SkipPublished(p) \/ Publish(p) \/ Release(p) \/ ReleaseFails(p)
      PROVE  ShellInv'
  BY <1>9 DEF SkipPublished, Publish, Release, ReleaseFails, Next1, Enter
<1>10. ASSUME NEW p \in Registered, Wait(p) \/ Deprecate(p) \/ DeprecateFails(p) PROVE ShellInv'
  BY <1>10 DEF Wait, Deprecate, DeprecateFails, Retry, GiveUp, Next1, Enter
<1>11. ASSUME Plan \/ AllPublished \/ AllDeprecated \/ PushTags PROVE ShellInv'
  BY <1>11 DEF Plan, AllPublished, AllDeprecated, PushTags, Enter
<1>12. ASSUME PushFails \/ Finish \/ Crash PROVE ShellInv'
  BY <1>1, <1>12 DEF Fail, PushFails, Finish, Crash
<1>13. ASSUME NEW p \in Registered, BecomeVisible(p) PROVE ShellInv'
  BY <1>13 DEF BecomeVisible, run
<1>14. CASE UNCHANGED vars
  BY <1>14 DEF vars, run
<1> QED
  BY <1>2, <1>3, <1>4, <1>5, <1>6, <1>7, <1>8, <1>9, <1>10, <1>11, <1>12, <1>13, <1>14 DEF Next, Script

\* The invariant of the workflow.
LEMMA NextInv == ASSUME IInv, [Next]_vars PROVE IInv'
BY RunStep, ShellStep DEF IInv

\* Every variable of the workflow keeps its type; a package is deprecated only
\* when npm has it and its package.json says so.
THEOREM TypeCorrect == Spec => []TypeOK
<1>1. Init => IInv
  BY InitInv
<1>2. IInv /\ [Next]_vars => IInv'
  BY NextInv
<1>3. IInv => TypeOK
  BY DEF IInv, RunInv, RunTypeOK, ShellInv, TypeOK
<1> QED BY <1>1, <1>2, <1>3, PTL DEF Spec

\* A tag or a release names a version npm has, and only a version npm shows is
\* deprecated, for every set of packages and however often the runs fail.
THEOREM TagsAreTrue == Spec => []TagsFollowTheRegistry
<1>1. Init => IInv
  BY InitInv
<1>2. IInv /\ [Next]_vars => IInv'
  BY NextInv
<1>3. IInv => TagsFollowTheRegistry
  BY DEF IInv, RunInv
<1> QED BY <1>1, <1>2, <1>3, PTL DEF Spec

\* Between runs only versions of a run that failed can be on npm without a tag.
THEOREM OnlyInterrupted == Spec => []OnlyInterruptedVersionsLackTags
<1>1. Init => IInv
  BY InitInv
<1>2. IInv /\ [Next]_vars => IInv'
  BY NextInv
<1>3. IInv => OnlyInterruptedVersionsLackTags
  BY DEF IInv, RunInv, LoopsFollowNpm, TagsAreAccountedFor, OnlyInterruptedVersionsLackTags
<1> QED BY <1>1, <1>2, <1>3, PTL DEF Spec

\* The token is borrowed: after any sequence of token attempts that succeeded,
\* were retried, given up or killed the environment is as OIDC wants it, but for
\* the token left behind by an npmrc that could not be written.
THEOREM OidcIsPure == Spec => []OidcSeesNoToken
<1>1. Init => IInv
  BY InitInv
<1>2. IInv /\ [Next]_vars => IInv'
  BY NextInv
<1>3. IInv => OidcSeesNoToken
  BY DEF IInv, ShellInv
<1> QED BY <1>1, <1>2, <1>3, PTL DEF Spec

================================================================================
