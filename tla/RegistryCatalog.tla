--------------------------- MODULE RegistryCatalog ---------------------------
(***************************************************************************)
(* Deletion of content from the managed registry: a preflight the user     *)
(* sees, a confirmation that repeats the preflight, and the deletion of    *)
(* manifests by digest.  Pushes and new references interleave with every   *)
(* step.  One repository is modelled; requests for two repositories share  *)
(* no state.                                                               *)
(***************************************************************************)
EXTENDS Naturals, FiniteSets

CONSTANTS Tags, Digests,
          References,      \* [kind, tag, digest]: what a release or template names
          Slots, MaxPushes, MaxRefs,
          None

VARIABLES tags,            \* the registry: the digest each tag points at, or None
          refs,            \* persisted references
          slots, pushes, refChanges

vars == <<tags, refs, slots, pushes, refChanges>>

Idle == [pc |-> "idle", tag |-> None, digest |-> None, affected |-> {}, seen |-> {},
         digests |-> {}, moved |-> {}, fresh |-> {}]
Present == {t \in Tags : tags[t] # None}

(***************************************************************************)
(* The catalog as one read sees it.                                        *)
(***************************************************************************)

allTags == Present

resolveTagManifests(names) == [t \in names |-> tags[t]]

tagsForDigest(digest) == {t \in allTags : resolveTagManifests(allTags)[t] = digest}

\* Mutant: only digests are compared.
matchesDigestOnly(digest, names, item) == item.digest = digest

\* An untagged template, and a template pinned to a digest, protect the whole
\* repository; a release protects its digest and its tag.
managedReferenceMatches(digest, names, item) ==
  \/ item.digest = digest
  \/ item.tag = None /\ item.kind = "template"
  \/ item.tag \in names

references(digest, names) == {item \in refs : managedReferenceMatches(digest, names, item)}

repositoryReferences ==
  UNION {references(d, tagsForDigest(d)) : d \in {tags[t] : t \in allTags}}

Init ==
  /\ tags = [t \in Tags |-> None] /\ refs = {}
  /\ slots = [s \in Slots |-> Idle] /\ pushes = 0 /\ refChanges = 0

Set(s, slot) == slots' = [slots EXCEPT ![s] = slot] /\ UNCHANGED <<tags, refs, pushes, refChanges>>
Reject(s) == Set(s, Idle)

(***************************************************************************)
(* The preflight the user confirms.                                        *)
(***************************************************************************)

PreflightTagDelete(s) ==
  /\ slots[s].pc = "idle"
  /\ \E t \in Present :
       LET digest == tags[t]
           affected == tagsForDigest(digest)
       IN  /\ references(digest, affected) = {}
           /\ Set(s, [Idle EXCEPT !.pc = "tag", !.tag = t, !.digest = digest,
                                  !.affected = affected, !.seen = {digest}])

PreflightRepositoryDelete(s) ==
  /\ slots[s].pc = "idle" /\ Present # {}
  /\ repositoryReferences = {}
  /\ Set(s, [Idle EXCEPT !.pc = "repository", !.affected = allTags,
                         !.seen = {tags[t] : t \in allTags}])

(***************************************************************************)
(* DeleteTag: the preflight again, compared with the confirmation.         *)
(***************************************************************************)

\* The tag's manifest is resolved first; the digest must be the confirmed one.
DeleteTagManifest(s) ==
  /\ slots[s].pc = "tag"
  /\ IF tags[slots[s].tag] = slots[s].digest
       THEN Set(s, [slots[s] EXCEPT !.pc = "tagAffected", !.moved = {}, !.fresh = {}])
       ELSE Reject(s)

\* Then every tag of that digest; the set must be the confirmed one.
DeleteTagAffected(s) ==
  /\ slots[s].pc = "tagAffected"
  /\ IF tagsForDigest(slots[s].digest) = slots[s].affected
       THEN Set(s, [slots[s] EXCEPT !.pc = "tagReferences", !.moved = {}])
       ELSE Reject(s)

DeleteTagReferences(s) ==
  /\ slots[s].pc = "tagReferences"
  /\ IF references(slots[s].digest, slots[s].affected) = {}
       THEN Set(s, [slots[s] EXCEPT !.pc = "delete", !.digests = {slots[s].digest}, !.fresh = {}])
       ELSE Reject(s)

(***************************************************************************)
(* DeleteRepository: the confirmation names tags only; the digests are     *)
(* resolved once more after the references were read.                      *)
(***************************************************************************)

DeleteRepositoryPreflight(s) ==
  /\ slots[s].pc = "repository"
  /\ IF allTags = slots[s].affected /\ repositoryReferences = {}
       THEN Set(s, [slots[s] EXCEPT !.pc = "resolve", !.moved = {}, !.fresh = {}])
       ELSE Reject(s)

\* A tag that is gone fails the resolution.
DeleteRepositoryResolve(s) ==
  /\ slots[s].pc = "resolve"
  /\ IF slots[s].affected \subseteq allTags
       THEN Set(s, [slots[s] EXCEPT !.pc = "delete",
                                    !.digests = {resolveTagManifests(slots[s].affected)[t] : t \in slots[s].affected}])
       ELSE Reject(s)

\* One manifest at a time, in the order of a Go map; the registry removes every
\* tag that points at the digest at that moment, and refuses an unknown digest.
DeleteManifest(s) ==
  /\ slots[s].pc = "delete"
  /\ \E d \in slots[s].digests :
       IF \E t \in Tags : tags[t] = d
         THEN /\ tags' = [t \in Tags |-> IF tags[t] = d THEN None ELSE tags[t]]
              /\ slots' = [slots EXCEPT ![s] =
                   IF slots[s].digests = {d} THEN Idle ELSE [@ EXCEPT !.digests = @ \ {d}]]
              /\ UNCHANGED <<refs, pushes, refChanges>>
         ELSE Reject(s)

(***************************************************************************)
(* Everyone else.                                                          *)
(***************************************************************************)

\* A build pushes a tag.
Push(t, d) ==
  /\ pushes < MaxPushes /\ tags[t] # d
  /\ pushes' = pushes + 1
  /\ tags' = [tags EXCEPT ![t] = d]
  /\ slots' = [s \in Slots |-> [slots[s] EXCEPT !.moved = IF slots[s].pc = "idle" THEN {} ELSE @ \cup {t}]]
  /\ UNCHANGED <<refs, refChanges>>

\* A release or a template starts or stops naming an image of the repository.
Refer(item) ==
  /\ refChanges < MaxRefs /\ refChanges' = refChanges + 1
  /\ refs' = IF item \in refs THEN refs \ {item} ELSE refs \cup {item}
  /\ slots' = [s \in Slots |-> [slots[s] EXCEPT !.fresh = IF slots[s].pc = "idle" THEN {} ELSE @ \cup {item}]]
  /\ UNCHANGED <<tags, pushes>>

Next ==
  \/ \E s \in Slots :
       \/ PreflightTagDelete(s) \/ PreflightRepositoryDelete(s)
       \/ DeleteTagManifest(s) \/ DeleteTagAffected(s) \/ DeleteTagReferences(s)
       \/ DeleteRepositoryPreflight(s) \/ DeleteRepositoryResolve(s) \/ DeleteManifest(s)
  \/ \E t \in Tags, d \in Digests : Push(t, d)
  \/ \E item \in References : Refer(item)

Spec == Init /\ [][Next]_vars

(***************************************************************************)
(* Properties.                                                             *)
(***************************************************************************)

TypeOK ==
  /\ tags \in [Tags -> Digests \cup {None}] /\ refs \subseteq References
  /\ \A s \in Slots : slots[s].affected \cup slots[s].moved \subseteq Tags
                      /\ slots[s].digests \cup slots[s].seen \subseteq Digests

Removed == {t \in Tags : tags[t] # None /\ tags'[t] = None}
RemovedDigests == {tags[t] : t \in Removed}
Naming(d) == {item \in refs : item.digest = d \/ item.tag \in Removed}

\* DeleteManifest takes away only tags the user confirmed, and tags pushed since
\* the server compared the catalog with the confirmation.
DeletesConfirmedTags ==
  \A s \in Slots : DeleteManifest(s) => Removed \subseteq slots[s].affected \cup slots[s].moved

\* Content that a release or a template names is deleted only if the reference
\* was written, or the tags moved, after the server's second look.
ReferencedContentKept ==
  \A s \in Slots : DeleteManifest(s) =>
    \/ slots[s].moved # {}
    \/ \A d \in RemovedDigests : Naming(d) \subseteq slots[s].fresh
=============================================================================
