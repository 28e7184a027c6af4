------------------------------ MODULE Retention ------------------------------
(***************************************************************************)
(* Compaction of terminal archives (results/retention.py, objects.py).     *)
(*                                                                         *)
(* Two archives, one nested in the other, share a pool of compressed       *)
(* objects.  A compaction plans, stages compressed copies as hard links,   *)
(* commits a manifest, verifies it and only then removes originals.  Each  *)
(* archive has its own lease, so there is at most one compaction of each,  *)
(* but both may run at once.  A process may die or fail between any two    *)
(* steps, an original may change under it, an object may rot.              *)
(***************************************************************************)
EXTENDS Naturals, FiniteSets

CONSTANTS
  Files,          \* the files of both archives
  Nested,         \* those that lie in the nested archive
  Large,          \* at least 64 KiB, not a GDS, PNG or small JSON file
  Named,          \* content-addressed: the name is the digest of the bytes
  Prunable,       \* nested attachments of a successful process check
  Original,       \* [Files -> contents]: the bytes the run left
  Junk,           \* what a damaged file holds
  None,
  MaxFaults       \* how often a file is damaged or an object rots

ASSUME FilesAssumption ==
  /\ Nested \subseteq Files /\ Large \subseteq Files /\ Named \subseteq Files
  /\ Prunable \subseteq Nested \cap Named
  /\ Original \in [Files -> {Original[f] : f \in Files}]
  /\ Junk \notin {Original[f] : f \in Files}
  /\ {None, "omitted", "missing", "invalid"} \cap ({Original[f] : f \in Files} \cup {Junk}) = {}
  /\ MaxFaults \in Nat

Archives == {"outer", "inner"}
Contents == {Original[f] : f \in Files} \cup {Junk}

FilesOf(a) == IF a = "outer" THEN Files ELSE Nested
Own(a) == IF a = "outer" THEN Files \ Nested ELSE Nested

VARIABLES
  present,        \* the originals still on disk
  bytes,          \* what each original holds, or held when it was removed
  pool,           \* contents that have an object in the shared pool
  rotten,         \* those whose object no longer decodes to them
  linked,         \* the objects each archive has a link of
  manifest,       \* each archive's .retained/manifest.json
  compaction,     \* the process that compacts each archive
  sealed,         \* archives whose compaction has returned
  unpinned,       \* ghost: a compaction of the nested archive ran unpinned
  http,           \* the service's http.json beside the nested archive exists
  observed,       \* its redacted copy service-observations.json exists
  faults

diskVars == <<present, bytes>>
objectVars == <<pool, rotten>>
retireVars == <<http, observed>>
retentionVars == <<diskVars, objectVars, linked, manifest, compaction, sealed,
                   unpinned, retireVars, faults>>

\* An archive without a manifest reads as one whose manifest is empty.
EmptyManifest == [files |-> [f \in Files |-> None], omitted |-> {}]

Recorded(m) == {f \in Files : m.files[f] # None} \cup m.omitted

Idle == [stage |-> "idle", draft |-> EmptyManifest, todo |-> {}]

RetentionInit ==
  /\ present = Files /\ bytes = Original
  /\ pool = {} /\ rotten = {}
  /\ linked = [a \in Archives |-> {}]
  /\ manifest = [a \in Archives |-> EmptyManifest]
  /\ compaction = [a \in Archives |-> Idle]
  /\ sealed = {} /\ unpinned = FALSE
  /\ http = TRUE /\ observed = FALSE
  /\ faults = 0

-----------------------------------------------------------------------------
Sound(a, c) == c \in linked[a] \ rotten

\* What a manifest says of a file: nothing, an omission, or its object's bytes.
Resolve(a, f) ==
  IF f \in manifest[a].omitted THEN "omitted"
  ELSE IF manifest[a].files[f] = None THEN "missing"
  ELSE IF Sound(a, manifest[a].files[f]) THEN manifest[a].files[f] ELSE "invalid"

\* The nearest manifest that names the file decides.
Retained(f) ==
  IF f \in Nested /\ Resolve("inner", f) # "missing" THEN Resolve("inner", f)
  ELSE Resolve("outer", f)

Read(f) == IF f \in present THEN bytes[f] ELSE Retained(f)

-----------------------------------------------------------------------------
Action(f, pin) ==
  IF f \in Prunable /\ ~pin THEN "omit" ELSE IF f \in Large THEN "compress" ELSE "keep"

\* The files of archive a on disk that the plan treats in one way.  Only the
\* nested archive has process checks of its own.
Planned(a, pin, action) ==
  {f \in present \cap FilesOf(a) : Action(f, pin \/ a = "outer") = action}

\* Every file a report or result names is there, retained, or allowed to be
\* omitted: an archive that is already incomplete is not touched.
Complete(a) ==
  \A f \in Own(a) \ present :
    Retained(f) \in Contents \/ (Retained(f) = "omitted" /\ f \in Prunable)

\* What the parent holds of the nested archive and the nested one does not.
Inherited(a) ==
  IF a = "outer" THEN {}
  ELSE {f \in Nested \ Recorded(manifest["inner"]) : manifest["outer"].files[f] # None}

Genuine(f) == bytes[f] = Original[f]

CompactStarts(a, pin) ==
  LET inherited == Inherited(a)
      objects == {manifest["outer"].files[f] : f \in inherited}
      old == manifest[a]
      omitting == Planned(a, pin, "omit")
      kept == [f \in Files |-> IF f \in inherited THEN manifest["outer"].files[f]
                               ELSE old.files[f]]
  IN
  /\ compaction[a] = Idle
  /\ Complete(a)
  /\ \A c \in objects : Sound("outer", c)
  /\ ~(pin /\ old.omitted # {})
  /\ \A f \in omitting \cup (Planned(a, pin, "keep") \cap Named) : Genuine(f)
  /\ linked' = [linked EXCEPT ![a] = @ \cup objects]
  /\ compaction' = [compaction EXCEPT ![a] =
       [stage |-> "staging", todo |-> Planned(a, pin, "compress"),
        draft |-> [files |-> kept, omitted |-> old.omitted \cup omitting]]]
  /\ unpinned' = (unpinned \/ (a = "inner" /\ ~pin))
  /\ UNCHANGED <<diskVars, objectVars, manifest, sealed, retireVars, faults>>

\* compress_file puts an object into the pool or verifies the one there; the
\* archive gets a link of it, which is read back before it is recorded.
Stages(a, f) ==
  /\ compaction[a].stage = "staging" /\ f \in compaction[a].todo
  /\ f \in present
  /\ f \in Named => Genuine(f)
  /\ bytes[f] \notin rotten
  /\ pool' = pool \cup {bytes[f]}
  /\ linked' = [linked EXCEPT ![a] = @ \cup {bytes[f]}]
  /\ compaction' = [compaction EXCEPT ![a].todo = @ \ {f},
                                      ![a].draft.files[f] = bytes[f]]
  /\ UNCHANGED <<diskVars, rotten, manifest, sealed, unpinned, retireVars, faults>>

CommitsManifest(a) ==
  /\ compaction[a].stage = "staging" /\ compaction[a].todo = {}
  /\ manifest' = [manifest EXCEPT ![a] = compaction[a].draft]
  /\ compaction' = [compaction EXCEPT ![a].stage = "verifying"]
  /\ UNCHANGED <<diskVars, objectVars, linked, sealed, unpinned, retireVars, faults>>

\* Mutant: objects are looked up but not decoded again.
VerifiedPresence(a) ==
  \A f \in Files : manifest[a].files[f] # None =>
    /\ manifest[a].files[f] \in linked[a]
    /\ f \in present => bytes[f] = manifest[a].files[f]

\* verify_archive: every object decodes, every original left is the one recorded.
Verified(a) ==
  \A f \in Files : manifest[a].files[f] # None =>
    /\ Sound(a, manifest[a].files[f])
    /\ f \in present => bytes[f] = manifest[a].files[f]

\* The originals a compaction removes, those an earlier one left included.
Removable(a) == present \cap Recorded(manifest[a])

Verifies(a) ==
  /\ compaction[a].stage = "verifying"
  /\ Verified(a)
  /\ compaction' = [compaction EXCEPT ![a].stage = "removing"]
  /\ UNCHANGED <<diskVars, objectVars, linked, manifest, sealed, unpinned, retireVars, faults>>

Removes(a, f) ==
  /\ compaction[a].stage = "removing" /\ f \in Removable(a)
  /\ bytes[f] = (IF manifest[a].files[f] # None THEN manifest[a].files[f] ELSE Original[f])
  /\ present' = present \ {f}
  /\ UNCHANGED <<bytes, objectVars, linked, manifest, compaction, sealed, unpinned,
                 retireVars, faults>>

CompactReturns(a) ==
  /\ compaction[a].stage = "removing" /\ Removable(a) = {}
  /\ Verified(a)
  /\ compaction' = [compaction EXCEPT ![a] = Idle]
  /\ sealed' = sealed \cup {a}
  /\ UNCHANGED <<diskVars, objectVars, linked, manifest, unpinned, retireVars, faults>>

\* A check of the compaction fails and raises, or its process dies.
CompactStops(a) ==
  /\ compaction[a].stage # "idle"
  /\ compaction' = [compaction EXCEPT ![a] = Idle]
  /\ UNCHANGED <<diskVars, objectVars, linked, manifest, sealed, unpinned, retireVars, faults>>

-----------------------------------------------------------------------------
\* _retire_http: the redacted copy is written, or compared, before http.json,
\* which holds the session's credentials, is removed.
RetireStarts ==
  /\ compaction["inner"] = Idle /\ http
  /\ "inner" \in sealed /\ Verified("inner")
  /\ observed' = TRUE
  /\ compaction' = [compaction EXCEPT !["inner"].stage = "retiring"]
  /\ UNCHANGED <<diskVars, objectVars, linked, manifest, sealed, unpinned, http, faults>>

RetireEnds ==
  /\ compaction["inner"].stage = "retiring"
  /\ observed
  /\ http' = FALSE
  /\ compaction' = [compaction EXCEPT !["inner"] = Idle]
  /\ UNCHANGED <<diskVars, objectVars, linked, manifest, sealed, unpinned, observed, faults>>

-----------------------------------------------------------------------------
\* A writer that was not stopped, or the disk, changes an original.
Damage(f) ==
  /\ f \in present /\ faults < MaxFaults
  /\ bytes' = [bytes EXCEPT ![f] = Junk]
  /\ faults' = faults + 1
  /\ UNCHANGED <<present, objectVars, linked, manifest, compaction, sealed, unpinned,
                 retireVars>>

\* An object rots before anything was removed on the strength of it: after
\* that nothing could save the evidence.
Rot(c) ==
  /\ c \in pool \ rotten /\ faults < MaxFaults
  /\ \A a \in Archives : compaction[a].stage # "removing"
  /\ \A f \in Files \ present : Read(f) # c
  /\ rotten' = rotten \cup {c}
  /\ faults' = faults + 1
  /\ UNCHANGED <<diskVars, pool, linked, manifest, compaction, sealed, unpinned,
                 retireVars>>

RetentionNext ==
  \/ \E a \in Archives :
       \/ \E pin \in BOOLEAN : CompactStarts(a, pin)
       \/ \E f \in Files : Stages(a, f) \/ Removes(a, f)
       \/ CommitsManifest(a) \/ Verifies(a) \/ CompactReturns(a) \/ CompactStops(a)
  \/ RetireStarts \/ RetireEnds
  \/ \E f \in Files : Damage(f)
  \/ \E c \in Contents : Rot(c)

-----------------------------------------------------------------------------
\* A file that is gone still reads as its last bytes, or as those before it was
\* damaged, unless it is an intact attachment of a successful check that some
\* compaction was free to omit.
FilesReadable ==
  \A f \in Files \ present :
    \/ Read(f) \in {bytes[f], Original[f]}
    \/ Read(f) = "omitted" /\ f \in Prunable /\ Genuine(f) /\ unpinned

\* A nested archive that was compacted resolves its files by itself, so that a
\* copy of it alone is whole.
Portable ==
  "inner" \in sealed =>
    \A f \in Nested \ present : Resolve("inner", f) # "missing"

\* The service's observations are never lost to the removal of its credentials.
ObservationsKept == http \/ observed

\* results/retention.py: compaction loses no evidence, however often it is
\* interrupted and repeated, whoever runs beside it, whatever it is given.
EvidenceReadable == FilesReadable /\ Portable /\ ObservationsKept
=============================================================================
