-------------------------- MODULE ResultArchiveProofs --------------------------
(***************************************************************************)
(* Proofs about the compaction of exports and the archive they are         *)
(* imported into, for all files, contents, exports and importers.  That    *)
(* imports change nothing holds whatever is damaged.  That evidence stays  *)
(* readable, and the archive whole, holds as long as at most one thing is  *)
(* damaged: a second fault can spoil the copy that was to replace the file *)
(* the first one hit.  And about the run a result is published from: what  *)
(* is accepted as finished is bound to the verdict its report holds.  And  *)
(* about the packages that leave, and what simulators' logs conclude.      *)
(***************************************************************************)
EXTENDS ResultArchive, Integers, FiniteSetTheorems, SequenceTheorems, WellFoundedInduction, TLAPS

SingleFault == MaxFaults <= 1

Manifests == [files : [Files -> Contents \cup {None}], omitted : SUBSET Files]

RetentionTypes ==
  /\ present \subseteq Files /\ bytes \in [Files -> Contents]
  /\ pool \subseteq Contents /\ rotten \subseteq pool
  /\ linked \in [Archives -> SUBSET Contents]
  /\ manifest \in [Archives -> Manifests]
  /\ compaction \in [Archives -> [stage : {"idle", "staging", "verifying", "removing", "retiring"},
                                  draft : Manifests, todo : SUBSET Files]]
  /\ faults \in Nat

\* Nothing but the fault itself is damaged.
Faulty ==
  /\ \A f \in Files : bytes[f] \in {Original[f], Junk}
  /\ faults = 0 => bytes = Original /\ rotten = {}
  /\ rotten # {} => bytes = Original

\* What a manifest, or its draft, may say: a file has a link of an object that
\* holds its last bytes, or those before it was damaged; an omission is one a
\* compaction of the nested archive was free to make.
Recording(a, m) ==
  /\ \A f \in Files : m.files[f] # None =>
       /\ f \in FilesOf(a) \cap Large
       /\ m.files[f] \in linked[a] /\ m.files[f] \in {Original[f], bytes[f]}
       /\ f \in Named => m.files[f] = Original[f]
  /\ \A f \in m.omitted : a = "inner" /\ f \in Prunable /\ unpinned

\* A draft goes beyond the manifest it replaces.
Drafting(a) ==
  LET draft == compaction[a].draft IN
  /\ Recording(a, draft)
  /\ compaction[a].todo \subseteq FilesOf(a) \cap Large
  /\ manifest[a].omitted \subseteq draft.omitted
  /\ \A f \in Files : manifest[a].files[f] # None => draft.files[f] # None

\* Originals are removed only under a manifest whose objects were all decoded.
Checked(a) == \A f \in Files : manifest[a].files[f] # None => manifest[a].files[f] \notin rotten

Noted ==
  \A a \in Archives :
    /\ Recording(a, manifest[a])
    /\ compaction[a].stage = "staging" => Drafting(a)
    /\ compaction[a].stage = "removing" => Checked(a)

\* Nobody but a compaction of the nested archive removes a file that the
\* nested archive keeps: it is too small.
Covers(S) == \A f \in Nested : f \in S \/ f \in present \ Large

NestedWhole ==
  /\ compaction["inner"].stage = "staging" =>
       Covers(Recorded(compaction["inner"].draft) \cup compaction["inner"].todo)
  /\ "inner" \in sealed \/ compaction["inner"].stage \in {"verifying", "removing"} =>
       Covers(Recorded(manifest["inner"]))

\* The manifest that decides about a file that is gone has a sound object of
\* it, or omits it.
Deciding(f) == IF f \in Nested /\ f \in Recorded(manifest["inner"]) THEN "inner" ELSE "outer"

Secured ==
  \A f \in Files \ present :
    /\ f \in Recorded(manifest[Deciding(f)])
    /\ f \in manifest[Deciding(f)].omitted \/ manifest[Deciding(f)].files[f] \notin rotten
    /\ f \in Named => Genuine(f)

RetentionInv ==
  /\ RetentionTypes /\ Faulty /\ Noted /\ NestedWhole /\ Secured /\ ObservationsKept

-----------------------------------------------------------------------------
(* What a manifest says, and what reading makes of it                      *)

LEMMA ContentsApart == Contents \cap {None, "omitted", "missing", "invalid"} = {}
BY FilesAssumption DEF Contents

LEMMA ResolveMeans ==
    ASSUME RetentionTypes, NEW a \in Archives, NEW f \in Files
    PROVE /\ Resolve(a, f) = "missing" <=> f \notin Recorded(manifest[a])
          /\ Resolve(a, f) = "omitted" <=> f \in manifest[a].omitted
          /\ Resolve(a, f) \in Contents =>
               f \notin manifest[a].omitted /\ Resolve(a, f) = manifest[a].files[f]
          /\ f \in Recorded(manifest[a]) \ manifest[a].omitted
               /\ manifest[a].files[f] \in linked[a] \ rotten =>
               Resolve(a, f) = manifest[a].files[f]
<1>1. manifest[a] \in Manifests
  BY DEF RetentionTypes
<1>2. manifest[a].files[f] \in Contents \cup {None} /\ manifest[a].omitted \subseteq Files
  BY <1>1 DEF Manifests
<1> QED BY <1>2, ContentsApart DEF Resolve, Recorded, Sound

\* A file that is gone reads as what the deciding manifest says.
LEMMA ReadsDecided ==
    ASSUME RetentionTypes, Noted, Secured, NEW f \in Files \ present
    PROVE LET a == Deciding(f) IN
          /\ a \in Archives /\ f \in FilesOf(a)
          /\ f \in manifest[a].omitted => Read(f) = "omitted"
          /\ f \notin manifest[a].omitted =>
               /\ manifest[a].files[f] # None /\ manifest[a].files[f] \in linked[a] \ rotten
               /\ Read(f) = manifest[a].files[f]
<1> DEFINE a == Deciding(f)
<1>1. a \in Archives
  BY DEF Deciding, Archives
<1>2. Read(f) = Resolve(a, f) /\ f \in FilesOf(a)
  BY ResolveMeans DEF Read, Retained, Deciding, Archives, FilesOf
<1>3. f \in Recorded(manifest[a])
  BY DEF Secured
<1>4. CASE f \in manifest[a].omitted
  BY <1>1, <1>2, <1>4, ResolveMeans
<1>5. CASE f \notin manifest[a].omitted
  <2>1. manifest[a].files[f] # None
    BY <1>3, <1>5 DEF Recorded
  <2>2. manifest[a].files[f] \in linked[a] \ rotten
    BY <1>1, <1>5, <2>1 DEF Secured, Noted, Recording
  <2> QED BY <1>1, <1>2, <1>3, <1>5, <2>1, <2>2, ResolveMeans
<1> QED BY <1>1, <1>2, <1>4, <1>5

\* The invariant implies what is promised.
LEMMA RetentionKeepsEvidence == ASSUME RetentionInv PROVE EvidenceReadable
<1> USE DEF RetentionInv
<1>1. FilesReadable
  <2> SUFFICES ASSUME NEW f \in Files \ present
               PROVE \/ Read(f) \in {bytes[f], Original[f]}
                     \/ Read(f) = "omitted" /\ f \in Prunable /\ Genuine(f) /\ unpinned
    BY DEF FilesReadable
  <2> DEFINE a == Deciding(f)
  <2>1. a \in Archives
    BY ReadsDecided
  <2>2. CASE f \in manifest[a].omitted
    <3>1. f \in Prunable /\ unpinned
      BY <2>1, <2>2 DEF Noted, Recording
    <3>2. Genuine(f)
      BY <3>1, FilesAssumption DEF Secured
    <3> QED BY <2>2, <3>1, <3>2, ReadsDecided
  <2>3. CASE f \notin manifest[a].omitted
    BY <2>1, <2>3, ReadsDecided DEF Noted, Recording
  <2> QED BY <2>2, <2>3
<1>2. Portable
  BY ResolveMeans, FilesAssumption DEF Portable, NestedWhole, Covers, Archives
<1> QED BY <1>1, <1>2 DEF EvidenceReadable

-----------------------------------------------------------------------------
(* What the steps of a compaction leave alone                              *)

\* A manifest stays right while links and omissions grow.
LEMMA RecordingStays ==
    ASSUME NEW a \in Archives, NEW m, Recording(a, m), linked[a] \subseteq linked'[a],
           unpinned => unpinned', UNCHANGED bytes
    PROVE Recording(a, m)'
BY DEF Recording

LEMMA DraftingStays ==
    ASSUME RetentionTypes, NEW a \in Archives, Drafting(a), compaction'[a] = compaction[a], manifest'[a] = manifest[a],
           linked[a] \subseteq linked'[a], unpinned => unpinned', UNCHANGED bytes
    PROVE Drafting(a)'
BY DEF Drafting, Recording

\* A step of one compaction that leaves the disk, the objects' health and the
\* manifests.
LEMMA CompactionGoesOn ==
    ASSUME RetentionInv, NEW a \in Archives, UNCHANGED <<diskVars, rotten, manifest, faults>>,
           NEW c \in [stage : {"idle", "staging", "verifying", "removing", "retiring"},
                      draft : Manifests, todo : SUBSET Files],
           compaction' = [compaction EXCEPT ![a] = c],
           pool \subseteq pool', pool' \subseteq Contents,
           linked' \in [Archives -> SUBSET Contents], \A b \in Archives : linked[b] \subseteq linked'[b],
           unpinned => unpinned',
           c.stage = "staging" => Drafting(a)',
           c.stage = "removing" => Checked(a),
           a = "inner" =>
             /\ c.stage = "staging" => Covers(Recorded(c.draft) \cup c.todo)
             /\ c.stage \in {"verifying", "removing"} =>
                  "inner" \in sealed \/ compaction["inner"].stage \in {"verifying", "removing"}
             /\ "inner" \in sealed' =>
                  "inner" \in sealed \/ compaction["inner"].stage \in {"verifying", "removing"},
           a # "inner" => ("inner" \in sealed' => "inner" \in sealed),
           ObservationsKept'
    PROVE RetentionInv'
<1> USE DEF RetentionInv
<1>1. /\ UNCHANGED <<present, bytes>> /\ compaction \in [Archives ->
           [stage : {"idle", "staging", "verifying", "removing", "retiring"},
            draft : Manifests, todo : SUBSET Files]]
      /\ compaction'[a] = c /\ \A b \in Archives \ {a} : compaction'[b] = compaction[b]
  BY DEF diskVars, RetentionTypes
<1>2. RetentionTypes'
  BY <1>1 DEF RetentionTypes
<1>3. Faulty'
  BY <1>1 DEF Faulty
<1>4. Noted'
  <2> SUFFICES ASSUME NEW b \in Archives
               PROVE /\ Recording(b, manifest[b])'
                     /\ compaction'[b].stage = "staging" => Drafting(b)'
                     /\ compaction'[b].stage = "removing" => Checked(b)'
    BY DEF Noted
  <2>1. Recording(b, manifest[b])'
    BY <1>1 DEF Noted, Recording
  <2>2. compaction'[b].stage = "staging" => Drafting(b)'
    BY <1>1, DraftingStays DEF Noted
  <2>3. compaction'[b].stage = "removing" => Checked(b)'
    BY <1>1 DEF Noted, Checked
  <2> QED BY <2>1, <2>2, <2>3
<1>5. NestedWhole'
  BY <1>1 DEF NestedWhole, Covers, Recorded, Archives
<1>6. Secured'
  BY <1>1 DEF Secured, Deciding, Genuine, Recorded
<1> QED BY <1>2, <1>3, <1>4, <1>5, <1>6

-----------------------------------------------------------------------------
(* A compaction begins                                                     *)

\* What is planned fits the files and the archive it is planned for.
LEMMA PlansFit ==
    ASSUME RetentionTypes, NEW a \in Archives, NEW pin \in BOOLEAN
    PROVE /\ Planned(a, pin, "compress") \subseteq FilesOf(a) \cap Large
          /\ Planned(a, pin, "omit") \subseteq Prunable
          /\ Planned(a, pin, "omit") # {} => a = "inner" /\ ~pin
          /\ \A f \in present \cap FilesOf(a) :
               f \in Planned(a, pin, "omit") \cup Planned(a, pin, "compress") \/ f \notin Large
BY DEF Planned, Action, Archives

\* The draft of a compaction that starts.
LEMMA StartDrafts ==
    ASSUME RetentionInv, NEW a \in Archives, NEW pin \in BOOLEAN, CompactStarts(a, pin),
           NEW c, c = compaction'[a]
    PROVE /\ c \in [stage : {"idle", "staging", "verifying", "removing", "retiring"},
                    draft : Manifests, todo : SUBSET Files]
          /\ c.stage = "staging" /\ c.todo = Planned(a, pin, "compress")
          /\ c.draft.omitted = manifest[a].omitted \cup Planned(a, pin, "omit")
          /\ \A f \in Files : c.draft.files[f] =
               IF f \in Inherited(a) THEN manifest["outer"].files[f] ELSE manifest[a].files[f]
          /\ linked' = [linked EXCEPT ![a] = @ \cup {manifest["outer"].files[f] : f \in Inherited(a)}]
          /\ {manifest["outer"].files[f] : f \in Inherited(a)} \subseteq Contents
<1> USE DEF RetentionInv
<1> DEFINE kept == [f \in Files |-> IF f \in Inherited(a) THEN manifest["outer"].files[f]
                                    ELSE manifest[a].files[f]]
           omitting == manifest[a].omitted \cup Planned(a, pin, "omit")
<1>1. c = [stage |-> "staging", todo |-> Planned(a, pin, "compress"),
           draft |-> [files |-> kept, omitted |-> omitting]]
  BY DEF CompactStarts, RetentionTypes
<1>2. \A b \in Archives : manifest[b] \in Manifests
  BY DEF RetentionTypes
<1>3. "outer" \in Archives /\ "inner" \in Archives
  BY DEF Archives
<1>4. kept \in [Files -> Contents \cup {None}]
  BY <1>2, <1>3 DEF Manifests
<1>5. omitting \in SUBSET Files /\ Planned(a, pin, "compress") \in SUBSET Files
  BY <1>2, FilesAssumption DEF Manifests, Planned, FilesOf
<1>6. [files |-> kept, omitted |-> omitting] \in Manifests
  BY <1>4, <1>5 DEF Manifests
<1>7. Inherited(a) \subseteq Files
  BY FilesAssumption DEF Inherited
<1>8. {manifest["outer"].files[f] : f \in Inherited(a)} \subseteq Contents
  BY <1>2, <1>3, <1>7, FilesAssumption DEF Manifests, Inherited
<1>9. linked' = [linked EXCEPT ![a] = @ \cup {manifest["outer"].files[f] : f \in Inherited(a)}]
  BY DEF CompactStarts
<1>10. c.draft.files = kept /\ c.draft.omitted = omitting
  BY <1>1
<1> HIDE DEF kept, omitting
<1>11. c \in [stage : {"idle", "staging", "verifying", "removing", "retiring"},
              draft : Manifests, todo : SUBSET Files]
  BY <1>1, <1>5, <1>6
<1>12. c.stage = "staging" /\ c.todo = Planned(a, pin, "compress")
  BY <1>1
<1> QED BY <1>8, <1>9, <1>10, <1>11, <1>12 DEF kept, omitting

\* A nested archive that starts to be compacted accounts for all its files.
LEMMA StartCovers ==
    ASSUME RetentionInv, NEW pin \in BOOLEAN, CompactStarts("inner", pin),
           NEW c, c = compaction'["inner"]
    PROVE Covers(Recorded(c.draft) \cup c.todo)
<1> USE DEF RetentionInv
<1>1. "outer" \in Archives /\ "inner" \in Archives
  BY DEF Archives
<1> SUFFICES ASSUME NEW f \in Nested, f \notin present \ Large
             PROVE f \in Recorded(c.draft) \cup c.todo
  BY DEF Covers
<1>2. f \in Files /\ f \in FilesOf("inner") /\ f \in Own("inner")
  BY FilesAssumption DEF FilesOf, Own
<1>3. /\ c.todo = Planned("inner", pin, "compress")
      /\ c.draft.omitted = manifest["inner"].omitted \cup Planned("inner", pin, "omit")
      /\ c.draft.files[f] = IF f \in Inherited("inner") THEN manifest["outer"].files[f]
                            ELSE manifest["inner"].files[f]
  BY <1>1, <1>2, StartDrafts
<1>4. Inherited("inner") = {g \in Nested \ Recorded(manifest["inner"]) : manifest["outer"].files[g] # None}
  BY DEF Inherited
<1>5. CASE f \in present
  <2>1. f \in Planned("inner", pin, "omit") \cup Planned("inner", pin, "compress")
    BY <1>1, <1>2, <1>5, PlansFit
  <2> QED BY <1>2, <1>3, <2>1 DEF Recorded
<1>6. CASE f \in Recorded(manifest["inner"])
  BY <1>2, <1>3, <1>4, <1>6 DEF Recorded
<1>7. CASE f \notin present /\ f \notin Recorded(manifest["inner"])
  <2>1. Retained(f) \in Contents \/ Retained(f) = "omitted"
    BY <1>2, <1>7 DEF CompactStarts, Complete
  <2>2. Retained(f) = Resolve("outer", f)
    BY <1>1, <1>2, <1>7, ResolveMeans DEF Retained
  <2>3. f \notin manifest["outer"].omitted
    BY <1>1 DEF Noted, Recording
  <2>4. Resolve("outer", f) \in Contents
    BY <1>1, <1>2, <2>1, <2>2, <2>3, ResolveMeans
  <2>5. manifest["outer"].files[f] # None
    BY <1>1, <1>2, <2>4, ResolveMeans, ContentsApart
  <2> QED BY <1>2, <1>3, <1>4, <1>7, <2>5 DEF Recorded
<1> QED BY <1>5, <1>6, <1>7

LEMMA CompactStartsKeeps ==
    ASSUME RetentionInv, NEW a \in Archives, NEW pin \in BOOLEAN, CompactStarts(a, pin)
    PROVE RetentionInv'
<1> USE DEF RetentionInv
<1>1. PICK c : c = compaction'[a]
  OBVIOUS
<1> DEFINE objects_ == {manifest["outer"].files[f] : f \in Inherited(a)}
<1>2. /\ c \in [stage : {"idle", "staging", "verifying", "removing", "retiring"},
                draft : Manifests, todo : SUBSET Files]
      /\ c.stage = "staging" /\ c.todo = Planned(a, pin, "compress")
      /\ c.draft.omitted = manifest[a].omitted \cup Planned(a, pin, "omit")
      /\ \A f \in Files : c.draft.files[f] =
           IF f \in Inherited(a) THEN manifest["outer"].files[f] ELSE manifest[a].files[f]
      /\ linked' = [linked EXCEPT ![a] = @ \cup objects_]
      /\ objects_ \subseteq Contents
  BY <1>1, StartDrafts
<1>3. /\ UNCHANGED <<diskVars, objectVars, manifest, sealed, retireVars, faults>>
      /\ compaction' = [compaction EXCEPT ![a] = c]
      /\ unpinned' = (unpinned \/ (a = "inner" /\ ~pin))
  BY <1>1 DEF CompactStarts, RetentionTypes
<1>4. bytes' = bytes /\ manifest' = manifest /\ (unpinned => unpinned')
  BY <1>3 DEF diskVars
<1>5. linked' \in [Archives -> SUBSET Contents]
      /\ \A b \in Archives : linked[b] \subseteq linked'[b]
      /\ objects_ \subseteq linked'[a]
  BY <1>2 DEF RetentionTypes
<1>6. Drafting(a)'
  <2>1. Recording(a, c.draft)'
    <3>1. ASSUME NEW f \in Files, c.draft.files[f] # None
          PROVE /\ f \in FilesOf(a) \cap Large
                /\ c.draft.files[f] \in linked'[a] /\ c.draft.files[f] \in {Original[f], bytes[f]}
                /\ f \in Named => c.draft.files[f] = Original[f]
      <4>1. CASE f \in Inherited(a)
        <5>1. a = "inner" /\ f \in Nested /\ "outer" \in Archives
          BY <4>1 DEF Inherited, Archives
        <5>2. c.draft.files[f] = manifest["outer"].files[f] /\ c.draft.files[f] \in objects_
          BY <1>2, <4>1
        <5> QED BY <1>5, <3>1, <5>1, <5>2 DEF Noted, Recording, FilesOf
      <4>2. CASE f \notin Inherited(a)
        BY <1>2, <1>5, <3>1, <4>2 DEF Noted, Recording
      <4> QED BY <4>1, <4>2
    <3>2. ASSUME NEW f \in c.draft.omitted
          PROVE a = "inner" /\ f \in Prunable /\ unpinned'
      <4>1. CASE f \in manifest[a].omitted
        BY <1>4, <4>1 DEF Noted, Recording
      <4>2. CASE f \in Planned(a, pin, "omit")
        BY <1>3, <4>2, PlansFit
      <4> QED BY <1>2, <4>1, <4>2
    <3> QED BY <1>4, <3>1, <3>2 DEF Recording
  <2>2. c.todo \subseteq FilesOf(a) \cap Large
    BY <1>2, PlansFit
  <2>3. manifest[a].omitted \subseteq c.draft.omitted
    BY <1>2
  <2>4. \A f \in Files : manifest[a].files[f] # None => c.draft.files[f] # None
    BY <1>2 DEF Inherited
  <2> QED BY <1>1, <1>4, <2>1, <2>2, <2>3, <2>4 DEF Drafting
<1>7. a = "inner" => Covers(Recorded(c.draft) \cup c.todo)
  BY <1>1, StartCovers
<1> HIDE DEF objects_
<1> QED
  <2>1. UNCHANGED <<diskVars, rotten, manifest, faults>> /\ pool' = pool /\ sealed' = sealed
        /\ http' = http /\ observed' = observed
    BY <1>3 DEF objectVars, retireVars
  <2>2. ObservationsKept' /\ pool \subseteq Contents
    BY <2>1 DEF ObservationsKept, RetentionTypes
  <2> QED BY <1>2, <1>3, <1>4, <1>5, <1>6, <1>7, <2>1, <2>2, CompactionGoesOn

LEMMA StagesKeeps ==
    ASSUME RetentionInv, NEW a \in Archives, NEW f \in Files, Stages(a, f)
    PROVE RetentionInv'
<1> USE DEF RetentionInv
<1>1. PICK c : c = compaction'[a]
  OBVIOUS
<1>2. PICK m : m = compaction[a].draft
  OBVIOUS
<1>3. m \in Manifests /\ bytes[f] \in Contents /\ compaction[a].todo \in SUBSET Files
  BY <1>2 DEF RetentionTypes
<1>4. c.stage = "staging" /\ c.todo = compaction[a].todo \ {f}
      /\ c.draft = [m EXCEPT !.files[f] = bytes[f]]
      /\ compaction' = [compaction EXCEPT ![a] = c]
      /\ c = [compaction[a] EXCEPT !.todo = @ \ {f}, !.draft.files[f] = bytes[f]]
  BY <1>1, <1>2 DEF Stages, RetentionTypes
<1>5. c.draft \in Manifests /\ c.draft.omitted = m.omitted
      /\ c.draft.files = [m.files EXCEPT ![f] = bytes[f]]
  BY <1>3, <1>4 DEF Manifests
<1>6. c \in [stage : {"idle", "staging", "verifying", "removing", "retiring"},
             draft : Manifests, todo : SUBSET Files]
  <2>1. compaction[a] \in [stage : {"idle", "staging", "verifying", "removing", "retiring"},
             draft : Manifests, todo : SUBSET Files]
    BY DEF RetentionTypes
  <2>2. c = [stage |-> compaction[a].stage, draft |-> c.draft, todo |-> c.todo]
    BY <1>4, <2>1
  <2>3. c.todo \in SUBSET Files
    BY <1>3, <1>4
  <2> QED BY <1>5, <2>1, <2>2, <2>3
<1>7. /\ UNCHANGED <<diskVars, rotten, manifest, sealed, unpinned, retireVars, faults>>
      /\ pool' = pool \cup {bytes[f]} /\ linked' = [linked EXCEPT ![a] = @ \cup {bytes[f]}]
      /\ f \in compaction[a].todo /\ (f \in Named => Genuine(f))
      /\ compaction[a].stage = "staging"
  BY DEF Stages
<1>8. pool' \subseteq Contents /\ linked' \in [Archives -> SUBSET Contents]
      /\ \A b \in Archives : linked[b] \subseteq linked'[b]
      /\ bytes[f] \in linked'[a] /\ bytes' = bytes /\ manifest' = manifest
  BY <1>3, <1>7 DEF RetentionTypes, diskVars
<1>9. Drafting(a)
  BY <1>7 DEF Noted
<1>10. Drafting(a)'
  <2>1. ASSUME NEW g \in Files
        PROVE c.draft.files[g] = IF g = f THEN bytes[f] ELSE m.files[g]
    BY <1>3, <1>5 DEF Manifests
  <2>2. Recording(a, c.draft)'
    <3>1. Recording(a, m) /\ f \in FilesOf(a) \cap Large
      BY <1>2, <1>7, <1>9 DEF Drafting
    <3>2. ASSUME NEW g \in Files, c.draft.files[g] # None
          PROVE /\ g \in FilesOf(a) \cap Large
                /\ c.draft.files[g] \in linked'[a] /\ c.draft.files[g] \in {Original[g], bytes[g]}
                /\ g \in Named => c.draft.files[g] = Original[g]
      <4>1. CASE g = f
        BY <1>7, <1>8, <2>1, <3>1, <4>1 DEF Genuine
      <4>2. CASE g # f
        BY <1>8, <2>1, <3>1, <3>2, <4>2 DEF Recording
      <4> QED BY <4>1, <4>2
    <3> QED BY <1>5, <1>7, <1>8, <3>1, <3>2 DEF Recording
  <2>3. c.todo \subseteq FilesOf(a) \cap Large /\ manifest[a].omitted \subseteq c.draft.omitted
    BY <1>2, <1>4, <1>5, <1>9 DEF Drafting
  <2>4. \A g \in Files : manifest[a].files[g] # None => c.draft.files[g] # None
    BY <1>2, <1>3, <1>9, <2>1, ContentsApart DEF Drafting
  <2> QED BY <1>1, <1>8, <2>2, <2>3, <2>4 DEF Drafting
<1>11. a = "inner" => Covers(Recorded(c.draft) \cup c.todo)
  <2>1. Recorded(m) \cup compaction[a].todo \subseteq Recorded(c.draft) \cup c.todo
    <3>1. bytes[f] # None /\ c.draft.files[f] = bytes[f]
      BY <1>3, <1>5, ContentsApart DEF Manifests
    <3>2. \A g \in Files \ {f} : c.draft.files[g] = m.files[g]
      BY <1>3, <1>5 DEF Manifests
    <3> QED BY <1>3, <1>4, <1>5, <3>1, <3>2 DEF Recorded
  <2> QED BY <1>2, <1>7, <2>1 DEF NestedWhole, Covers
<1> QED
  <2>1. UNCHANGED <<diskVars, rotten, manifest, faults>> /\ sealed' = sealed /\ unpinned' = unpinned
        /\ http' = http /\ observed' = observed
    BY <1>7 DEF retireVars
  <2>2. ObservationsKept' /\ pool \subseteq pool'
    BY <1>7, <2>1 DEF ObservationsKept
  <2> QED BY <1>4, <1>6, <1>8, <1>10, <1>11, <2>1, <2>2, CompactionGoesOn

-----------------------------------------------------------------------------
(* A compaction goes on, ends or stops                                     *)

\* A step that only moves a compaction to another stage, not to staging.
LEMMA StageMovesOn ==
    ASSUME RetentionInv, NEW a \in Archives,
           NEW stage \in {"idle", "verifying", "removing", "retiring"},
           NEW draft \in Manifests, NEW todo \in SUBSET Files,
           compaction' = [compaction EXCEPT ![a] = [stage |-> stage, draft |-> draft, todo |-> todo]],
           UNCHANGED <<diskVars, objectVars, linked, manifest, unpinned, faults>>,
           stage = "removing" => Checked(a),
           a = "inner" =>
             /\ stage \in {"verifying", "removing"} =>
                  "inner" \in sealed \/ compaction["inner"].stage \in {"verifying", "removing"}
             /\ "inner" \in sealed' =>
                  "inner" \in sealed \/ compaction["inner"].stage \in {"verifying", "removing"},
           a # "inner" => ("inner" \in sealed' => "inner" \in sealed),
           ObservationsKept'
    PROVE RetentionInv'
<1>1. PICK c : c = [stage |-> stage, draft |-> draft, todo |-> todo]
  OBVIOUS
<1>2. c \in [stage : {"idle", "staging", "verifying", "removing", "retiring"},
             draft : Manifests, todo : SUBSET Files]
      /\ c.stage = stage
  BY <1>1
<1>3. UNCHANGED <<diskVars, rotten, manifest, faults>> /\ pool' = pool /\ linked' = linked
      /\ unpinned' = unpinned
  BY DEF objectVars
<1>4. pool' \subseteq Contents /\ linked' \in [Archives -> SUBSET Contents]
  BY <1>3 DEF RetentionInv, RetentionTypes
<1>5. c.stage # "staging" /\ compaction' = [compaction EXCEPT ![a] = c]
  BY <1>1
<1>6. /\ pool \subseteq pool' /\ \A b \in Archives : linked[b] \subseteq linked'[b]
      /\ unpinned => unpinned'
  BY <1>3
<1>7. a = "inner" =>
        /\ c.stage = "staging" => Covers(Recorded(c.draft) \cup c.todo)
        /\ c.stage \in {"verifying", "removing"} =>
             "inner" \in sealed \/ compaction["inner"].stage \in {"verifying", "removing"}
        /\ "inner" \in sealed' =>
             "inner" \in sealed \/ compaction["inner"].stage \in {"verifying", "removing"}
  BY <1>2, <1>5
<1>8. c.stage = "removing" => Checked(a)
  BY <1>2
<1>9. c.stage = "staging" => Drafting(a)'
  BY <1>5
<1> QED BY <1>2, <1>3, <1>4, <1>5, <1>6, <1>7, <1>8, <1>9, CompactionGoesOn

LEMMA CompactionTyped ==
    ASSUME RetentionTypes, NEW a \in Archives
    PROVE /\ compaction[a].draft \in Manifests /\ compaction[a].todo \in SUBSET Files
          /\ compaction[a] = [stage |-> compaction[a].stage, draft |-> compaction[a].draft,
                              todo |-> compaction[a].todo]
          /\ EmptyManifest \in Manifests
          /\ Idle = [stage |-> "idle", draft |-> EmptyManifest, todo |-> {}]
          /\ \A s : [compaction EXCEPT ![a].stage = s] =
               [compaction EXCEPT ![a] = [stage |-> s, draft |-> compaction[a].draft,
                                          todo |-> compaction[a].todo]]
<1>1. compaction[a] \in [stage : {"idle", "staging", "verifying", "removing", "retiring"},
                         draft : Manifests, todo : SUBSET Files]
  BY DEF RetentionTypes
<1>2. EmptyManifest \in Manifests
  BY DEF EmptyManifest, Manifests
<1>3. \A s : [compaction[a] EXCEPT !.stage = s] =
        [stage |-> s, draft |-> compaction[a].draft, todo |-> compaction[a].todo]
  BY <1>1
<1>4. \A s : [compaction EXCEPT ![a].stage = s] =
               [compaction EXCEPT ![a] = [stage |-> s, draft |-> compaction[a].draft,
                                          todo |-> compaction[a].todo]]
  BY <1>3
<1> QED BY <1>1, <1>2, <1>4 DEF Idle

\* An archive that verifies has no object that does not decode.
LEMMA VerifiedChecked == ASSUME NEW a \in Archives, Verified(a) PROVE Checked(a)
BY DEF Verified, Checked, Sound

LEMMA StagesOfACompactionKeep ==
    ASSUME RetentionInv, NEW a \in Archives,
           Verifies(a) \/ CompactReturns(a) \/ CompactStops(a)
    PROVE RetentionInv'
<1> USE DEF RetentionInv
<1>1. CASE Verifies(a)
  <2>1. compaction' = [compaction EXCEPT ![a] = [stage |-> "removing",
          draft |-> compaction[a].draft, todo |-> compaction[a].todo]]
    BY <1>1, CompactionTyped DEF Verifies
  <2>2. UNCHANGED <<diskVars, objectVars, linked, manifest, sealed, unpinned, retireVars, faults>>
        /\ Checked(a) /\ compaction[a].stage = "verifying"
    BY <1>1, VerifiedChecked DEF Verifies
  <2>3. ObservationsKept'
    BY <2>2 DEF ObservationsKept, retireVars
  <2>4. PICK d, t : d = compaction[a].draft /\ t = compaction[a].todo
    OBVIOUS
  <2>5. d \in Manifests /\ t \in SUBSET Files
    BY <2>4, CompactionTyped
  <2> QED BY <2>1, <2>2, <2>3, <2>4, <2>5, StageMovesOn
<1>2. CASE CompactReturns(a)
  <2>1. compaction' = [compaction EXCEPT ![a] = [stage |-> "idle",
          draft |-> EmptyManifest, todo |-> {}]] /\ EmptyManifest \in Manifests
    BY <1>2, CompactionTyped DEF CompactReturns
  <2>2. UNCHANGED <<diskVars, objectVars, linked, manifest, unpinned, retireVars, faults>>
        /\ compaction[a].stage = "removing" /\ sealed' = sealed \cup {a}
    BY <1>2 DEF CompactReturns
  <2>3. ObservationsKept'
    BY <2>2 DEF ObservationsKept, retireVars
  <2>7. PICK d : d = EmptyManifest
    OBVIOUS
  <2>8. d \in Manifests /\ {} \in SUBSET Files
    BY <2>1, <2>7
  <2> QED BY <2>1, <2>2, <2>3, <2>7, <2>8, StageMovesOn
<1>3. CASE CompactStops(a)
  <2>1. compaction' = [compaction EXCEPT ![a] = [stage |-> "idle",
          draft |-> EmptyManifest, todo |-> {}]] /\ EmptyManifest \in Manifests
    BY <1>3, CompactionTyped DEF CompactStops
  <2>2. UNCHANGED <<diskVars, objectVars, linked, manifest, sealed, unpinned, retireVars, faults>>
    BY <1>3 DEF CompactStops
  <2>3. ObservationsKept'
    BY <2>2 DEF ObservationsKept, retireVars
  <2>7. PICK d : d = EmptyManifest
    OBVIOUS
  <2>8. d \in Manifests /\ {} \in SUBSET Files
    BY <2>1, <2>7
  <2> QED BY <2>1, <2>2, <2>3, <2>7, <2>8, StageMovesOn
<1> QED BY <1>1, <1>2, <1>3

LEMMA RetirementKeeps ==
    ASSUME RetentionInv, RetireStarts \/ RetireEnds
    PROVE RetentionInv'
<1> USE DEF RetentionInv
<1>1. "inner" \in Archives
  BY DEF Archives
<1>2. CASE RetireStarts
  <2>1. compaction' = [compaction EXCEPT !["inner"] = [stage |-> "retiring",
          draft |-> compaction["inner"].draft, todo |-> compaction["inner"].todo]]
    BY <1>1, <1>2, CompactionTyped DEF RetireStarts
  <2>2. UNCHANGED <<diskVars, objectVars, linked, manifest, sealed, unpinned, faults>>
        /\ ObservationsKept'
    BY <1>2 DEF RetireStarts, ObservationsKept
  <2>3. PICK d, t : d = compaction["inner"].draft /\ t = compaction["inner"].todo
    OBVIOUS
  <2>4. d \in Manifests /\ t \in SUBSET Files
    BY <1>1, <2>3, CompactionTyped
  <2> QED BY <1>1, <2>1, <2>2, <2>3, <2>4, StageMovesOn
<1>3. CASE RetireEnds
  <2>1. compaction' = [compaction EXCEPT !["inner"] = [stage |-> "idle",
          draft |-> EmptyManifest, todo |-> {}]] /\ EmptyManifest \in Manifests
    BY <1>1, <1>3, CompactionTyped DEF RetireEnds
  <2>2. UNCHANGED <<diskVars, objectVars, linked, manifest, sealed, unpinned, faults>>
        /\ ObservationsKept'
    BY <1>3 DEF RetireEnds, ObservationsKept
  <2>7. PICK d : d = EmptyManifest
    OBVIOUS
  <2>8. d \in Manifests /\ {} \in SUBSET Files
    BY <2>1, <2>7
  <2> QED BY <1>1, <2>1, <2>2, <2>7, <2>8, StageMovesOn
<1> QED BY <1>2, <1>3

-----------------------------------------------------------------------------
(* A manifest is committed, an original is removed                         *)

\* The draft says as much as the manifest it replaces, and nothing unsound of a
\* file that is gone.
LEMMA CommitSecures ==
    ASSUME RetentionInv, NEW a \in Archives, CommitsManifest(a)
    PROVE Secured'
<1> USE DEF RetentionInv
<1>1. PICK m : m = compaction[a].draft
  OBVIOUS
<1>2. /\ UNCHANGED <<present, bytes, rotten>> /\ compaction[a].stage = "staging"
      /\ manifest'[a] = m /\ \A b \in Archives \ {a} : manifest'[b] = manifest[b]
  BY <1>1 DEF CommitsManifest, diskVars, objectVars, RetentionTypes
<1>3. /\ Recording(a, m) /\ manifest[a].omitted \subseteq m.omitted
      /\ \A f \in Files : manifest[a].files[f] # None => m.files[f] # None
  BY <1>1, <1>2 DEF Noted, Drafting
<1>4. Recorded(manifest[a]) \subseteq Recorded(m)
  BY <1>3 DEF Recorded
<1>5. "outer" \in Archives /\ "inner" \in Archives /\ (a = "outer" \/ a = "inner")
  BY DEF Archives
<1> SUFFICES ASSUME NEW f \in Files \ present
             PROVE /\ f \in Recorded(manifest'[Deciding(f)'])
                   /\ \/ f \in manifest'[Deciding(f)'].omitted
                      \/ manifest'[Deciding(f)'].files[f] \notin rotten
                   /\ f \in Named => Genuine(f)
  BY <1>2 DEF Secured, Genuine
<1>6. PICK d : d = Deciding(f)'
  OBVIOUS
<1>7. PICK e : e = Deciding(f)
  OBVIOUS
<1>8. d \in Archives /\ e \in Archives
  BY <1>5, <1>6, <1>7 DEF Deciding
<1>9. /\ f \in Recorded(manifest[e]) /\ (f \in Named => Genuine(f))
      /\ f \in manifest[e].omitted \/ manifest[e].files[f] \notin rotten
  BY <1>7 DEF Secured
<1>10. (d # a => e = d) /\ (a = "outer" => e = d)
  BY <1>2, <1>4, <1>5, <1>6, <1>7 DEF Deciding
<1>11. CASE d # a
  BY <1>2, <1>6, <1>8, <1>9, <1>10, <1>11
<1>12. CASE d = a
  <2>1. f \in Recorded(m)
    BY <1>2, <1>4, <1>5, <1>6, <1>9, <1>10, <1>12 DEF Deciding
  <2>2. ASSUME f \notin m.omitted PROVE m.files[f] \notin rotten
    <3>1. CASE rotten = {}
      BY <3>1
    <3>2. CASE rotten # {}
      <4>1. bytes = Original
        BY <3>2 DEF Faulty
      <4>2. m.files[f] = Original[f]
        BY <1>3, <2>1, <2>2, <4>1 DEF Recorded, Recording
      <4>3. f \notin manifest[e].omitted
        <5>1. ASSUME f \in manifest[e].omitted PROVE e = a
          <6>1. e = "inner"
            BY <1>8, <5>1 DEF Noted, Recording
          <6> QED BY <1>5, <1>10, <1>12, <6>1
        <5> QED BY <1>3, <2>2, <5>1
      <4>4. manifest[e].files[f] = Original[f]
        BY <1>8, <1>9, <4>1, <4>3 DEF Recorded, Noted, Recording
      <4> QED BY <1>9, <4>2, <4>3, <4>4
    <3> QED BY <3>1, <3>2
  <2> QED BY <1>2, <1>6, <1>9, <1>12, <2>1, <2>2
<1> QED BY <1>11, <1>12

LEMMA CommitsManifestKeeps ==
    ASSUME RetentionInv, NEW a \in Archives, CommitsManifest(a)
    PROVE RetentionInv'
<1> USE DEF RetentionInv
<1>1. PICK m, t : m = compaction[a].draft /\ t = compaction[a].todo
  OBVIOUS
<1>2. m \in Manifests /\ t \in SUBSET Files
  BY <1>1, CompactionTyped
<1>3. /\ UNCHANGED <<diskVars, objectVars, linked, sealed, unpinned, retireVars, faults>>
      /\ manifest' = [manifest EXCEPT ![a] = m] /\ compaction[a].stage = "staging" /\ t = {}
  BY <1>1 DEF CommitsManifest
<1>4. compaction' = [compaction EXCEPT ![a] = [stage |-> "verifying", draft |-> m, todo |-> t]]
  BY <1>1, CompactionTyped DEF CommitsManifest
<1>5. /\ UNCHANGED <<present, bytes, pool, rotten, linked, unpinned, http, observed, faults>>
      /\ manifest'[a] = m /\ compaction'[a].stage = "verifying"
      /\ \A b \in Archives \ {a} : manifest'[b] = manifest[b] /\ compaction'[b] = compaction[b]
  BY <1>3, <1>4 DEF diskVars, objectVars, retireVars, RetentionTypes
<1>6. RetentionTypes'
  <2>1. compaction' \in [Archives -> [stage : {"idle", "staging", "verifying", "removing", "retiring"},
                                      draft : Manifests, todo : SUBSET Files]]
    BY <1>2, <1>4 DEF RetentionTypes
  <2>2. manifest' \in [Archives -> Manifests]
    BY <1>2, <1>3 DEF RetentionTypes
  <2> QED BY <1>5, <2>1, <2>2 DEF RetentionTypes
<1>7. Faulty' /\ ObservationsKept'
  BY <1>5 DEF Faulty, ObservationsKept
<1>8. Noted'
  <2> SUFFICES ASSUME NEW b \in Archives
               PROVE /\ Recording(b, manifest[b])'
                     /\ compaction'[b].stage = "staging" => Drafting(b)'
                     /\ compaction'[b].stage = "removing" => Checked(b)'
    BY DEF Noted
  <2>1. CASE b = a
    <3>1. Recording(a, m)
      BY <1>1, <1>3 DEF Noted, Drafting
    <3> QED BY <1>5, <2>1, <3>1 DEF Recording
  <2>2. CASE b # a
    <3>1. Recording(b, manifest[b])'
      BY <1>5, <2>2 DEF Noted, Recording
    <3>2. compaction'[b].stage = "staging" => Drafting(b)'
      BY <1>5, <2>2, DraftingStays DEF Noted
    <3>3. compaction'[b].stage = "removing" => Checked(b)'
      BY <1>5, <2>2 DEF Noted, Checked
    <3> QED BY <3>1, <3>2, <3>3
  <2> QED BY <2>1, <2>2
<1>9. NestedWhole'
  <2>1. CASE a = "inner"
    <3>1. Covers(Recorded(m) \cup t)
      BY <1>1, <1>3, <2>1 DEF NestedWhole
    <3> QED BY <1>3, <1>5, <2>1, <3>1 DEF NestedWhole, Covers, Recorded
  <2>2. CASE a # "inner"
    <3>1. "inner" \in Archives
      BY DEF Archives
    <3> QED BY <1>3, <1>5, <2>2, <3>1 DEF NestedWhole, Covers, Recorded
  <2> QED BY <2>1, <2>2
<1>10. Secured'
  BY CommitSecures
<1> QED BY <1>6, <1>7, <1>8, <1>9, <1>10

LEMMA RemovesKeeps ==
    ASSUME RetentionInv, NEW a \in Archives, NEW f \in Files, Removes(a, f)
    PROVE RetentionInv'
<1> USE DEF RetentionInv
<1>1. /\ compaction[a].stage = "removing" /\ f \in present /\ f \in Recorded(manifest[a])
      /\ bytes[f] = (IF manifest[a].files[f] # None THEN manifest[a].files[f] ELSE Original[f])
      /\ present' = present \ {f}
      /\ UNCHANGED <<bytes, pool, rotten, linked, manifest, compaction, sealed, unpinned, http,
                     observed, faults>>
  BY DEF Removes, Removable, objectVars, retireVars
<1>2. Recording(a, manifest[a]) /\ Checked(a)
  BY <1>1 DEF Noted
<1>3. RetentionTypes' /\ Faulty' /\ ObservationsKept'
  BY <1>1 DEF RetentionTypes, Faulty, ObservationsKept
<1>4. Noted'
  BY <1>1 DEF Noted, Recording, Drafting, Checked
<1>5. (f \in Nested /\ f \notin Large) => a = "inner"
  BY <1>1, <1>2 DEF Recorded, Recording
<1>6. NestedWhole'
  <2>1. ASSUME NEW S, Covers(S), f \in Nested /\ f \notin Large => f \in S PROVE Covers(S)'
    BY <1>1, <2>1 DEF Covers
  <2>2. "inner" \in Archives
    BY DEF Archives
  <2>3. compaction["inner"].stage = "staging" => a # "inner"
    BY <1>1
  <2>4. compaction["inner"].stage = "staging" =>
          Covers(Recorded(compaction["inner"].draft) \cup compaction["inner"].todo)'
    <3>1. PICK S : S = Recorded(compaction["inner"].draft) \cup compaction["inner"].todo
      OBVIOUS
    <3> QED BY <1>1, <1>5, <2>1, <2>3, <3>1 DEF NestedWhole, Covers, Recorded
  <2>5. "inner" \in sealed \/ compaction["inner"].stage \in {"verifying", "removing"} =>
          Covers(Recorded(manifest["inner"]))'
    <3>1. PICK S : S = Recorded(manifest["inner"])
      OBVIOUS
    <3>2. f \in Nested /\ f \notin Large => f \in S
      BY <1>1, <1>5, <3>1
    <3> QED BY <1>1, <2>1, <3>1, <3>2 DEF NestedWhole, Covers, Recorded
  <2> QED BY <1>1, <2>4, <2>5 DEF NestedWhole
<1>7. Secured'
  <2> SUFFICES ASSUME NEW g \in Files \ present'
               PROVE /\ g \in Recorded(manifest[Deciding(g)])
                     /\ \/ g \in manifest[Deciding(g)].omitted
                        \/ manifest[Deciding(g)].files[g] \notin rotten
                     /\ g \in Named => Genuine(g)
    BY <1>1 DEF Secured, Genuine, Deciding
  <2>1. CASE g # f
    BY <1>1, <2>1 DEF Secured
  <2>2. CASE g = f
    <3>1. f \in Named => Genuine(f)
      BY <1>1, <1>2 DEF Recording, Genuine
    <3>2. "inner" \in Archives /\ "outer" \in Archives /\ (a = "inner" \/ a = "outer")
      BY DEF Archives
    <3>3. CASE Deciding(f) = a
      BY <1>1, <1>2, <2>2, <3>1, <3>3 DEF Recorded, Checked
    <3>4. CASE Deciding(f) # a
      <4>1. a = "outer" /\ Deciding(f) = "inner" /\ f \in Recorded(manifest["inner"])
        BY <1>1, <1>2, <3>2, <3>4, FilesAssumption DEF Deciding, Recorded, Recording, FilesOf
      <4>2. manifest[a].files[f] # None
        BY <1>1, <1>2, <4>1 DEF Recorded, Recording
      <4>3. ASSUME f \notin manifest["inner"].omitted PROVE manifest["inner"].files[f] \notin rotten
        <5>1. CASE rotten = {}
          BY <5>1
        <5>2. CASE rotten # {}
          <6>1. bytes = Original
            BY <5>2 DEF Faulty
          <6>2. manifest["inner"].files[f] = Original[f]
            BY <3>2, <4>1, <4>3, <6>1 DEF Noted, Recording, Recorded
          <6>3. manifest[a].files[f] = Original[f] /\ manifest[a].files[f] \notin rotten
            BY <1>2, <4>2, <6>1 DEF Recording, Checked
          <6> QED BY <6>2, <6>3
        <5> QED BY <5>1, <5>2
      <4> QED BY <2>2, <3>1, <4>1, <4>3
    <3> QED BY <3>3, <3>4
  <2> QED BY <2>1, <2>2
<1> QED BY <1>3, <1>4, <1>6, <1>7

-----------------------------------------------------------------------------
(* Faults                                                                  *)

LEMMA DamageKeeps ==
    ASSUME SingleFault, RetentionInv, NEW f \in Files, Damage(f)
    PROVE RetentionInv'
<1> USE DEF RetentionInv
<1>1. faults = 0 /\ faults' = 1
  <2>1. faults \in Nat /\ MaxFaults \in Nat /\ MaxFaults <= 1
    BY FilesAssumption DEF SingleFault, RetentionTypes
  <2>2. faults < MaxFaults /\ faults' = faults + 1
    BY DEF Damage
  <2> QED BY <2>1, <2>2
<1>2. bytes = Original /\ rotten = {}
  BY <1>1 DEF Faulty
<1>3. /\ f \in present /\ bytes' = [bytes EXCEPT ![f] = Junk]
      /\ UNCHANGED <<present, pool, rotten, linked, manifest, compaction, sealed, unpinned, http,
                     observed>>
  BY DEF Damage, objectVars, retireVars
<1>4. Junk \in Contents
  BY DEF Contents
<1>5. RetentionTypes'
  BY <1>1, <1>3, <1>4 DEF RetentionTypes
<1>6. Faulty'
  BY <1>1, <1>2, <1>3 DEF Faulty, RetentionTypes
<1>7. \A a \in Archives, m \in Manifests : Recording(a, m) => Recording(a, m)'
  BY <1>2, <1>3 DEF Recording
<1>8. Noted'
  <2> SUFFICES ASSUME NEW a \in Archives
               PROVE /\ Recording(a, manifest[a])'
                     /\ compaction'[a].stage = "staging" => Drafting(a)'
                     /\ compaction'[a].stage = "removing" => Checked(a)'
    BY DEF Noted
  <2>1. PICK m, d : m = manifest[a] /\ d = compaction[a].draft
    OBVIOUS
  <2>2. m \in Manifests /\ d \in Manifests
    BY <2>1, CompactionTyped DEF RetentionTypes
  <2>3. Recording(a, m)' /\ (Recording(a, d) => Recording(a, d)')
    BY <1>7, <2>1, <2>2 DEF Noted
  <2> QED BY <1>3, <2>1, <2>3 DEF Noted, Drafting, Checked, Recording
<1>9. NestedWhole' /\ ObservationsKept'
  BY <1>3 DEF NestedWhole, Covers, Recorded, ObservationsKept
<1>10. Secured'
  <2>1. \A g \in Files \ present : bytes'[g] = bytes[g]
    BY <1>3 DEF RetentionTypes
  <2> QED BY <1>3, <2>1 DEF Secured, Deciding, Recorded, Genuine
<1> QED BY <1>5, <1>6, <1>8, <1>9, <1>10

LEMMA RotKeeps ==
    ASSUME SingleFault, RetentionInv, NEW c \in Contents, Rot(c)
    PROVE RetentionInv'
<1> USE DEF RetentionInv
<1>1. faults = 0 /\ faults' = 1
  BY FilesAssumption DEF SingleFault, Rot, RetentionTypes
<1>2. bytes = Original /\ rotten = {}
  BY <1>1 DEF Faulty
<1>3. /\ c \in pool /\ rotten' = rotten \cup {c}
      /\ \A a \in Archives : compaction[a].stage # "removing"
      /\ \A f \in Files \ present : Read(f) # c
      /\ UNCHANGED <<present, bytes, pool, linked, manifest, compaction, sealed, unpinned, http,
                     observed>>
  BY DEF Rot, diskVars, retireVars
<1>4. RetentionTypes'
  BY <1>1, <1>3 DEF RetentionTypes
<1>5. Faulty'
  BY <1>1, <1>2, <1>3 DEF Faulty
<1>6. Noted'
  BY <1>3 DEF Noted, Recording, Drafting
<1>7. NestedWhole' /\ ObservationsKept'
  BY <1>3 DEF NestedWhole, Covers, Recorded, ObservationsKept
<1>8. Secured'
  <2> SUFFICES ASSUME NEW f \in Files \ present
               PROVE /\ f \in Recorded(manifest[Deciding(f)])
                     /\ \/ f \in manifest[Deciding(f)].omitted
                        \/ manifest[Deciding(f)].files[f] \notin rotten'
                     /\ f \in Named => Genuine(f)
    BY <1>3 DEF Secured, Genuine, Deciding
  <2>1. \/ f \in manifest[Deciding(f)].omitted
        \/ manifest[Deciding(f)].files[f] # c
    BY <1>3, ReadsDecided
  <2> QED BY <1>3, <2>1 DEF Secured
<1> QED BY <1>4, <1>5, <1>6, <1>7, <1>8

-----------------------------------------------------------------------------

LEMMA RetentionBegins == RetentionInit => RetentionInv
<1> SUFFICES ASSUME RetentionInit PROVE RetentionInv
  OBVIOUS
<1> USE DEF RetentionInit
<1>1. EmptyManifest \in Manifests /\ Recorded(EmptyManifest) = {}
  BY DEF EmptyManifest, Manifests, Recorded
<1>2. Original \in [Files -> Contents]
  BY FilesAssumption DEF Contents
<1>3. RetentionTypes
  <2>1. Idle \in [stage : {"idle", "staging", "verifying", "removing", "retiring"},
                  draft : Manifests, todo : SUBSET Files]
    BY <1>1 DEF Idle
  <2> QED BY <1>1, <1>2, <2>1 DEF RetentionTypes
<1>4. Noted
  BY DEF Noted, Recording, EmptyManifest, Idle
<1>5. Faulty /\ NestedWhole /\ Secured /\ ObservationsKept
  BY DEF Faulty, NestedWhole, Secured, ObservationsKept, Archives, Idle
<1> QED BY <1>3, <1>4, <1>5 DEF RetentionInv

LEMMA RetentionStep ==
    ASSUME SingleFault, RetentionInv, RetentionNext
    PROVE RetentionInv'
BY CompactStartsKeeps, StagesKeeps, RemovesKeeps, CommitsManifestKeeps,
   StagesOfACompactionKeep, RetirementKeeps, DamageKeeps, RotKeeps DEF RetentionNext

-----------------------------------------------------------------------------
(* What the archive and its importers know of each other                   *)

Evaluations == {Evaluation(s) : s \in Sources}
Names == Declared \cup {"result.json"}
Stored == Contents \cup Sources \cup Previews

Processes == [stage : {"free", "deliver", "prepare", "store", "imported"},
              source : Sources \cup {None}, job : BOOLEAN, revise : BOOLEAN,
              files : SUBSET (Names \X Stored), todo : SUBSET Stored]

ArchiveTypes ==
  /\ outbox \subseteq Sources /\ queued \subseteq Sources
  /\ runs \in [Runs -> {IdentityOf[s] : s \in Sources} \cup {None}]
  /\ history \in Seq(Evaluations)
  /\ rows \subseteq Evaluations \X (Names \cup {"layout.png"}) \X Stored
  /\ importer \in [Importers -> Processes]

\* An importer that is about to store has read each file once, the candidate as
\* it was scored, and what it has read is in the archive or still to be put there.
Filed(i) ==
  /\ <<Candidate, Original[Candidate]>> \in i.files
  /\ \A name \in Names : \E f \in i.files : f[1] = name
  /\ \A f, g \in i.files : f[1] = g[1] => f = g
  /\ \A f \in i.files : f[2] \in objects \cup i.todo

Holds(i) ==
  /\ i.stage # "free" => i.source \in Sources
  /\ i.stage = "store" => Filed(i)
  /\ i.stage = "imported" => Imported(Evaluation(i.source))

\* A table has one row for each name, of an evaluation that is in the archive,
\* with its object; an evaluation has all its files and its run.
TablesWhole ==
  /\ \A r \in rows : Imported(r[1]) /\ r[3] \in objects
  /\ \A r, q \in rows : r[1] = q[1] /\ r[2] = q[2] => r = q
  /\ \A i \in DOMAIN history :
       /\ runs[history[i][1]] # None
       /\ \A name \in Names : \E r \in rows : r[1] = history[i] /\ r[2] = name
       /\ <<history[i], Candidate, Original[Candidate]>> \in rows

ArchiveInv ==
  /\ ArchiveTypes /\ TablesWhole /\ NothingLost
  /\ \A p \in Importers : Holds(importer[p])

LEMMA NamesApart ==
    /\ Candidate \in Names /\ "result.json" \in Names /\ "layout.png" \notin Names
    /\ "result.json" \notin Declared /\ Declared \subseteq Files
BY ArchiveAssumption DEF Names

LEMMA EvaluationNamesRun ==
    ASSUME NEW s \in Sources
    PROVE Evaluation(s) \in Evaluations /\ Evaluation(s)[1] = RunOf[s] /\ RunOf[s] \in Runs
BY DEF Evaluations, Evaluation, Runs

\* The invariant implies what is promised.
LEMMA ArchiveInvWhole == ASSUME ArchiveInv PROVE ArchiveWhole
<1> USE DEF ArchiveInv
<1>1. ASSUME NEW i \in DOMAIN history, NEW name \in Declared \cup {"result.json"}
      PROVE Cardinality(Row(history[i], name)) = 1
  <2>1. PICK r \in rows : r[1] = history[i] /\ r[2] = name
    BY <1>1 DEF TablesWhole, Names
  <2>2. Row(history[i], name) = {r}
    BY <2>1 DEF Row, TablesWhole
  <2> QED BY <2>2, FS_Singleton
<1> QED BY <1>1 DEF ArchiveWhole, Referenced, TablesWhole

LEMMA ArchiveBegins == ArchiveInit => ArchiveInv
<1> SUFFICES ASSUME ArchiveInit PROVE ArchiveInv
  OBVIOUS
<1> USE DEF ArchiveInit
<1>1. Free \in Processes
  BY DEF Free, Processes
<1>2. ArchiveTypes
  BY <1>1 DEF ArchiveTypes
<1>3. \A p \in Importers : Holds(importer[p])
  BY DEF Holds, Free
<1>4. TablesWhole /\ NothingLost
  BY DEF TablesWhole, NothingLost
<1> QED BY <1>2, <1>3, <1>4 DEF ArchiveInv

-----------------------------------------------------------------------------
(* Steps that leave the tables                                             *)

\* What an importer holds stays right while the archive grows.
LEMMA HoldsStays ==
    ASSUME NEW i \in Processes, Holds(i), objects \subseteq objects',
           \A e : Imported(e) => Imported(e)'
    PROVE Holds(i)'
BY DEF Holds, Filed

LEMMA ImporterMoves ==
    ASSUME ArchiveInv, NEW p \in Importers, NEW i \in Processes,
           importer' = [importer EXCEPT ![p] = i], Holds(i)',
           UNCHANGED <<runs, history, rows>>, objects \subseteq objects',
           outbox' \subseteq Sources, queued' \subseteq Sources,
           \A s \in queued' \ queued : s \in outbox',
           \A s \in outbox \ outbox' : Imported(Evaluation(s))
    PROVE ArchiveInv'
<1> USE DEF ArchiveInv
<1>1. ArchiveTypes'
  BY DEF ArchiveTypes
<1>2. \A e : Imported(e) => Imported(e)'
  BY DEF Imported
<1>3. TablesWhole' /\ NothingLost'
  BY DEF TablesWhole, NothingLost, Imported
<1>4. \A q \in Importers : Holds(importer[q])'
  <2> SUFFICES ASSUME NEW q \in Importers PROVE Holds(importer[q])'
    OBVIOUS
  <2>1. CASE q = p
    <3>1. importer'[q] = i
      BY <2>1 DEF ArchiveTypes
    <3> QED BY <3>1 DEF Holds, Filed
  <2>2. CASE q # p
    <3>1. PICK j : j = importer[q]
      OBVIOUS
    <3>2. j \in Processes /\ importer'[q] = j /\ Holds(j)
      BY <2>2, <3>1 DEF ArchiveTypes
    <3>3. Holds(j)'
      BY <1>2, <3>2, HoldsStays
    <3> QED BY <3>2, <3>3 DEF Holds, Filed
  <2> QED BY <2>1, <2>2
<1> QED BY <1>1, <1>3, <1>4

\* Imports begin, are abandoned or end; the schedule is registered.
LEMMA ImportsComeAndGo ==
    ASSUME ArchiveInv, NEW p \in Importers,
           \/ \E s \in Sources : Enqueue(p, s) \/ Retry(p, s)
           \/ \E s \in Sources, revise \in BOOLEAN : Import(p, s, revise)
           \/ Unqueue(p) \/ Abandon(p)
    PROVE ArchiveInv'
<1> USE DEF ArchiveInv
<1>1. /\ importer \in [Importers -> Processes] /\ outbox \subseteq Sources
      /\ queued \subseteq Sources
  BY DEF ArchiveTypes
<1>2. Free \in Processes
  BY DEF Free, Processes
<1>3. ASSUME NEW i \in Processes, i.stage \in {"deliver", "prepare"}, i.source \in Sources
      PROVE Holds(i)'
  BY <1>3 DEF Holds
<1>4. Holds(Free)'
  BY DEF Free, Holds
<1>5. ASSUME NEW s \in Sources, Enqueue(p, s) PROVE ArchiveInv'
  <2>1. PICK i, x : x = Free /\ i = [x EXCEPT !.stage = "deliver", !.source = s, !.job = TRUE]
    OBVIOUS
  <2>2. x \in Processes /\ [Free EXCEPT !.stage = "deliver", !.source = s, !.job = TRUE] = i
    BY <1>2, <2>1
  <2>3. importer' = [importer EXCEPT ![p] = i] /\ outbox' = outbox \cup {s}
        /\ queued' = queued \cup {s} /\ UNCHANGED <<objects, runs, history, rows>>
    BY <1>5, <2>2 DEF Enqueue, tables
  <2>4. i \in Processes /\ i.stage \in {"deliver", "prepare"} /\ i.source \in Sources
    BY <2>1, <2>2 DEF Processes
  <2>6. Holds(i)'
    BY <1>3, <2>4
  <2>5. outbox' \subseteq Sources /\ queued' \subseteq Sources
    BY <1>1, <2>3
  <2> QED BY <2>3, <2>4, <2>5, <2>6, ImporterMoves
<1>6. ASSUME NEW s \in Sources, Retry(p, s) PROVE ArchiveInv'
  <2>1. PICK i, x : x = Free /\ i = [x EXCEPT !.stage = "deliver", !.source = s, !.job = TRUE]
    OBVIOUS
  <2>2. x \in Processes /\ [Free EXCEPT !.stage = "deliver", !.source = s, !.job = TRUE] = i
    BY <1>2, <2>1
  <2>3. importer' = [importer EXCEPT ![p] = i]
        /\ UNCHANGED <<outbox, queued, objects, runs, history, rows>>
    BY <1>6, <2>2 DEF Retry, tables
  <2>4. i \in Processes /\ i.stage \in {"deliver", "prepare"} /\ i.source \in Sources
    BY <2>1, <2>2 DEF Processes
  <2>6. Holds(i)'
    BY <1>3, <2>4
  <2> QED BY <1>1, <2>3, <2>4, <2>6, ImporterMoves
<1>7. ASSUME NEW s \in Sources, NEW revise \in BOOLEAN, Import(p, s, revise) PROVE ArchiveInv'
  <2>1. PICK i, x : x = Free /\ i = [x EXCEPT !.stage = "prepare", !.source = s, !.revise = revise]
    OBVIOUS
  <2>2. x \in Processes /\ [Free EXCEPT !.stage = "prepare", !.source = s, !.revise = revise] = i
    BY <1>2, <2>1
  <2>3. importer' = [importer EXCEPT ![p] = i]
        /\ UNCHANGED <<outbox, queued, objects, runs, history, rows>>
    BY <1>7, <2>2 DEF Import, tables
  <2>4. i \in Processes /\ i.stage \in {"deliver", "prepare"} /\ i.source \in Sources
    BY <2>1, <2>2 DEF Processes
  <2>6. Holds(i)'
    BY <1>3, <2>4
  <2> QED BY <1>1, <2>3, <2>4, <2>6, ImporterMoves
<1>8. PICK i : i = Free
  OBVIOUS
<1>9. i \in Processes /\ Holds(i)'
  BY <1>2, <1>4, <1>8
<1>10. CASE Unqueue(p)
  <2>1. importer' = [importer EXCEPT ![p] = i] /\ outbox' = outbox \ {importer[p].source}
        /\ UNCHANGED <<queued, objects, runs, history, rows>>
    BY <1>8, <1>10 DEF Unqueue, tables
  <2>2. Imported(Evaluation(importer[p].source))
    BY <1>10 DEF Unqueue, Holds
  <2> QED BY <1>1, <1>9, <2>1, <2>2, ImporterMoves
<1>11. CASE Abandon(p)
  <2>1. importer' = [importer EXCEPT ![p] = i]
        /\ UNCHANGED <<outbox, queued, objects, runs, history, rows>>
    BY <1>8, <1>11 DEF Abandon, tables
  <2> QED BY <1>1, <1>9, <2>1, ImporterMoves
<1> QED BY <1>5, <1>6, <1>7, <1>10, <1>11

\* A process that only changes some of its fields.
LEMMA ProcessFields ==
    ASSUME ArchiveInv, NEW p \in Importers
    PROVE /\ importer \in [Importers -> Processes] /\ importer[p] \in Processes
          /\ importer[p] = [stage |-> importer[p].stage, source |-> importer[p].source,
                            job |-> importer[p].job, revise |-> importer[p].revise,
                            files |-> importer[p].files, todo |-> importer[p].todo]
BY DEF ArchiveInv, ArchiveTypes, Processes

LEMMA DeliverKeeps ==
    ASSUME ArchiveInv, NEW p \in Importers, Deliver(p)
    PROVE ArchiveInv'
<1> USE DEF ArchiveInv
<1>1. PICK i : i = importer'[p]
  OBVIOUS
<1>2. importer' = [importer EXCEPT ![p] = i] /\ i = [importer[p] EXCEPT !.stage = "prepare"]
  BY <1>1, ProcessFields DEF Deliver
<1>3. i \in Processes /\ i.stage = "prepare" /\ i.source = importer[p].source
  BY <1>2, ProcessFields DEF Processes
<1>4. i.source \in Sources
  BY <1>3 DEF Deliver, ArchiveTypes
<1>5. Holds(i)'
  BY <1>3, <1>4 DEF Holds
<1>6. UNCHANGED <<outbox, queued, objects, runs, history, rows>>
  BY DEF Deliver
<1>7. outbox' \subseteq Sources /\ queued' \subseteq Sources
  BY <1>6 DEF ArchiveTypes
<1> QED BY <1>2, <1>3, <1>5, <1>6, <1>7, ImporterMoves

\* What an importer reads while the evidence is readable.
LEMMA DeclaredReadable ==
    ASSUME RetentionTypes, FilesReadable, NEW f \in Declared
    PROVE Read(f) \in Contents /\ Read(f) # "missing"
<1>1. f \in Files \ Nested
  BY ArchiveAssumption
<1>2. bytes[f] \in Contents /\ Original[f] \in Contents
  BY <1>1 DEF RetentionTypes, Contents
<1>3. CASE f \in present
  BY <1>2, <1>3, ContentsApart DEF Read
<1>4. CASE f \notin present
  <2>1. f \notin Prunable
    BY <1>1, FilesAssumption
  <2> QED BY <1>1, <1>2, <1>4, <2>1, ContentsApart DEF FilesReadable
<1> QED BY <1>3, <1>4

LEMMA PrepareKeeps ==
    ASSUME ArchiveInv, RetentionTypes, FilesReadable, NEW p \in Importers, Prepare(p)
    PROVE ArchiveInv'
<1> USE DEF ArchiveInv
<1>1. PICK i : i = importer'[p]
  OBVIOUS
<1>2. PICK s : s = importer[p].source
  OBVIOUS
<1>3. s \in Sources
  BY <1>2 DEF Prepare, Holds
<1>4. {f \in Declared : Read(f) # "missing"} = Declared
  BY DeclaredReadable
<1> DEFINE files == {<<f, Read(f)>> : f \in Declared} \cup {<<"result.json", s>>}
           todo == {file[2] : file \in files} \ objects
<1>5. /\ importer' = [importer EXCEPT ![p] = i]
      /\ i = [importer[p] EXCEPT !.stage = "store", !.files = files, !.todo = todo]
      /\ Read(Candidate) = Original[Candidate]
  BY <1>1, <1>2, <1>4, ProcessFields, ArchiveAssumption DEF Prepare
<1>6. files \subseteq Names \X Stored
  BY <1>3, DeclaredReadable DEF Names, Stored
<1>7. todo \subseteq Stored
  BY <1>6
<1>8. \A file \in files : file[2] \in objects \cup todo
  OBVIOUS
<1>9. /\ <<Candidate, Original[Candidate]>> \in files
      /\ \A name \in Names : \E f \in files : f[1] = name
  <2>1. <<Candidate, Original[Candidate]>> \in files
    BY <1>5, ArchiveAssumption
  <2>2. ASSUME NEW name \in Declared PROVE \E f \in files : f[1] = name
    <3>1. <<name, Read(name)>> \in files /\ <<name, Read(name)>>[1] = name
      OBVIOUS
    <3> QED BY <3>1
  <2>3. <<"result.json", s>> \in files /\ <<"result.json", s>>[1] = "result.json"
    OBVIOUS
  <2> QED BY <2>1, <2>2, <2>3 DEF Names
<1>10. \A f, g \in files : f[1] = g[1] => f = g
  BY NamesApart
<1> HIDE DEF files, todo
<1>11. i \in Processes /\ i.stage = "store" /\ i.source = s /\ i.files = files /\ i.todo = todo
  <2>1. PICK x : x = importer[p]
    OBVIOUS
  <2>2. x \in Processes /\ x.source = s
    BY <1>2, <2>1, ProcessFields
  <2>3. i = [x EXCEPT !.stage = "store", !.files = files, !.todo = todo]
    BY <1>5, <2>1
  <2> QED BY <1>6, <1>7, <2>2, <2>3 DEF Processes
<1>12. UNCHANGED <<outbox, queued, objects, runs, history, rows>>
  BY DEF Prepare, tables
<1>13. Holds(i)'
  BY <1>3, <1>8, <1>9, <1>10, <1>11, <1>12 DEF Holds, Filed
<1>14. outbox' \subseteq Sources /\ queued' \subseteq Sources
  BY <1>12 DEF ArchiveTypes
<1> QED BY <1>5, <1>11, <1>12, <1>13, <1>14, ImporterMoves

LEMMA PutKeeps ==
    ASSUME ArchiveInv, NEW p \in Importers, Put(p)
    PROVE ArchiveInv'
<1> USE DEF ArchiveInv
<1>1. PICK i : i = importer'[p]
  OBVIOUS
<1>2. importer' = [importer EXCEPT ![p] = i] /\ i = [importer[p] EXCEPT !.todo = {}]
  BY <1>1, ProcessFields DEF Put
<1>3. /\ i \in Processes /\ i.stage = "store" /\ i.source = importer[p].source
      /\ i.files = importer[p].files /\ i.todo = {}
  <2>1. PICK x : x = importer[p]
    OBVIOUS
  <2>2. x \in Processes /\ x.stage = "store" /\ i = [x EXCEPT !.todo = {}]
    BY <1>2, <2>1, ProcessFields DEF Put
  <2>3. i \in Processes
    BY <2>2 DEF Processes
  <2>4. i.stage = "store" /\ i.source = x.source /\ i.files = x.files /\ i.todo = {}
    BY <2>2 DEF Processes
  <2> QED BY <2>1, <2>3, <2>4
<1>4. /\ UNCHANGED <<outbox, queued, runs, history, rows>>
      /\ objects' = objects \cup importer[p].todo
  BY DEF Put, tables
<1>5. Holds(i)'
  BY <1>3, <1>4 DEF Holds, Filed, Put
<1>6. outbox' \subseteq Sources /\ queued' \subseteq Sources
  BY <1>4 DEF ArchiveTypes
<1> QED BY <1>2, <1>3, <1>4, <1>5, <1>6, ImporterMoves

-----------------------------------------------------------------------------
(* The import transaction                                                  *)

LEMMA HistoryGrows ==
    ASSUME NEW h \in Seq(Evaluations), NEW e \in Evaluations
    PROVE /\ Append(h, e) \in Seq(Evaluations)
          /\ DOMAIN Append(h, e) = DOMAIN h \cup {Len(h) + 1}
          /\ Append(h, e)[Len(h) + 1] = e
          /\ \A i \in DOMAIN h : Append(h, e)[i] = h[i]
<1>1. \A n \in Nat : 1 .. n + 1 = 1 .. n \cup {n + 1}
  OBVIOUS
<1>2. Len(h) \in Nat /\ DOMAIN h = 1 .. Len(h) /\ Append(h, e) \in Seq(Evaluations)
      /\ Len(Append(h, e)) = Len(h) + 1
  OBVIOUS
<1>3. DOMAIN Append(h, e) = DOMAIN h \cup {Len(h) + 1}
  BY <1>1, <1>2
<1> QED BY <1>2, <1>3

\* What is imported again adds nothing, a new evaluation its files.
LEMMA CommitAdds ==
    ASSUME ArchiveInv, NEW p \in Importers, Commit(p),
           NEW s, s = importer[p].source, NEW e, e = Evaluation(s),
           NEW files, files = importer[p].files
    PROVE /\ s \in Sources /\ e \in Evaluations /\ e[1] = RunOf[s] /\ RunOf[s] \in Runs
          /\ runs' = [runs EXCEPT ![RunOf[s]] = IdentityOf[s]] /\ IdentityOf[s] # None
          /\ files \subseteq Names \X Stored
          /\ \A f \in files : f[2] \in objects
          /\ Imported(e) => history' = history /\ rows' = rows
          /\ ~Imported(e) => /\ history' = Append(history, e)
                             /\ rows' = rows \cup {<<e, f[1], f[2]>> : f \in files}
          /\ UNCHANGED <<outbox, objects, queued>>
<1> USE DEF ArchiveInv
<1>1. s \in Sources /\ Filed(importer[p]) /\ importer[p].todo = {}
  BY DEF Commit, Holds
<1>2. files \subseteq Names \X Stored
  <2>1. PICK x : x = importer[p]
    OBVIOUS
  <2>2. x \in Processes /\ files = x.files
    BY <2>1, ProcessFields
  <2> QED BY <2>2 DEF Processes
<1>3. \A f \in files : f[2] \in objects
  BY <1>1 DEF Filed
<1>4. PICK new : new = {f \in files : Row(e, f[1]) = {}}
  OBVIOUS
<1>5. /\ runs' = [runs EXCEPT ![RunOf[s]] = IdentityOf[s]]
      /\ history' = IF Imported(e) THEN history ELSE Append(history, e)
      /\ rows' = rows \cup {<<e, f[1], f[2]>> : f \in new}
      /\ UNCHANGED <<outbox, objects, queued>>
  BY <1>4 DEF Commit
<1>6. ASSUME Imported(e) PROVE new = {}
  <2>1. PICK i \in DOMAIN history : history[i] = e
    BY <1>6 DEF Imported
  <2>2. \A name \in Names : \E r \in rows : r[1] = e /\ r[2] = name
    <3>1. \A name \in Names : \E r \in rows : r[1] = history[i] /\ r[2] = name
      BY <2>1 DEF TablesWhole
    <3> QED BY <2>1, <3>1
  <2>3. \A f \in files : Row(e, f[1]) # {}
    BY <1>2, <2>2 DEF Row
  <2> QED BY <1>4, <2>3
<1>7. ASSUME ~Imported(e) PROVE new = files
  <2>1. \A name : Row(e, name) = {}
    BY <1>7 DEF Row, TablesWhole
  <2> QED BY <1>4, <2>1
<1>8. Imported(e) => rows' = rows
  BY <1>5, <1>6
<1>9. ~Imported(e) => rows' = rows \cup {<<e, f[1], f[2]>> : f \in files}
  BY <1>5, <1>7
<1> QED BY <1>1, <1>2, <1>3, <1>5, <1>8, <1>9, EvaluationNamesRun, ArchiveAssumption

LEMMA CommitKeeps ==
    ASSUME ArchiveInv, NEW p \in Importers, Commit(p)
    PROVE ArchiveInv'
<1> USE DEF ArchiveInv
<1>1. PICK s, e, files : s = importer[p].source /\ e = Evaluation(s) /\ files = importer[p].files
  OBVIOUS
<1>2. PICK added : added = {<<e, f[1], f[2]>> : f \in files}
  OBVIOUS
<1>3. /\ s \in Sources /\ e \in Evaluations /\ e[1] = RunOf[s] /\ RunOf[s] \in Runs
      /\ runs' = [runs EXCEPT ![RunOf[s]] = IdentityOf[s]] /\ IdentityOf[s] # None
      /\ files \subseteq Names \X Stored
      /\ \A f \in files : f[2] \in objects
      /\ Imported(e) => history' = history /\ rows' = rows
      /\ ~Imported(e) => history' = Append(history, e) /\ rows' = rows \cup added
      /\ UNCHANGED <<outbox, objects, queued>>
  BY <1>1, <1>2, CommitAdds
<1>4. Filed(importer[p])
  BY DEF Commit, Holds
<1>5. history \in Seq(Evaluations)
  BY DEF ArchiveTypes
<1>6. /\ ~Imported(e) => DOMAIN history' = DOMAIN history \cup {Len(history) + 1}
                         /\ history'[Len(history) + 1] = e
                         /\ \A i \in DOMAIN history : history'[i] = history[i]
                         /\ history' \in Seq(Evaluations)
      /\ Imported(e) => history' = history
  <2>1. PICK h : h = history
    OBVIOUS
  <2>2. /\ Append(h, e) \in Seq(Evaluations)
        /\ DOMAIN Append(h, e) = DOMAIN h \cup {Len(h) + 1}
        /\ Append(h, e)[Len(h) + 1] = e
        /\ \A i \in DOMAIN h : Append(h, e)[i] = h[i]
    BY <1>3, <1>5, <2>1, HistoryGrows
  <2>3. ~Imported(e) => history' = Append(h, e)
    BY <1>3, <2>1
  <2>4. Imported(e) => history' = history
    BY <1>3
  <2> QED BY <2>1, <2>2, <2>3, <2>4
<1>7. \A d : Imported(d) => Imported(d)'
  BY <1>6 DEF Imported
<1>8. Imported(e)'
  BY <1>6 DEF Imported
<1>9. \A r \in Runs : runs[r] # None => runs'[r] # None
  BY <1>3 DEF ArchiveTypes
<1>10. runs'[e[1]] # None
  BY <1>3 DEF ArchiveTypes
<1>11. \A r \in added : \E f \in files : r = <<e, f[1], f[2]>>
  BY <1>2
<1>12. added \subseteq Evaluations \X (Names \cup {"layout.png"}) \X Stored
  <2>1. \A f \in files : f[1] \in Names /\ f[2] \in Stored
    BY <1>3
  <2> QED BY <1>3, <1>11, <2>1
<1>13. TablesWhole'
  <2>1. CASE Imported(e)
    <3>1. \A i \in DOMAIN history : history[i] \in Evaluations /\ history[i][1] \in Runs
      BY <1>5, EvaluationNamesRun DEF Evaluations
    <3> QED BY <1>3, <1>7, <1>9, <2>1, <3>1 DEF TablesWhole
  <2>2. CASE ~Imported(e)
    <3>1. \A r \in rows : r[1] # e
      BY <2>2 DEF TablesWhole
    <3>2. ASSUME NEW r \in rows' PROVE Imported(r[1])' /\ r[3] \in objects'
      <4>1. CASE r \in rows
        BY <1>3, <1>7, <4>1 DEF TablesWhole
      <4>2. CASE r \in added
        BY <1>3, <1>8, <1>11, <4>2
      <4> QED BY <1>3, <2>2, <4>1, <4>2
    <3>3. ASSUME NEW r \in rows', NEW q \in rows', r[1] = q[1], r[2] = q[2] PROVE r = q
      <4>1. CASE r \in rows /\ q \in rows
        BY <3>3, <4>1 DEF TablesWhole
      <4>2. CASE r \in added /\ q \in added
        BY <1>1, <1>4, <1>11, <3>3, <4>2 DEF Filed
      <4>3. CASE r \in rows /\ q \in added
        BY <1>11, <3>1, <3>3, <4>3
      <4>4. CASE r \in added /\ q \in rows
        BY <1>11, <3>1, <3>3, <4>4
      <4> QED BY <1>3, <2>2, <4>1, <4>2, <4>3, <4>4
    <3>4. ASSUME NEW i \in DOMAIN history'
          PROVE /\ runs'[history'[i][1]] # None
                /\ \A name \in Names : \E r \in rows' : r[1] = history'[i] /\ r[2] = name
                /\ <<history'[i], Candidate, Original[Candidate]>> \in rows'
      <4>1. CASE i \in DOMAIN history
        <5>1. history'[i] = history[i] /\ history[i] \in Evaluations /\ rows \subseteq rows'
          BY <1>3, <1>5, <1>6, <2>2, <4>1
        <5>2. history[i][1] \in Runs
          BY <5>1, EvaluationNamesRun DEF Evaluations
        <5> QED BY <1>9, <4>1, <5>1, <5>2 DEF TablesWhole
      <4>2. CASE i = Len(history) + 1
        <5>1. history'[i] = e
          BY <1>6, <2>2, <4>2
        <5>2. ASSUME NEW name \in Names PROVE \E r \in rows' : r[1] = e /\ r[2] = name
          <6>1. PICK f \in files : f[1] = name
            BY <1>1, <1>4 DEF Filed
          <6>2. <<e, f[1], f[2]>> \in rows'
            BY <1>2, <1>3, <2>2
          <6> QED BY <6>1, <6>2
        <5>3. <<e, Candidate, Original[Candidate]>> \in rows'
          <6>1. PICK f \in files : f = <<Candidate, Original[Candidate]>>
            BY <1>1, <1>4 DEF Filed
          <6>2. <<e, f[1], f[2]>> \in rows'
            BY <1>2, <1>3, <2>2
          <6> QED BY <6>1, <6>2
        <5> QED BY <1>10, <5>1, <5>2, <5>3
      <4> QED BY <1>6, <2>2, <4>1, <4>2
    <3> QED BY <3>2, <3>3, <3>4 DEF TablesWhole
  <2> QED BY <2>1, <2>2
<1>14. PICK i : i = importer'[p]
  OBVIOUS
<1>15. /\ importer' = [importer EXCEPT ![p] = i]
       /\ i = IF importer[p].job THEN [importer[p] EXCEPT !.stage = "imported", !.files = {}] ELSE Free
  BY <1>14, ProcessFields DEF Commit
<1>16. i \in Processes /\ Holds(i)'
  <2>1. CASE ~importer[p].job
    <3>1. i = Free
      BY <1>15, <2>1
    <3> QED BY <3>1 DEF Free, Processes, Holds
  <2>2. CASE importer[p].job
    <3>1. PICK x : x = importer[p]
      OBVIOUS
    <3>2. x \in Processes /\ i = [x EXCEPT !.stage = "imported", !.files = {}] /\ x.source = s
      BY <1>1, <1>15, <2>2, <3>1, ProcessFields
    <3>3. i \in Processes /\ i.stage = "imported" /\ i.source = s
      BY <3>2 DEF Processes
    <3> QED BY <1>1, <1>3, <1>8, <3>3 DEF Holds, Evaluation
  <2> QED BY <2>1, <2>2
<1>17. ArchiveTypes'
  <2>1. outbox' \subseteq Sources /\ queued' \subseteq Sources
    BY <1>3 DEF ArchiveTypes
  <2>2. runs' \in [Runs -> {IdentityOf[t] : t \in Sources} \cup {None}]
    BY <1>3 DEF ArchiveTypes
  <2>3. history' \in Seq(Evaluations)
    <3>1. CASE Imported(e)
      BY <1>5, <1>6, <3>1
    <3>2. CASE ~Imported(e)
      <4>1. history' = Append(history, e)
        BY <1>3, <3>2
      <4> QED BY <1>3, <1>5, <4>1
    <3> QED BY <3>1, <3>2
  <2>4. rows' \subseteq Evaluations \X (Names \cup {"layout.png"}) \X Stored
    BY <1>3, <1>12 DEF ArchiveTypes
  <2>5. importer' \in [Importers -> Processes]
    BY <1>15, <1>16 DEF ArchiveTypes
  <2> QED BY <2>1, <2>2, <2>3, <2>4, <2>5 DEF ArchiveTypes
<1>18. NothingLost'
  BY <1>3, <1>7 DEF NothingLost
<1>19. \A q \in Importers : Holds(importer[q])'
  <2> SUFFICES ASSUME NEW q \in Importers PROVE Holds(importer[q])'
    OBVIOUS
  <2>1. PICK j : j = importer'[q]
    OBVIOUS
  <2>2. Holds(j)'
    <3>1. CASE q = p
      BY <1>14, <1>16, <2>1, <3>1
    <3>2. CASE q # p
      <4>1. j = importer[q] /\ j \in Processes
        BY <1>15, <2>1, <3>2, ProcessFields
      <4>2. Holds(j)
        BY <4>1
      <4> QED BY <1>3, <1>7, <4>1, <4>2, HoldsStays
    <3> QED BY <3>1, <3>2
  <2> QED BY <2>1, <2>2 DEF Holds, Filed
<1> QED BY <1>13, <1>17, <1>18, <1>19

LEMMA AttachKeeps ==
    ASSUME ArchiveInv, NEW p \in Importers, NEW s \in Sources, NEW c \in Previews, Attach(p, s, c)
    PROVE ArchiveInv'
<1> USE DEF ArchiveInv
<1>1. PICK e : e = Evaluation(s)
  OBVIOUS
<1>2. /\ Imported(e) /\ e \in Evaluations /\ objects' = objects \cup {c}
      /\ rows' = (rows \ Row(e, "layout.png")) \cup {<<e, "layout.png", c>>}
      /\ UNCHANGED <<outbox, runs, history, scheduled, importer, queued>>
  BY <1>1, EvaluationNamesRun DEF Attach
<1>3. ArchiveTypes'
  <2>1. <<e, "layout.png", c>> \in Evaluations \X (Names \cup {"layout.png"}) \X Stored
    BY <1>2 DEF Stored
  <2> QED BY <1>2, <2>1 DEF ArchiveTypes
<1>4. TablesWhole'
  <2>1. ASSUME NEW r \in rows' PROVE Imported(r[1])' /\ r[3] \in objects'
    BY <1>2, <2>1 DEF TablesWhole, Imported
  <2>2. ASSUME NEW r \in rows', NEW q \in rows', r[1] = q[1], r[2] = q[2] PROVE r = q
    BY <1>2, <2>2 DEF TablesWhole, Row
  <2>3. \A r \in rows : r[2] # "layout.png" => r \in rows'
    BY <1>2 DEF Row
  <2>4. ASSUME NEW i \in DOMAIN history
        PROVE /\ runs[history[i][1]] # None
              /\ \A name \in Names : \E r \in rows' : r[1] = history[i] /\ r[2] = name
              /\ <<history[i], Candidate, Original[Candidate]>> \in rows'
    BY <2>3, <2>4, NamesApart DEF TablesWhole
  <2> QED BY <1>2, <2>1, <2>2, <2>4 DEF TablesWhole
<1>5. NothingLost'
  BY <1>2 DEF NothingLost, Imported
<1>6. \A q \in Importers : Holds(importer[q])'
  <2>1. \A j \in Processes : Holds(j) => Holds(j)'
    BY <1>2, HoldsStays DEF Imported
  <2> SUFFICES ASSUME NEW q \in Importers PROVE Holds(importer[q])'
    OBVIOUS
  <2>2. PICK j : j = importer[q]
    OBVIOUS
  <2>3. j \in Processes /\ Holds(j)'
    BY <2>1, <2>2, ProcessFields
  <2> QED BY <1>2, <2>2, <2>3 DEF Holds, Filed
<1> QED BY <1>3, <1>4, <1>5, <1>6

LEMMA ArchiveKeeps ==
    ASSUME RetentionInv, ArchiveInv, ArchiveNext
    PROVE ArchiveInv'
<1>1. FilesReadable /\ RetentionTypes
  BY RetentionKeepsEvidence DEF EvidenceReadable, RetentionInv
<1> QED BY <1>1, ImportsComeAndGo, DeliverKeeps, PrepareKeeps, PutKeeps, CommitKeeps, AttachKeeps
        DEF ArchiveNext

-----------------------------------------------------------------------------
(* What an import may never do, whatever the compactions leave of the files *)

\* Types, and that whoever is at work has an export.
ImportsTyped ==
  ArchiveTypes /\ \A p \in Importers : importer[p].stage # "free" => importer[p].source \in Sources

LEMMA ImporterTyped ==
    ASSUME ImportsTyped, NEW p \in Importers, NEW i \in Processes,
           i.stage # "free" => i.source \in Sources,
           importer' = [importer EXCEPT ![p] = i],
           UNCHANGED <<runs, history, rows>>, outbox' \subseteq Sources, queued' \subseteq Sources
    PROVE ImportsTyped'
<1>1. ArchiveTypes'
  BY DEF ImportsTyped, ArchiveTypes
<1>2. \A q \in Importers : importer'[q] = IF q = p THEN i ELSE importer[q]
  BY DEF ImportsTyped, ArchiveTypes
<1> QED BY <1>1, <1>2 DEF ImportsTyped

LEMMA WorkIsTyped ==
    ASSUME ImportsTyped, NEW p \in Importers,
           \/ \E s \in Sources : Enqueue(p, s) \/ Retry(p, s)
           \/ \E s \in Sources, revise \in BOOLEAN : Import(p, s, revise)
           \/ Deliver(p) \/ Put(p) \/ Unqueue(p) \/ Abandon(p)
    PROVE ImportsTyped'
<1>1. PICK x, y, i : x = importer[p] /\ y = Free /\ i = importer'[p]
  OBVIOUS
<1>2. /\ importer \in [Importers -> Processes] /\ outbox \subseteq Sources /\ queued \subseteq Sources
      /\ x \in Processes /\ (x.stage # "free" => x.source \in Sources)
  BY <1>1 DEF ImportsTyped, ArchiveTypes
<1>3. y \in Processes /\ y.stage = "free"
  BY <1>1 DEF Free, Processes
<1>4. UNCHANGED <<runs, history, rows>>
  BY DEF Enqueue, Retry, Import, Deliver, Put, Unqueue, Abandon, tables
<1>5. outbox' \subseteq Sources /\ queued' \subseteq Sources
  BY <1>2, ArchiveAssumption DEF Enqueue, Retry, Import, Deliver, Put, Unqueue, Abandon
<1>6. importer' = [importer EXCEPT ![p] = i] /\ i \in Processes
      /\ (i.stage # "free" => i.source \in Sources)
  <2>1. ASSUME NEW s \in Sources, Enqueue(p, s) \/ Retry(p, s)
        PROVE /\ importer' = [importer EXCEPT ![p] = i]
              /\ i = [y EXCEPT !.stage = "deliver", !.source = s, !.job = TRUE]
    BY <1>1, <1>2, <2>1 DEF Enqueue, Retry
  <2>2. ASSUME NEW s \in Sources, NEW revise \in BOOLEAN, Import(p, s, revise)
        PROVE /\ importer' = [importer EXCEPT ![p] = i]
              /\ i = [y EXCEPT !.stage = "prepare", !.source = s, !.revise = revise]
    BY <1>1, <1>2, <2>2 DEF Import
  <2>3. ASSUME Deliver(p)
        PROVE /\ importer' = [importer EXCEPT ![p] = i] /\ x.stage = "deliver"
              /\ i = [x EXCEPT !.stage = "prepare"]
    BY <1>1, <1>2, <2>3 DEF Deliver
  <2>4. ASSUME Put(p)
        PROVE importer' = [importer EXCEPT ![p] = i] /\ i = [x EXCEPT !.todo = {}] /\ x.stage = "store"
    BY <1>1, <1>2, <2>4 DEF Put
  <2>5. ASSUME Unqueue(p) \/ Abandon(p) PROVE importer' = [importer EXCEPT ![p] = i] /\ i = y
    BY <1>1, <1>2, <2>5 DEF Unqueue, Abandon
  <2>6. ASSUME NEW s \in Sources, NEW revise \in BOOLEAN,
               \/ i = [y EXCEPT !.stage = "deliver", !.source = s, !.job = TRUE]
               \/ i = [y EXCEPT !.stage = "prepare", !.source = s, !.revise = revise]
        PROVE i \in Processes /\ i.source \in Sources
    BY <1>3, <2>6 DEF Processes
  <2>7. ASSUME i = [x EXCEPT !.stage = "prepare"], x.stage = "deliver"
        PROVE i \in Processes /\ i.source \in Sources
    BY <1>2, <2>7 DEF Processes
  <2>8. ASSUME i = [x EXCEPT !.todo = {}], x.stage = "store"
        PROVE i \in Processes /\ i.source \in Sources
    BY <1>2, <2>8 DEF Processes
  <2> QED BY <1>3, <2>1, <2>2, <2>3, <2>4, <2>5, <2>6, <2>7, <2>8
<1> QED BY <1>4, <1>5, <1>6, ImporterTyped

LEMMA PrepareTyped ==
    ASSUME ImportsTyped, NEW p \in Importers, Prepare(p)
    PROVE ImportsTyped'
<1>1. PICK x, i : x = importer[p] /\ i = importer'[p]
  OBVIOUS
<1>2. /\ importer \in [Importers -> Processes] /\ outbox \subseteq Sources /\ queued \subseteq Sources
      /\ x \in Processes /\ x.source \in Sources
  BY <1>1 DEF ImportsTyped, ArchiveTypes, Prepare
<1> DEFINE found == {f \in Declared : Read(f) # "missing"}
           files == {<<f, Read(f)>> : f \in found} \cup {<<"result.json", x.source>>}
           todo == {file[2] : file \in files} \ objects
<1>3. /\ importer' = [importer EXCEPT ![p] = i]
      /\ i = [x EXCEPT !.stage = "store", !.files = files, !.todo = todo]
      /\ \A f \in found : Read(f) \in Contents
  BY <1>1, <1>2 DEF Prepare
<1>4. files \subseteq Names \X Stored
  BY <1>2, <1>3 DEF Names, Stored
<1>5. todo \subseteq Stored
  BY <1>4
<1> HIDE DEF files, todo
<1>6. i \in Processes /\ i.source \in Sources
  BY <1>2, <1>3, <1>4, <1>5 DEF Processes
<1>7. UNCHANGED <<outbox, queued, runs, history, rows>>
  BY DEF Prepare, tables
<1> QED BY <1>2, <1>3, <1>6, <1>7, ImporterTyped

\* An import commits: nothing of the tables goes, and at most one evaluation comes.
LEMMA CommitGrows ==
    ASSUME ImportsTyped, NEW p \in Importers, Commit(p),
           NEW s, s = importer[p].source, NEW e, e = Evaluation(s)
    PROVE /\ s \in Sources /\ e \in Evaluations /\ e[1] = RunOf[s] /\ RunOf[s] \in Runs
          /\ runs' = [runs EXCEPT ![RunOf[s]] = IdentityOf[s]]
          /\ rows \subseteq rows'
          /\ rows' \subseteq Evaluations \X (Names \cup {"layout.png"}) \X Stored
          /\ history' = IF Imported(e) THEN history ELSE Append(history, e)
          /\ UNCHANGED <<outbox, queued>>
<1>1. s \in Sources
  BY DEF Commit, ImportsTyped
<1>2. PICK new : new = {f \in importer[p].files : Row(e, f[1]) = {}}
  OBVIOUS
<1>3. new \subseteq Names \X Stored
  <2>1. PICK x : x = importer[p]
    OBVIOUS
  <2>2. x \in Processes /\ new \subseteq x.files
    BY <1>2, <2>1 DEF ImportsTyped, ArchiveTypes
  <2> QED BY <2>2 DEF Processes
<1>4. PICK added : added = {<<e, f[1], f[2]>> : f \in new}
  OBVIOUS
<1>5. e \in Evaluations /\ e[1] = RunOf[s] /\ RunOf[s] \in Runs
  BY <1>1, EvaluationNamesRun
<1>6. added \subseteq Evaluations \X (Names \cup {"layout.png"}) \X Stored
  <2>1. \A r \in added : \E f \in new : r = <<e, f[1], f[2]>>
    BY <1>4
  <2>2. \A f \in new : f[1] \in Names /\ f[2] \in Stored
    BY <1>3
  <2> QED BY <1>5, <2>1, <2>2
<1>7. /\ runs' = [runs EXCEPT ![RunOf[s]] = IdentityOf[s]] /\ rows' = rows \cup added
      /\ history' = IF Imported(e) THEN history ELSE Append(history, e)
      /\ UNCHANGED <<outbox, queued>>
  BY <1>2, <1>4 DEF Commit
<1> QED BY <1>1, <1>5, <1>6, <1>7 DEF ImportsTyped, ArchiveTypes

LEMMA CommitTyped ==
    ASSUME ImportsTyped, NEW p \in Importers, Commit(p)
    PROVE ImportsTyped'
<1>1. PICK s, e, x, i : /\ s = importer[p].source /\ e = Evaluation(s)
                        /\ x = importer[p] /\ i = importer'[p]
  OBVIOUS
<1>2. /\ s \in Sources /\ e \in Evaluations /\ RunOf[s] \in Runs
      /\ runs' = [runs EXCEPT ![RunOf[s]] = IdentityOf[s]]
      /\ rows' \subseteq Evaluations \X (Names \cup {"layout.png"}) \X Stored
      /\ history' = IF Imported(e) THEN history ELSE Append(history, e)
      /\ UNCHANGED <<outbox, queued>>
  BY <1>1, CommitGrows
<1>3. importer \in [Importers -> Processes] /\ x \in Processes
  BY <1>1 DEF ImportsTyped, ArchiveTypes
<1>4. importer' = [importer EXCEPT ![p] = i]
      /\ i = IF x.job THEN [x EXCEPT !.stage = "imported", !.files = {}] ELSE Free
  BY <1>1, <1>3 DEF Commit
<1>5. i \in Processes /\ (i.stage # "free" => i.source \in Sources)
  <2>1. CASE ~x.job
    BY <1>4, <2>1 DEF Free, Processes
  <2>2. CASE x.job
    <3>1. i = [x EXCEPT !.stage = "imported", !.files = {}] /\ x.source = s
      BY <1>1, <1>4, <2>2
    <3> QED BY <1>2, <1>3, <3>1 DEF Processes
  <2> QED BY <2>1, <2>2
<1>6. history' \in Seq(Evaluations)
  BY <1>2 DEF ImportsTyped, ArchiveTypes
<1>7. runs' \in [Runs -> {IdentityOf[t] : t \in Sources} \cup {None}]
  BY <1>2 DEF ImportsTyped, ArchiveTypes
<1>8. importer' \in [Importers -> Processes]
      /\ \A q \in Importers : importer'[q] = IF q = p THEN i ELSE importer[q]
  BY <1>3, <1>4, <1>5
<1>9. ArchiveTypes'
  BY <1>2, <1>6, <1>7, <1>8 DEF ImportsTyped, ArchiveTypes
<1> QED BY <1>5, <1>8, <1>9 DEF ImportsTyped

LEMMA AttachTyped ==
    ASSUME ImportsTyped, NEW p \in Importers, NEW s \in Sources, NEW c \in Previews, Attach(p, s, c)
    PROVE ImportsTyped'
<1>1. PICK e : e = Evaluation(s)
  OBVIOUS
<1>2. <<e, "layout.png", c>> \in Evaluations \X (Names \cup {"layout.png"}) \X Stored
  BY <1>1, EvaluationNamesRun DEF Stored
<1>3. /\ rows' = (rows \ Row(e, "layout.png")) \cup {<<e, "layout.png", c>>}
      /\ UNCHANGED <<outbox, runs, history, importer, queued>>
  BY <1>1 DEF Attach
<1> QED BY <1>2, <1>3 DEF ImportsTyped, ArchiveTypes

LEMMA ImportsStayTyped ==
    ASSUME ImportsTyped, ArchiveNext
    PROVE ImportsTyped'
BY WorkIsTyped, PrepareTyped, CommitTyped, AttachTyped DEF ArchiveNext

LEMMA HistoryPrefix ==
    ASSUME NEW h \in Seq(Evaluations), NEW e \in Evaluations
    PROVE /\ SubSeq(h, 1, Len(h)) = h
          /\ SubSeq(Append(h, e), 1, Len(h)) = h
<1>1. SubSeq(h, 1, Len(h)) = h
  BY SubSeqFull
<1>2. SubSeq(Append(h, e), 1, Len(h)) = h
  OBVIOUS
<1> QED BY <1>1, <1>2

LEMMA TablesUnchanged ==
    ASSUME ImportsTyped, UNCHANGED <<runs, history, rows>>
    PROVE Immutable
BY SubSeqFull DEF Immutable, ImportsTyped, ArchiveTypes

LEMMA CommitImmutable ==
    ASSUME ImportsTyped, NEW p \in Importers, Commit(p)
    PROVE Immutable
<1>1. PICK s, e : s = importer[p].source /\ e = Evaluation(s)
  OBVIOUS
<1>2. /\ s \in Sources /\ e \in Evaluations /\ e[1] = RunOf[s] /\ RunOf[s] \in Runs
      /\ runs' = [runs EXCEPT ![RunOf[s]] = IdentityOf[s]] /\ rows \subseteq rows'
      /\ history' = IF Imported(e) THEN history ELSE Append(history, e)
  BY <1>1, CommitGrows
<1>3. Acceptable(s, importer[p].revise) /\ importer[p].stage = "store"
  BY <1>1 DEF Commit
<1>4. \A r \in Runs : runs[r] # None => runs'[r] = runs[r]
  BY <1>2, <1>3 DEF Acceptable, ImportsTyped, ArchiveTypes
<1>5. \A r \in rows : r \in rows'
  BY <1>2
<1>6. history \in Seq(Evaluations)
  BY DEF ImportsTyped, ArchiveTypes
<1>7. SubSeq(history', 1, Len(history)) = history
  BY <1>2, <1>6, HistoryPrefix
<1>8. ASSUME history' # history, NEW i \in DOMAIN history,
             history[i][1] = history'[Len(history) + 1][1]
      PROVE \E q \in Importers : importer[q].stage = "store" /\ importer[q].revise
  <2>1. ~Imported(e) /\ history' = Append(history, e)
    BY <1>2, <1>8
  <2>2. history'[Len(history) + 1] = e
    BY <1>2, <1>6, <2>1
  <2>3. history[i][1] = RunOf[s]
    BY <1>2, <1>8, <2>2
  <2> QED BY <1>1, <1>3, <2>1, <2>3 DEF Acceptable
<1> QED BY <1>4, <1>5, <1>7, <1>8 DEF Immutable

LEMMA AttachImmutable ==
    ASSUME ImportsTyped, NEW p \in Importers, NEW s \in Sources, NEW c \in Previews, Attach(p, s, c)
    PROVE Immutable
<1>1. UNCHANGED <<runs, history>> /\ \A r \in rows : r[2] # "layout.png" => r \in rows'
  BY DEF Attach, Row
<1> QED BY <1>1, SubSeqFull DEF Immutable, ImportsTyped, ArchiveTypes

LEMMA ImportsImmutable ==
    ASSUME ImportsTyped, ArchiveNext
    PROVE Immutable
<1>1. ASSUME NEW p \in Importers, NEW s \in Sources,
             Enqueue(p, s) \/ Retry(p, s) \/ \E revise \in BOOLEAN : Import(p, s, revise)
      PROVE Immutable
  BY <1>1, TablesUnchanged DEF Enqueue, Retry, Import, tables
<1>2. ASSUME NEW p \in Importers, Deliver(p) \/ Prepare(p) \/ Put(p) \/ Unqueue(p) \/ Abandon(p)
      PROVE Immutable
  BY <1>2, TablesUnchanged DEF Deliver, Prepare, Put, Unqueue, Abandon, tables
<1> QED BY <1>1, <1>2, CommitImmutable, AttachImmutable DEF ArchiveNext

-----------------------------------------------------------------------------
(* The theorems                                                            *)

ArchiveIInv == RetentionInv /\ ArchiveInv

LEMMA ArchiveStuttersKeep ==
    ASSUME RetentionInv, UNCHANGED retentionVars
    PROVE RetentionInv'
BY DEF RetentionInv, RetentionTypes, Faulty, Noted, Recording, Drafting, Checked, NestedWhole,
       Covers, Recorded, Secured, Deciding, Genuine, ObservationsKept, retentionVars, diskVars,
       objectVars, retireVars

LEMMA ArchiveLeftAlone ==
    ASSUME ArchiveInv, UNCHANGED archiveVars
    PROVE ArchiveInv'
BY DEF ArchiveInv, ArchiveTypes, TablesWhole, NothingLost, Imported, Holds, Filed,
       archiveVars, tables

\* The invariant of compaction and imports together: what the manifests and
\* their drafts say, and what the importers and the tables hold.
THEOREM ArchiveInvariant == ASSUME SingleFault PROVE ArchiveSpec => []ArchiveIInv
<1>1. RetentionInit /\ ArchiveInit => ArchiveIInv
  BY RetentionBegins, ArchiveBegins DEF ArchiveIInv
<1>2. ArchiveIInv /\ [ArchiveStep]_vars => ArchiveIInv'
  <2> SUFFICES ASSUME RetentionInv, ArchiveInv, [ArchiveStep]_vars
               PROVE RetentionInv' /\ ArchiveInv'
    BY DEF ArchiveIInv
  <2>1. CASE RetentionNext /\ UNCHANGED archiveVars
    BY <2>1, RetentionStep, ArchiveLeftAlone
  <2>2. CASE ArchiveNext /\ UNCHANGED retentionVars
    BY <2>2, ArchiveKeeps, ArchiveStuttersKeep
  <2>3. CASE UNCHANGED vars
    BY <2>3, ArchiveStuttersKeep, ArchiveLeftAlone DEF vars
  <2> QED BY <2>1, <2>2, <2>3 DEF ArchiveStep
<1> QED BY <1>1, <1>2, PTL DEF ArchiveSpec

\* However often compactions of an export and of the archive nested in it are
\* interrupted, repeated and run beside each other and beside imports, with one
\* file or object damaged, no evidence is lost: each file that is gone reads as
\* it was, or was omitted where that is allowed (results/retention.py).
THEOREM EvidenceStaysReadable == ASSUME SingleFault PROVE ArchiveSpec => []EvidenceReadable
<1>1. ArchiveIInv => EvidenceReadable
  BY RetentionKeepsEvidence DEF ArchiveIInv
<1> QED BY <1>1, ArchiveInvariant, PTL

\* Whoever imports, retries, stops or compacts, each row of the archive has its
\* object, each evaluation all its files and the candidate that was scored, and a
\* queued export is in the outbox or imported (results/outbox.py, store.py).
THEOREM ArchiveStaysWhole == ASSUME SingleFault PROVE ArchiveSpec => []ArchiveWhole
<1>1. ArchiveIInv => ArchiveWhole
  BY ArchiveInvWhole DEF ArchiveIInv
<1> QED BY <1>1, ArchiveInvariant, PTL

\* Whatever is damaged, how often ever: no step changes what was imported before,
\* or supersedes an evaluation without having been asked for a revision
\* (results/store.py).
THEOREM ResultsNeverChange == ArchiveSpec => ResultsImmutable
<1>1. ArchiveInit => ImportsTyped
  BY ArchiveBegins DEF ArchiveInit, Free, ArchiveInv, ImportsTyped
<1>2. ASSUME ImportsTyped, UNCHANGED archiveVars PROVE ImportsTyped'
  BY <1>2 DEF ImportsTyped, ArchiveTypes, archiveVars, tables
<1>3. ImportsTyped /\ [ArchiveStep]_vars => ImportsTyped'
  BY <1>2, ImportsStayTyped DEF ArchiveStep, vars
<1>4. ImportsTyped /\ [ArchiveStep]_vars => [Immutable]_vars
  <2> SUFFICES ASSUME ImportsTyped, [ArchiveStep]_vars PROVE Immutable
    OBVIOUS
  <2>1. CASE ArchiveNext
    BY <2>1, ImportsImmutable
  <2>2. CASE UNCHANGED archiveVars
    BY <2>2, TablesUnchanged DEF archiveVars, tables
  <2>3. CASE UNCHANGED vars
    BY <2>3, TablesUnchanged DEF vars, archiveVars, tables
  <2> QED BY <2>1, <2>2, <2>3 DEF ArchiveStep
<1> QED BY <1>1, <1>3, <1>4, PTL DEF ArchiveSpec, ResultsImmutable

Frozen == INSTANCE FrozenRun

-----------------------------------------------------------------------------
(* The acceptance of a finished run                                        *)

\* Of some numbers up to n one is the last.
LEMMA LastOfSome ==
    ASSUME NEW n \in Nat, NEW S \in SUBSET (1 .. n), S # {}
    PROVE \E i \in S : \A k \in S : k <= i
<1>1. PICK R, T : R = OpToRel(<, Nat) /\ T = {n - i : i \in S}
  OBVIOUS
<1>2. \A i, k \in Nat : i < k => <<i, k>> \in R
  BY <1>1 DEF OpToRel
<1>3. T \subseteq Nat /\ T # {}
  <2>1. \A i \in S : n - i \in Nat
    OBVIOUS
  <2> QED BY <1>1, <2>1
<1>4. IsWellFoundedOn(R, Nat)
  BY <1>1, NatLessThanWellFounded
<1>5. PICK t \in T : \A m \in T : ~(<<m, t>> \in R)
  BY <1>3, <1>4, WFMin
<1>6. \A m \in T : t <= m
  <2> TAKE m \in T
  <2>1. m \in Nat /\ t \in Nat
    BY <1>3
  <2>2. ~(m < t)
    BY <1>2, <1>5, <2>1
  <2> QED BY <2>1, <2>2
<1>7. PICK i \in S : t = n - i
  BY <1>1
<1>8. \A k \in S : n - i <= n - k
  BY <1>1, <1>6, <1>7
<1> QED BY <1>8

LEMMA LastIsAccepted ==
    ASSUME NEW run, Len(run.journal.submissions) \in Nat,
           DOMAIN run.journal.submissions = 1 .. Len(run.journal.submissions),
           Frozen!Accepted(run) # {}
    PROVE \E i \in Frozen!Accepted(run) : Frozen!LastAccepted(run) = run.journal.submissions[i]
<1>1. PICK A, L : A = Frozen!Accepted(run) /\ L = Frozen!Latest(run)
  OBVIOUS
<1>2. A \in SUBSET (1 .. Len(run.journal.submissions)) /\ A # {}
  BY <1>1 DEF Frozen!Accepted
<1>3. \E i \in A : \A k \in A : k <= i
  BY <1>2, LastOfSome
<1>4. L = {i \in A : \A k \in A : k <= i}
  BY <1>1 DEF Frozen!Latest
<1>5. PICK last : last = CHOOSE i \in L : TRUE
  OBVIOUS
<1>6. last \in L
  BY <1>3, <1>4, <1>5
<1>7. last \in A /\ Frozen!LastAccepted(run) = run.journal.submissions[last]
  BY <1>1, <1>4, <1>5, <1>6 DEF Frozen!LastAccepted
<1> QED BY <1>1, <1>7

LEMMA IntactIsThere ==
    ASSUME NEW archive, NEW ref, Frozen!Intact(archive, ref)
    PROVE Frozen!Bytes(archive, ref) = ref
BY DEF Frozen!Intact, Frozen!Bytes

LEMMA CandidateIsLast ==
    ASSUME NEW run, Len(run.journal.submissions) \in Nat,
           DOMAIN run.journal.submissions = 1 .. Len(run.journal.submissions),
           Frozen!Recovered(run).intact, Frozen!Recovered(run).candidate # None
    PROVE Frozen!Recovered(run).candidate = Frozen!LastAccepted(run).receipt
<1>1. Frozen!Accepted(run) # {}
  BY DEF Frozen!Recovered
<1>2. PICK i \in Frozen!Accepted(run) : Frozen!LastAccepted(run) = run.journal.submissions[i]
  BY <1>1, LastIsAccepted
<1>3. run.journal.submissions[i].receipt = run.journal.submissions[i].candidate
  BY <1>2 DEF Frozen!Recovered
<1> QED BY <1>1, <1>2, <1>3 DEF Frozen!Recovered

LEMMA EvaluationChained ==
    ASSUME NEW run, NEW frozen, Len(run.journal.submissions) \in Nat,
           DOMAIN run.journal.submissions = 1 .. Len(run.journal.submissions),
           Frozen!verify_frozen_run(run, frozen), run.report.evaluation # None
    PROVE /\ Frozen!Bytes(run.archive, run.evaluation.plan)
               = Frozen!Bytes(frozen.archive, frozen.inputs["evaluation"])
          /\ \A r \in DOMAIN run.evaluation.inputs :
               Frozen!Bytes(run.archive, run.evaluation.inputs[r]) =
                 IF r = "candidate" THEN Frozen!LastAccepted(run).receipt
                 ELSE IF r = "task" THEN frozen.description ELSE frozen.inputs[r]
          /\ \A n \in DOMAIN run.evaluation.engine : run.evaluation.engine[n] = frozen.implementation[n]
<1>1. /\ Frozen!Recovered(run).intact /\ Frozen!Recovered(run).candidate = run.report.candidate
      /\ Frozen!EvaluationBound(run, frozen)
  BY DEF Frozen!verify_frozen_run
<1>2. /\ Frozen!Within(run.evaluation.engine, frozen.implementation)
      /\ Frozen!EvaluationInputs(run, frozen)
  BY <1>1 DEF Frozen!EvaluationBound
<1>3. Frozen!Bytes(run.archive, run.evaluation.plan) = Frozen!Bytes(frozen.archive, frozen.inputs["evaluation"])
  BY <1>2, IntactIsThere DEF Frozen!EvaluationInputs
<1>4. ASSUME NEW r \in DOMAIN run.evaluation.inputs
      PROVE Frozen!Bytes(run.archive, run.evaluation.inputs[r]) =
              IF r = "candidate" THEN Frozen!LastAccepted(run).receipt
              ELSE IF r = "task" THEN frozen.description ELSE frozen.inputs[r]
  <2>1. /\ Frozen!Declared(frozen, run.report, r) # None
        /\ run.evaluation.inputs[r] = Frozen!Declared(frozen, run.report, r)
        /\ Frozen!Intact(run.archive, run.evaluation.inputs[r])
    BY <1>2 DEF Frozen!EvaluationInputs
  <2>2. Frozen!Bytes(run.archive, run.evaluation.inputs[r]) = Frozen!Declared(frozen, run.report, r)
    BY <2>1, IntactIsThere
  <2>3. CASE r = "candidate"
    <3>1. Frozen!Declared(frozen, run.report, r) = run.report.candidate
      BY <2>3 DEF Frozen!Declared
    <3> QED BY <1>1, <2>1, <2>2, <2>3, <3>1, CandidateIsLast
  <2>4. CASE r # "candidate"
    BY <2>1, <2>2, <2>4 DEF Frozen!Declared
  <2> QED BY <2>3, <2>4
<1>5. \A n \in DOMAIN run.evaluation.engine : run.evaluation.engine[n] = frozen.implementation[n]
  BY <1>2 DEF Frozen!Within
<1> QED BY <1>3, <1>4, <1>5

LEMMA ProcessChained ==
    ASSUME NEW run, NEW frozen, Frozen!verify_frozen_run(run, frozen), run.report.process # None,
           NEW i \in DOMAIN run.report.process, run.report.process[i].report # None
    PROVE LET check == run.report.process[i] IN
          /\ run.opened[Frozen!Bytes(run.archive, check.report)].candidate
               = Frozen!Bytes(run.archive, check.candidate)
          /\ run.opened[Frozen!Bytes(run.archive, check.report)].verdict = check.verdict
<1>1. PICK check : check = run.report.process[i]
  OBVIOUS
<1>2. Frozen!CheckBound(run, frozen, i)
  BY DEF Frozen!verify_frozen_run, Frozen!ProcessBound
<1>3. /\ Frozen!Intact(run.archive, check.report)
      /\ check.candidate # None /\ run.opened[check.report].candidate = check.candidate
      /\ check.verdict = run.opened[check.report].verdict
      /\ Frozen!Intact(run.archive, check.candidate)
  BY <1>1, <1>2 DEF Frozen!CheckBound
<1> QED BY <1>1, <1>3, IntactIsThere

\* What is accepted of a finished run is what happened in it, for every run and
\* whatever of it was exchanged: the bytes that were evaluated are those of the
\* last submission its journal committed, read with the frozen plan, inputs and
\* evaluator; a check's verdict is one of the candidate beside it; and the score
\* a service returned is that of the candidate it names (results/verification.py).
THEOREM AcceptedRunsAreBound ==
    \A submissions, run, result, frozen :
      run.journal.submissions \in Seq(submissions) => Frozen!RunBound(run, result, frozen)
<1> SUFFICES ASSUME NEW submissions, NEW run, NEW result, NEW frozen,
                    run.journal.submissions \in Seq(submissions)
             PROVE Frozen!RunBound(run, result, frozen)
  OBVIOUS
<1>1. /\ Len(run.journal.submissions) \in Nat
      /\ DOMAIN run.journal.submissions = 1 .. Len(run.journal.submissions)
  OBVIOUS
<1>2. Frozen!verify_frozen_run(run, frozen) => Frozen!Chained(run, frozen)
  BY <1>1, EvaluationChained, ProcessChained DEF Frozen!Chained
<1>3. Frozen!verify_service_result(run, result, frozen) => Frozen!Returned(run, result, frozen)
  BY DEF Frozen!verify_service_result, Frozen!Returned
<1> QED BY <1>2, <1>3 DEF Frozen!RunBound

-----------------------------------------------------------------------------
(* What leaves as a package arrives whole or is refused; what is             *)
(* concluded from a simulator's log, or of a calibration, for every log and  *)
(* every list of candidates                                                  *)

CONSTANTS SizeOf(_), DeclaredBy(_), ManifestBytes, PackageBytes, PackageFiles
Package == INSTANCE ResultPackage WITH Size <- SizeOf, Files <- DeclaredBy, ManifestSize <- ManifestBytes,
             MaxBytes <- PackageBytes, MaxFiles <- PackageFiles
Simulators == INSTANCE SimulatorResults

\* The members of a package are names with data.
Members(package) == \A i \in DOMAIN package : package[i] = [name |-> package[i].name, data |-> package[i].data]

\* What is believed of a package that was unpacked.
LEMMA Believed ==
    ASSUME NEW package, NEW max, Package!unpack(package, max) # None
    PROVE  \E described \in Package!Manifests(package) :
             /\ described = CHOOSE m \in Package!Manifests(package) : TRUE
             /\ DOMAIN described.data.files = {m.name : m \in Package!ToSet(package)} \ {<<"manifest.json">>}
             /\ \A m \in Package!ToSet(package) \ Package!Manifests(package) : m.data = described.data.files[m.name]
<1>1. PICK names : names = {package[i].name : i \in DOMAIN package}
  OBVIOUS
<1>2. names = {m.name : m \in Package!ToSet(package)}
  BY <1>1 DEF Package!ToSet
<1>3. PICK described : described = CHOOSE m \in Package!Manifests(package) : TRUE
  OBVIOUS
<1>4. /\ Package!Manifests(package) # {} /\ DOMAIN described.data.files = names \ {<<"manifest.json">>}
      /\ \A i \in DOMAIN package : package[i].name # <<"manifest.json">> => package[i].data = described.data.files[package[i].name]
  BY <1>1, <1>3 DEF Package!unpack
<1>5. described \in Package!Manifests(package)
  BY <1>3, <1>4
<1>6. Package!Manifests(package) = {m \in Package!ToSet(package) : m.name = <<"manifest.json">>}
  BY DEF Package!Manifests, Package!ToSet
<1>7. \A m \in Package!ToSet(package) \ Package!Manifests(package) : m.data = described.data.files[m.name]
  BY <1>4, <1>6 DEF Package!ToSet
<1> QED BY <1>2, <1>3, <1>4, <1>5, <1>7

\* A file that lost, gained or changed its bytes or its place on the way is
\* noticed when the package is unpacked, whatever happened to it. transfer.py:117-175.
THEOREM DamageIsNoticed ==
    ASSUME NEW package, Members(package), Package!unpack(package, PackageBytes + ManifestBytes) # None,
           NEW damaged, Members(damaged)
    PROVE  Package!DamageNoticed(package, damaged)
<1>1. SUFFICES ASSUME Package!unpack(damaged, PackageBytes + ManifestBytes) # None,
                      Package!Manifests(damaged) = Package!Manifests(package)
               PROVE  Package!ToSet(damaged) = Package!ToSet(package)
  BY DEF Package!DamageNoticed
<1>2. PICK described : /\ described = CHOOSE m \in Package!Manifests(package) : TRUE
                      /\ DOMAIN described.data.files = {m.name : m \in Package!ToSet(package)} \ {<<"manifest.json">>}
                      /\ \A m \in Package!ToSet(package) \ Package!Manifests(package) : m.data = described.data.files[m.name]
  BY Believed
<1>3. /\ DOMAIN described.data.files = {m.name : m \in Package!ToSet(damaged)} \ {<<"manifest.json">>}
      /\ \A m \in Package!ToSet(damaged) \ Package!Manifests(damaged) : m.data = described.data.files[m.name]
  <2>1. PICK other : /\ other = CHOOSE m \in Package!Manifests(damaged) : TRUE
                     /\ DOMAIN other.data.files = {m.name : m \in Package!ToSet(damaged)} \ {<<"manifest.json">>}
                     /\ \A m \in Package!ToSet(damaged) \ Package!Manifests(damaged) : m.data = other.data.files[m.name]
    BY ONLY <1>1, Believed
  <2>2. other = described
    BY ONLY <1>1, <1>2, <2>1
  <2> QED BY ONLY <2>1, <2>2
<1>4. \A m, o : /\ m \in Package!ToSet(package) \cup Package!ToSet(damaged)
                /\ o \in Package!ToSet(package) \cup Package!ToSet(damaged)
                => (m.name = o.name /\ m.data = o.data => m = o)
  <2>1. ASSUME NEW m, m \in Package!ToSet(package) \cup Package!ToSet(damaged) PROVE m = [name |-> m.name, data |-> m.data]
    BY <2>1 DEF Members, Package!ToSet
  <2> QED BY <2>1
<1>5. \A m \in Package!ToSet(damaged) : m \in Package!ToSet(package)
  <2> TAKE m \in Package!ToSet(damaged)
  <2>1. CASE m \in Package!Manifests(damaged)
    BY <1>1, <2>1 DEF Package!Manifests, Package!ToSet
  <2>2. CASE m \notin Package!Manifests(damaged)
    <3>1. m.name # <<"manifest.json">>
      BY <2>2 DEF Package!Manifests, Package!ToSet
    <3>2. PICK o \in Package!ToSet(package) : o.name = m.name
      <4>1. m.name \in {o.name : o \in Package!ToSet(damaged)} \ {<<"manifest.json">>}
        BY ONLY <3>1, m \in Package!ToSet(damaged)
      <4>2. m.name \in {o.name : o \in Package!ToSet(package)}
        BY ONLY <1>2, <1>3, <4>1
      <4> QED BY ONLY <4>2
    <3>3. o \notin Package!Manifests(package)
      BY <3>1, <3>2 DEF Package!Manifests, Package!ToSet
    <3>4. o.data = m.data
      BY <1>2, <1>3, <2>2, <3>2, <3>3
    <3> QED BY <1>4, <3>2, <3>4
  <2> QED BY <2>1, <2>2
<1>6. \A m \in Package!ToSet(package) : m \in Package!ToSet(damaged)
  <2> TAKE m \in Package!ToSet(package)
  <2>1. CASE m \in Package!Manifests(package)
    BY <1>1, <2>1 DEF Package!Manifests, Package!ToSet
  <2>2. CASE m \notin Package!Manifests(package)
    <3>1. m.name # <<"manifest.json">>
      BY <2>2 DEF Package!Manifests, Package!ToSet
    <3>2. PICK o \in Package!ToSet(damaged) : o.name = m.name
      <4>1. m.name \in {o.name : o \in Package!ToSet(package)} \ {<<"manifest.json">>}
        BY ONLY <3>1, m \in Package!ToSet(package)
      <4>2. m.name \in {o.name : o \in Package!ToSet(damaged)}
        BY ONLY <1>2, <1>3, <4>1
      <4> QED BY ONLY <4>2
    <3>3. o \notin Package!Manifests(damaged)
      BY <3>1, <3>2 DEF Package!Manifests, Package!ToSet
    <3>4. o.data = m.data
      BY <1>2, <1>3, <2>2, <3>2, <3>3
    <3> QED BY <1>4, <3>2, <3>4
  <2> QED BY <2>1, <2>2
<1> QED BY <1>5, <1>6

\* The smallest of some numbers.
LEMMA LeastNatural ==
    ASSUME NEW U, U \subseteq Nat, U # {} PROVE \E n \in U : \A m \in U : n <= m
<1>1. PICK R : R = OpToRel(<, Nat)
  OBVIOUS
<1>2. \A n, m \in Nat : n < m => <<n, m>> \in R
  BY <1>1 DEF OpToRel
<1>3. IsWellFoundedOn(R, Nat)
  BY <1>1, NatLessThanWellFounded
<1>4. PICK n \in U : \A m \in U : ~(<<m, n>> \in R)
  BY <1>3, WFMin
<1>5. \A m \in U : ~(m < n)
  BY <1>2, <1>4
<1> QED BY <1>5


\* What a list holds, and what stands twice in it, in another order.
TurnedOf(index, back) ==
  /\ DOMAIN back = DOMAIN index
  /\ \A i \in DOMAIN index : \E j \in DOMAIN index : back[i] = index[j] /\ back[j] = index[i]
  /\ \A i, j \in DOMAIN index : i # j => \E a, b \in DOMAIN index : a # b /\ back[i] = index[a] /\ back[j] = index[b]
\* A list, and the same from its end.
FromOne(s) == \E n \in Nat : DOMAIN s = 1 .. n /\ Len(s) = n
Backwards(s) == [i \in 1 .. Len(s) |-> s[(Len(s) - i) + 1]]
LEMMA ReadBackwards ==
    ASSUME NEW index, FromOne(index), NEW back, back = Backwards(index)
    PROVE  TurnedOf(index, back)
<1>1. PICK n \in Nat : DOMAIN index = 1 .. n /\ Len(index) = n
  BY DEF FromOne
<1>2. back = [i \in 1 .. n |-> index[(n - i) + 1]]
  BY <1>1 DEF Backwards
<1>3. \A i \in 1 .. n : (n - i) + 1 \in 1 .. n /\ (n - ((n - i) + 1)) + 1 = i
  BY <1>1
<1>4. ASSUME NEW i \in DOMAIN index
      PROVE  \E j \in DOMAIN index : j = (n - i) + 1 /\ back[i] = index[j] /\ back[j] = index[i]
  <2>1. PICK j : j = (n - i) + 1
    OBVIOUS
  <2>2. j \in 1 .. n /\ (n - j) + 1 = i
    BY <1>1, <1>3, <2>1
  <2> QED BY <1>1, <1>2, <2>1, <2>2
<1>5. ASSUME NEW i \in DOMAIN index, NEW j \in DOMAIN index, i # j
      PROVE  \E a, b \in DOMAIN index : a # b /\ back[i] = index[a] /\ back[j] = index[b]
  <2>1. PICK a \in DOMAIN index : a = (n - i) + 1 /\ back[i] = index[a]
    BY <1>4
  <2>2. PICK b \in DOMAIN index : b = (n - j) + 1 /\ back[j] = index[b]
    BY <1>4
  <2>3. a # b
    BY <1>1, <1>5, <2>1, <2>2
  <2> QED BY <2>1, <2>2, <2>3
<1> QED BY <1>1, <1>2, <1>4, <1>5 DEF TurnedOf

\* A simulator's run: how it ended, and the lines of its log.
LogOf(run, Lines) ==
  /\ run.log \in Seq(Lines)
  /\ run = [code |-> run.code, crashed |-> run.crashed, concluded |-> run.concluded, rows |-> run.rows, log |-> run.log]
RejectedBy(run, requested) ==
  {n \in Simulators!FailedEvents(run.log, requested) : Simulators!Printed(run.log, n) = {} /\ run.rows > 0}
KindsOf(log) == {log[i].kind : i \in DOMAIN log}
BrokenBy(run, requested) ==
  \/ run.code # 0 \/ run.crashed \/ "error" \in KindsOf(run.log)
  \/ Simulators!Of(run.log, "event") \ Simulators!FailedEvents(run.log, requested) # {}
  \/ Simulators!FailedEvents(run.log, requested) \ RejectedBy(run, requested) # {}
  \/ \E n \in requested \ RejectedBy(run, requested) : ~Simulators!Given(run.log, n)

LEMMA NgspiceIs ==
    ASSUME NEW run, NEW requested
    PROVE  Simulators!Ngspice(run, requested) =
             IF BrokenBy(run, requested) THEN Simulators!Broken
             ELSE IF RejectedBy(run, requested) # {} THEN Simulators!Verdict("failed", << >>)
             ELSE Simulators!Read(run.log, requested)
BY DEF Simulators!Ngspice, BrokenBy, RejectedBy, KindsOf

LEMMA PrintedOnce ==
    ASSUME NEW S, NEW log, log \in Seq(S), NEW n
    PROVE  Simulators!Cardinality(Simulators!Printed(log, n)) = 1 <=> \E i : Simulators!Printed(log, n) = {i}
<1>1. PICK P : P = Simulators!Printed(log, n)
  OBVIOUS
<1>2. P \subseteq 1 .. Len(log) /\ Len(log) \in Nat
  BY <1>1 DEF Simulators!Printed
<1>3. IsFiniteSet(1 .. Len(log))
  BY <1>2, FS_Interval
<1>4. IsFiniteSet(P)
  BY ONLY <1>2, <1>3, FS_Subset
<1>5. Simulators!Cardinality(P) = Cardinality(P)
  BY DEF Simulators!Cardinality, Cardinality
<1> QED BY <1>1, <1>4, <1>5, FS_Singleton

\* A log says the same, whichever way its lines are read.
SaysSame(log, back) ==
  /\ \A k : Simulators!Of(back, k) = Simulators!Of(log, k)
  /\ KindsOf(back) = KindsOf(log)
  /\ \A n : Simulators!Printed(back, n) = {} <=> Simulators!Printed(log, n) = {}
  /\ \A n : Simulators!Given(back, n) <=> Simulators!Given(log, n)
  /\ \A n : Simulators!Given(log, n) => Simulators!Value(back, n) = Simulators!Value(log, n)

OnlyLine(log, n, i) == Simulators!Printed(log, n) = {i}
LEMMA OneLineEach ==
    ASSUME NEW log, NEW back, TurnedOf(log, back), NEW n, NEW i, OnlyLine(log, n, i)
    PROVE  \E j : OnlyLine(back, n, j) /\ back[j] = log[i]
<1>1. i \in DOMAIN log /\ log[i].kind = "value" /\ log[i].name = n
  BY DEF Simulators!Printed, OnlyLine
<1>2. PICK j \in DOMAIN back : back[j] = log[i]
  BY <1>1 DEF TurnedOf
<1>3. j \in Simulators!Printed(back, n)
  BY <1>1, <1>2 DEF Simulators!Printed
<1>4. ASSUME NEW k \in Simulators!Printed(back, n) PROVE k = j
  <2>1. k \in DOMAIN back /\ back[k].kind = "value" /\ back[k].name = n
    BY <1>4 DEF Simulators!Printed
  <2>2. SUFFICES ASSUME k # j PROVE FALSE
    OBVIOUS
  <2>3. PICK a, b \in DOMAIN log : a # b /\ back[k] = log[a] /\ back[j] = log[b]
    BY <2>1, <2>2 DEF TurnedOf
  <2>4. a \in Simulators!Printed(log, n) /\ b \in Simulators!Printed(log, n)
    BY <1>1, <1>2, <2>1, <2>3 DEF Simulators!Printed
  <2> QED BY <2>3, <2>4 DEF OnlyLine
<1> QED BY <1>2, <1>3, <1>4 DEF OnlyLine

LEMMA TurnedLog ==
    ASSUME NEW S, NEW log, log \in Seq(S), NEW back, back \in Seq(S), TurnedOf(log, back), TurnedOf(back, log)
    PROVE  SaysSame(log, back)
<1>1. DOMAIN back = DOMAIN log /\ (\A i \in DOMAIN log : \E j \in DOMAIN log : back[i] = log[j] /\ back[j] = log[i])
  BY DEF TurnedOf
<1>2. \A k : Simulators!Of(back, k) = Simulators!Of(log, k)
  BY <1>1 DEF Simulators!Of
<1>3. KindsOf(back) = KindsOf(log)
  BY <1>1 DEF KindsOf
<1>4. \A n : Simulators!Printed(back, n) = {} <=> Simulators!Printed(log, n) = {}
  BY <1>1 DEF Simulators!Printed
<1>5. ASSUME NEW n, Simulators!Given(log, n)
      PROVE  Simulators!Given(back, n) /\ Simulators!Value(back, n) = Simulators!Value(log, n)
  <2>1. PICK i : OnlyLine(log, n, i)
    BY <1>5, PrintedOnce DEF Simulators!Given, OnlyLine
  <2>2. PICK j : OnlyLine(back, n, j) /\ back[j] = log[i]
    BY <2>1, OneLineEach
  <2>3. Simulators!Value(back, n) = Simulators!Value(log, n)
    BY <2>1, <2>2 DEF Simulators!Value, OnlyLine
  <2>4. Simulators!Cardinality(Simulators!Printed(back, n)) = 1
    BY <2>2, PrintedOnce DEF OnlyLine
  <2> QED BY <1>5, <2>3, <2>4 DEF Simulators!Given
<1>6. ASSUME NEW n, Simulators!Given(back, n)
      PROVE  Simulators!Given(log, n)
  <2>1. PICK i : OnlyLine(back, n, i)
    BY <1>6, PrintedOnce DEF Simulators!Given, OnlyLine
  <2>2. PICK j : OnlyLine(log, n, j) /\ log[j] = back[i]
    BY <2>1, OneLineEach
  <2>3. Simulators!Value(back, n) = Simulators!Value(log, n)
    BY <2>1, <2>2 DEF Simulators!Value, OnlyLine
  <2>4. Simulators!Cardinality(Simulators!Printed(log, n)) = 1
    BY <2>2, PrintedOnce DEF OnlyLine
  <2> QED BY <1>6, <2>3, <2>4 DEF Simulators!Given
<1> QED BY <1>2, <1>3, <1>4, <1>5, <1>6 DEF SaysSame

LEMMA SameVerdict ==
    ASSUME NEW run, NEW other, NEW requested, SaysSame(run.log, other.log),
           other.code = run.code, other.crashed = run.crashed, other.rows = run.rows
    PROVE  Simulators!Ngspice(other, requested) = Simulators!Ngspice(run, requested)
<1>1. Simulators!FailedEvents(other.log, requested) = Simulators!FailedEvents(run.log, requested)
  BY DEF Simulators!FailedEvents, SaysSame
<1>2. RejectedBy(other, requested) = RejectedBy(run, requested)
  BY <1>1 DEF RejectedBy, SaysSame
<1>3. BrokenBy(other, requested) <=> BrokenBy(run, requested)
  BY <1>1, <1>2 DEF BrokenBy, SaysSame
<1>4. ASSUME ~BrokenBy(run, requested), RejectedBy(run, requested) = {}
      PROVE  Simulators!Read(other.log, requested) = Simulators!Read(run.log, requested)
  <2>1. \A n \in requested : Simulators!Given(run.log, n)
    BY <1>4 DEF BrokenBy
  <2>2. \A n \in requested : Simulators!Value(other.log, n) = Simulators!Value(run.log, n)
    BY <2>1 DEF SaysSame
  <2> QED BY <2>2 DEF Simulators!Read
<1> QED BY <1>2, <1>3, <1>4, NgspiceIs

\* What is known when a run is not broken.
LEMMA Unbroken ==
    ASSUME NEW run, NEW requested, ~BrokenBy(run, requested)
    PROVE  /\ "error" \notin KindsOf(run.log)
           /\ Simulators!Of(run.log, "event") \subseteq RejectedBy(run, requested)
           /\ RejectedBy(run, requested) \subseteq requested
           /\ \A n \in RejectedBy(run, requested) :
                /\ n \in Simulators!Of(run.log, "event") /\ Simulators!Printed(run.log, n) = {} /\ run.rows > 0
           /\ \A n \in requested \ RejectedBy(run, requested) : Simulators!Given(run.log, n)
BY DEF BrokenBy, RejectedBy, Simulators!FailedEvents

\* A candidate fails, or passes, only by what the whole log says of every
\* measure that was asked for: the order of the lines does not matter, a log
\* that was cut is never that of a failed one, and a failure that nobody asked
\* about is not taken for the candidate's. ngspice.py:147-197, synopsys.py:223-283.
THEOREM LogIsConclusive ==
    ASSUME NEW run, NEW Lines, LogOf(run, Lines), NEW requested
    PROVE  Simulators!LogConclusive(run, requested)
<1>1. PICK v, log : v = Simulators!Ngspice(run, requested) /\ log = run.log
  OBVIOUS
<1>2. log \in Seq(Lines) /\ run = [code |-> run.code, crashed |-> run.crashed, concluded |-> run.concluded,
                                   rows |-> run.rows, log |-> log]
  BY <1>1 DEF LogOf
<1>3. ASSUME NEW text PROVE /\ [run EXCEPT !.log = text].log = text /\ [run EXCEPT !.log = text].code = run.code
                            /\ [run EXCEPT !.log = text].crashed = run.crashed /\ [run EXCEPT !.log = text].rows = run.rows
  BY <1>2
<1>4. Simulators!Ngspice([run EXCEPT !.log = Simulators!Reverse(@)], requested) = v
  <2>1. PICK back : back = Backwards(log)
    OBVIOUS
  <2>2. Simulators!Reverse(log) = back
    BY <2>1 DEF Simulators!Reverse, Backwards
  <2>3. FromOne(log) /\ DOMAIN back = 1 .. Len(log) /\ \A i \in 1 .. Len(log) : back[i] = log[(Len(log) - i) + 1]
    BY <1>2, <2>1 DEF FromOne, Backwards
  <2>4. back \in Seq(Lines) /\ Len(back) = Len(log)
    <3>1. Len(log) \in Nat /\ (\A i \in 1 .. Len(log) : (Len(log) - i) + 1 \in 1 .. Len(log))
      BY <1>2
    <3>2. \A i \in 1 .. Len(log) : log[i] \in Lines
      BY <1>2
    <3>3. back \in [1 .. Len(log) -> Lines]
      BY <2>1, <3>1, <3>2 DEF Backwards
    <3> QED BY <3>1, <3>3
  <2>5. TurnedOf(log, back)
    BY <2>1, <2>3, ReadBackwards
  <2>6. TurnedOf(back, log)
    <3>1. FromOne(back)
      BY <2>3, <2>4 DEF FromOne
    <3>2. log = Backwards(back)
      <4>1. \A i \in 1 .. Len(log) : (Len(log) - i) + 1 \in 1 .. Len(log) /\ (Len(log) - ((Len(log) - i) + 1)) + 1 = i
        BY <1>2
      <4>2. \A i \in 1 .. Len(log) : back[(Len(log) - i) + 1] = log[i]
        BY <2>3, <4>1
      <4>3. log = [i \in 1 .. Len(log) |-> log[i]]
        BY <1>2
      <4> QED BY <2>4, <4>2, <4>3 DEF Backwards
    <3> QED BY <3>1, <3>2, ReadBackwards
  <2>7. SaysSame(log, back)
    BY <1>2, <2>4, <2>5, <2>6, TurnedLog
  <2>8. PICK other : other = [run EXCEPT !.log = back]
    OBVIOUS
  <2>9. other = [run EXCEPT !.log = Simulators!Reverse(@)]
    BY <1>1, <2>2, <2>8
  <2>10. Simulators!Ngspice(other, requested) = v
    <3>1. /\ other.log = back /\ other.code = run.code
          /\ other.crashed = run.crashed /\ other.rows = run.rows
      BY <1>3, <2>8
    <3>2. SaysSame(run.log, other.log)
      BY <1>1, <2>7, <3>1
    <3> QED BY ONLY <1>1, <3>1, <3>2, SameVerdict
  <2> QED BY <2>9, <2>10
<1>5. /\ v.status = "passed" <=> ~BrokenBy(run, requested) /\ RejectedBy(run, requested) = {}
      /\ v.status = "failed" <=> ~BrokenBy(run, requested) /\ RejectedBy(run, requested) # {}
      /\ v.status # "error" => ~BrokenBy(run, requested)
  BY <1>1, NgspiceIs DEF Simulators!Broken, Simulators!Verdict, Simulators!Read
<1>6. v.status = "passed" => \A n \in requested :
        Simulators!Cardinality(Simulators!Printed(log, n)) = 1 /\ n \notin Simulators!Of(log, "event")
  BY <1>1, <1>5, Unbroken DEF Simulators!Given
<1>7. v.status = "failed" =>
        /\ \A n \in requested :
             \/ Simulators!Cardinality(Simulators!Printed(log, n)) = 1 /\ n \notin Simulators!Of(log, "event")
             \/ n \in Simulators!Of(log, "event") /\ Simulators!Printed(log, n) = {}
        /\ \E n \in requested : n \in Simulators!Of(log, "event") /\ Simulators!Printed(log, n) = {}
        /\ run.rows > 0
  <2> SUFFICES ASSUME v.status = "failed"
               PROVE  /\ \A n \in requested :
                           \/ Simulators!Cardinality(Simulators!Printed(log, n)) = 1 /\ n \notin Simulators!Of(log, "event")
                           \/ n \in Simulators!Of(log, "event") /\ Simulators!Printed(log, n) = {}
                      /\ \E n \in requested : n \in Simulators!Of(log, "event") /\ Simulators!Printed(log, n) = {}
                      /\ run.rows > 0
    OBVIOUS
  <2>1. ~BrokenBy(run, requested)
    BY <1>5
  <2>2. PICK n \in RejectedBy(run, requested) : TRUE
    BY <1>5
  <2>3. n \in requested /\ n \in Simulators!Of(log, "event") /\ Simulators!Printed(log, n) = {} /\ run.rows > 0
    BY <1>1, <2>1, <2>2, Unbroken
  <2>4. ASSUME NEW m \in requested
        PROVE  \/ Simulators!Cardinality(Simulators!Printed(log, m)) = 1 /\ m \notin Simulators!Of(log, "event")
               \/ m \in Simulators!Of(log, "event") /\ Simulators!Printed(log, m) = {}
    <3>1. CASE m \in RejectedBy(run, requested)
      BY <1>1, <2>1, <3>1, Unbroken
    <3>2. CASE m \notin RejectedBy(run, requested)
      BY <1>1, <2>1, <2>4, <3>2, Unbroken DEF Simulators!Given
    <3> QED BY <3>1, <3>2
  <2> QED BY <2>3, <2>4
<1>8. v.status # "error" => "error" \notin KindsOf(log) /\ Simulators!Of(log, "event") \subseteq requested
  BY <1>1, <1>5, Unbroken
<1>9. ASSUME v.status = "passed", NEW k \in 0 .. Len(log)
      PROVE  Simulators!Ngspice([run EXCEPT !.log = SubSeq(@, 1, k)], requested).status # "failed"
  <2>1. PICK part : part = SubSeq(log, 1, k)
    OBVIOUS
  <2>2. PICK cut : cut = [run EXCEPT !.log = part]
    OBVIOUS
  <2>3. Len(log) \in Nat /\ k \in Int /\ 1 \in Int /\ \A i \in 1 .. k : i \in 1 .. Len(log) /\ log[i] \in Lines
    BY <1>2
  <2>4. Len(part) = (IF 1 <= k THEN k - 1 + 1 ELSE 0) /\ part \in Seq(Lines)
        /\ \A i \in 1 .. k - 1 + 1 : part[i] = log[1 + i - 1]
    BY <2>1, <2>3, SubSeqProperties
  <2>5. DOMAIN part \subseteq DOMAIN log /\ \A i \in DOMAIN part : part[i] = log[i]
    <3>1. DOMAIN part = 1 .. k
      BY <2>3, <2>4
    <3>2. \A i \in 1 .. k : i \in 1 .. k - 1 + 1 /\ 1 + i - 1 = i
      BY <2>3
    <3> QED BY <1>2, <2>3, <2>4, <3>1, <3>2
  <2>6. Simulators!Of(part, "event") \subseteq Simulators!Of(log, "event")
    BY <2>5 DEF Simulators!Of
  <2>7. Simulators!Of(log, "event") = {}
    BY <1>1, <1>5, <1>9, Unbroken
  <2>8. cut.log = part
    BY <1>3, <2>2
  <2>9. RejectedBy(cut, requested) = {}
    BY <2>6, <2>7, <2>8 DEF RejectedBy, Simulators!FailedEvents
  <2>10. Simulators!Ngspice(cut, requested).status # "failed"
    BY <2>9, NgspiceIs DEF Simulators!Broken, Simulators!Verdict, Simulators!Read
  <2>11. cut = [run EXCEPT !.log = SubSeq(@, 1, k)]
    BY <1>1, <2>1, <2>2
  <2> QED BY <2>10, <2>11
<1>10. Simulators!hspice_measures(run, requested).status = "passed" =>
         /\ \A n \in requested : Simulators!Cardinality(Simulators!Printed(log, n)) = 1
         /\ ~\E n \in requested : n \in Simulators!Of(log, "failed")
  BY <1>1 DEF Simulators!hspice_measures, Simulators!Broken, Simulators!Verdict, Simulators!Given
<1> QED BY <1>1, <1>4, <1>6, <1>7, <1>8, <1>9, <1>10 DEF Simulators!LogConclusive, KindsOf

\* The candidates of a calibration, by numbers, and what came of each.
CandidatesOf(candidates, Settings, results, target) ==
  /\ candidates \in Seq(Settings)
  /\ \A i \in DOMAIN candidates : /\ candidates[i].id \in Nat
                                  /\ results[candidates[i].id].values[target.measurement] \in Int
  /\ target.value \in Int
IdsOf(candidates) == {candidates[i].id : i \in DOMAIN candidates}
WithinBounds(candidates, results, bounds) == {id \in IdsOf(candidates) : Simulators!Eligible(results[id], bounds)}
NearestOf(candidates, results, bounds, target) ==
  {id \in WithinBounds(candidates, results, bounds) :
     \A other \in WithinBounds(candidates, results, bounds) :
       Simulators!Distance(results[id], target) <= Simulators!Distance(results[other], target)}
Unfit(candidates, results, bounds) ==
  \/ candidates = << >>
  \/ \E i, k \in DOMAIN candidates : i # k /\ candidates[i].id = candidates[k].id
  \/ \E i, k \in DOMAIN candidates : DOMAIN candidates[i].parameters # DOMAIN candidates[k].parameters
  \/ \E i \in DOMAIN candidates : results[candidates[i].id].status # "passed"
  \/ WithinBounds(candidates, results, bounds) = {}

LEMMA CalibrateIs ==
    ASSUME NEW candidates, NEW results, NEW bounds, NEW target
    PROVE  Simulators!Calibrate(candidates, results, bounds, target) =
             IF Unfit(candidates, results, bounds) THEN Simulators!Broken
             ELSE Simulators!Verdict("passed",
                    [selection |-> Simulators!Min(NearestOf(candidates, results, bounds, target)),
                     values |-> results[Simulators!Min(NearestOf(candidates, results, bounds, target))].values])
<1>1. PICK ids : ids = [i \in DOMAIN candidates |-> candidates[i].id]
  OBVIOUS
<1>2. DOMAIN ids = DOMAIN candidates /\ \A i \in DOMAIN candidates : ids[i] = candidates[i].id
  BY <1>1
<1>3. Simulators!Range(ids) = IdsOf(candidates)
  BY <1>2 DEF Simulators!Range, IdsOf
<1>4. ~Simulators!IsInjective(ids) <=> \E i, k \in DOMAIN candidates : i # k /\ candidates[i].id = candidates[k].id
  BY <1>2 DEF Simulators!IsInjective
<1>5. PICK E : E = WithinBounds(candidates, results, bounds)
  OBVIOUS
<1>6. E = {id \in Simulators!Range(ids) : Simulators!Eligible(results[id], bounds)}
  BY <1>3, <1>5 DEF WithinBounds
<1>7. PICK N : N = NearestOf(candidates, results, bounds, target)
  OBVIOUS
<1>8. N = {id \in E : \A other \in E : Simulators!Distance(results[id], target) <= Simulators!Distance(results[other], target)}
  BY <1>5, <1>7 DEF NearestOf
<1>9. (\E i \in DOMAIN ids : results[ids[i]].status # "passed") <=> \E i \in DOMAIN candidates : results[candidates[i].id].status # "passed"
  BY <1>2
<1>10. PICK unfit \in BOOLEAN : unfit <=> Unfit(candidates, results, bounds)
  OBVIOUS
<1>11. unfit <=> \/ candidates = << >> \/ ~Simulators!IsInjective(ids)
                 \/ \E i, k \in DOMAIN candidates : DOMAIN candidates[i].parameters # DOMAIN candidates[k].parameters
                 \/ \E i \in DOMAIN ids : results[ids[i]].status # "passed"
                 \/ E = {}
  BY <1>4, <1>5, <1>9, <1>10 DEF Unfit
<1>12. Simulators!Calibrate(candidates, results, bounds, target) =
         IF unfit THEN Simulators!Broken
         ELSE Simulators!Verdict("passed", [selection |-> Simulators!Min(N), values |-> results[Simulators!Min(N)].values])
  BY <1>1, <1>6, <1>8, <1>11 DEF Simulators!Calibrate
<1> QED BY <1>7, <1>10, <1>12

\* The nearest is there, and what Min takes of them is one.
LEMMA SelectedNearest ==
    ASSUME NEW candidates, NEW Settings, NEW results, NEW bounds, NEW target,
           CandidatesOf(candidates, Settings, results, target), WithinBounds(candidates, results, bounds) # {}
    PROVE  Simulators!Min(NearestOf(candidates, results, bounds, target)) \in NearestOf(candidates, results, bounds, target)
<1>1. PICK E, N : /\ E = WithinBounds(candidates, results, bounds)
                  /\ N = NearestOf(candidates, results, bounds, target)
  OBVIOUS
<1>2. ASSUME NEW id \in E PROVE id \in Nat /\ Simulators!Distance(results[id], target) \in Nat
  <2>1. PICK i \in DOMAIN candidates : id = candidates[i].id
    BY <1>1, <1>2 DEF WithinBounds, IdsOf
  <2>2. id \in Nat /\ results[id].values[target.measurement] \in Int /\ target.value \in Int
    BY <2>1 DEF CandidatesOf
  <2>3. PICK d : d = results[id].values[target.measurement] - target.value
    OBVIOUS
  <2>4. d \in Int
    BY <2>2, <2>3
  <2>5. Simulators!Distance(results[id], target) = IF d < 0 THEN -d ELSE d
    BY <2>3 DEF Simulators!Distance
  <2> QED BY <2>2, <2>4, <2>5
<1>3. PICK D : D = {Simulators!Distance(results[id], target) : id \in E}
  OBVIOUS
<1>4. D \subseteq Nat /\ D # {}
  BY <1>1, <1>2, <1>3
<1>5. PICK d \in D : \A e \in D : d <= e
  BY ONLY <1>4, LeastNatural
<1>6. PICK id \in E : d = Simulators!Distance(results[id], target)
  BY <1>3, <1>5
<1>7. id \in N
  BY <1>1, <1>3, <1>5, <1>6 DEF NearestOf
<1>8. N \subseteq Nat /\ N # {}
  BY <1>1, <1>2, <1>7 DEF NearestOf
<1>9. \E n \in N : \A m \in N : n <= m
  BY ONLY <1>8, LeastNatural
<1> QED BY <1>1, <1>9 DEF Simulators!Min

\* The setting that is selected is within the bounds and none within them is
\* nearer to the target, in whichever order the candidates are given; where one
\* of them failed there is none. spectre.py:186-245.
THEOREM CalibrationIsNearest ==
    ASSUME NEW candidates, NEW Settings, NEW results, NEW bounds, NEW target,
           CandidatesOf(candidates, Settings, results, target)
    PROVE  Simulators!CalibrationNearest(candidates, results, bounds, target)
<1>1. PICK c : c = Simulators!Calibrate(candidates, results, bounds, target)
  OBVIOUS
<1>2. candidates \in Seq(Settings) /\ Len(candidates) \in Nat /\ DOMAIN candidates = 1 .. Len(candidates)
  BY DEF CandidatesOf
<1>3. PICK back : back = Simulators!Reverse(candidates)
  OBVIOUS
<1>4. TurnedOf(candidates, back)
  BY <1>2, <1>3, ReadBackwards DEF Simulators!Reverse, Backwards, FromOne
<1>5. IdsOf(back) = IdsOf(candidates)
  BY <1>4 DEF TurnedOf, IdsOf
<1>6. PICK E : E = WithinBounds(candidates, results, bounds)
  OBVIOUS
<1>7. WithinBounds(back, results, bounds) = E
  BY <1>5, <1>6 DEF WithinBounds
<1>8. NearestOf(back, results, bounds, target) = NearestOf(candidates, results, bounds, target)
  BY <1>6, <1>7 DEF NearestOf
<1>9. Unfit(back, results, bounds) <=> Unfit(candidates, results, bounds)
  <2>1. back = << >> <=> candidates = << >>
    BY <1>2, <1>4 DEF TurnedOf
  <2>2. (\E i, k \in DOMAIN back : i # k /\ back[i].id = back[k].id)
        <=> \E i, k \in DOMAIN candidates : i # k /\ candidates[i].id = candidates[k].id
    <3>1. ASSUME NEW i \in DOMAIN back, NEW k \in DOMAIN back, i # k, back[i].id = back[k].id
          PROVE  \E a, b \in DOMAIN candidates : a # b /\ candidates[a].id = candidates[b].id
      BY <1>4, <3>1 DEF TurnedOf
    <3>2. ASSUME NEW i \in DOMAIN candidates, NEW k \in DOMAIN candidates, i # k, candidates[i].id = candidates[k].id
          PROVE  \E a, b \in DOMAIN back : a # b /\ back[a].id = back[b].id
      <4>1. PICK a, b : a = (Len(candidates) - i) + 1 /\ b = (Len(candidates) - k) + 1
        OBVIOUS
      <4>2. a \in 1 .. Len(candidates) /\ b \in 1 .. Len(candidates) /\ a # b
            /\ (Len(candidates) - a) + 1 = i /\ (Len(candidates) - b) + 1 = k
        <5>1. PICK n \in Nat : n = Len(candidates) /\ i \in 1 .. n /\ k \in 1 .. n
          BY <1>2
        <5>2. a = (n - i) + 1 /\ b = (n - k) + 1 /\ i # k
          BY <3>2, <4>1, <5>1
        <5>3. a \in 1 .. n /\ b \in 1 .. n /\ a # b /\ (n - a) + 1 = i /\ (n - b) + 1 = k
          <6>1. n \in Int /\ i \in Int /\ k \in Int /\ 1 <= i /\ i <= n /\ 1 <= k /\ k <= n
            BY <5>1
          <6>2. a \in Int /\ b \in Int
            BY <5>2, <6>1
          <6>3. 1 <= a /\ a <= n /\ 1 <= b /\ b <= n /\ a # b
            BY ONLY <5>2, <6>1, <6>2
          <6>4. (n - a) + 1 = i /\ (n - b) + 1 = k
            BY ONLY <5>2, <6>1, <6>2
          <6> QED BY <6>1, <6>2, <6>3, <6>4
        <5> QED BY <5>1, <5>3
      <4>3. back[a] = candidates[i] /\ back[b] = candidates[k]
        BY <1>3, <4>2 DEF Simulators!Reverse
      <4>4. DOMAIN back = 1 .. Len(candidates)
        BY <1>2, <1>4 DEF TurnedOf
      <4> QED BY ONLY <3>2, <4>2, <4>3, <4>4
    <3> QED BY <3>1, <3>2
  <2>3. (\E i, k \in DOMAIN back : DOMAIN back[i].parameters # DOMAIN back[k].parameters)
        <=> \E i, k \in DOMAIN candidates : DOMAIN candidates[i].parameters # DOMAIN candidates[k].parameters
    BY <1>4 DEF TurnedOf
  <2>4. (\E i \in DOMAIN back : results[back[i].id].status # "passed")
        <=> \E i \in DOMAIN candidates : results[candidates[i].id].status # "passed"
    BY <1>4 DEF TurnedOf
  <2> QED BY <1>6, <1>7, <2>1, <2>2, <2>3, <2>4 DEF Unfit
<1>10. Simulators!Calibrate(back, results, bounds, target) = c
  BY <1>1, <1>8, <1>9, CalibrateIs
<1>11. ASSUME c.status = "passed"
       PROVE  /\ c.values.values = results[c.values.selection].values /\ Simulators!Eligible(c.values, bounds)
              /\ \A i \in DOMAIN candidates :
                   /\ results[candidates[i].id].status = "passed"
                   /\ Simulators!Eligible(results[candidates[i].id], bounds) =>
                        Simulators!Distance(c.values, target) <= Simulators!Distance(results[candidates[i].id], target)
  <2>1. ~Unfit(candidates, results, bounds)
    BY <1>1, <1>11, CalibrateIs DEF Simulators!Broken, Simulators!Verdict
  <2>2. PICK n : n = Simulators!Min(NearestOf(candidates, results, bounds, target))
    OBVIOUS
  <2>3. c = [status |-> "passed", values |-> [selection |-> n, values |-> results[n].values]]
    BY <1>1, <2>1, <2>2, CalibrateIs DEF Simulators!Verdict
  <2>4. c.values.values = results[n].values /\ c.values.selection = n
    BY <2>3
  <2>5. n \in NearestOf(candidates, results, bounds, target)
    BY <2>1, <2>2, SelectedNearest DEF Unfit
  <2>6. n \in E /\ \A other \in E : Simulators!Distance(results[n], target) <= Simulators!Distance(results[other], target)
    BY <1>6, <2>5 DEF NearestOf
  <2>7. Simulators!Eligible(c.values, bounds)
    BY <1>6, <2>4, <2>6 DEF WithinBounds, Simulators!Eligible
  <2>8. Simulators!Distance(c.values, target) = Simulators!Distance(results[n], target)
    BY <2>4 DEF Simulators!Distance
  <2>9. ASSUME NEW i \in DOMAIN candidates
        PROVE  /\ results[candidates[i].id].status = "passed"
               /\ Simulators!Eligible(results[candidates[i].id], bounds) => candidates[i].id \in E
    BY <1>6, <2>1 DEF Unfit, WithinBounds, IdsOf
  <2> QED BY <2>4, <2>6, <2>7, <2>8, <2>9
<1> QED BY <1>1, <1>3, <1>10, <1>11 DEF Simulators!CalibrationNearest
=============================================================================
