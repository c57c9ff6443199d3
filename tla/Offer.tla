------------------------------- MODULE Offer -------------------------------
(***************************************************************************)
(* What the receiver makes of an offer before it accepts anything: the     *)
(* path rules of manifest.rs and the checks of recv.rs's loop over the     *)
(* entries.  A path is its components between slashes and, for the rules   *)
(* about single characters, a flaw; a name is a model value of a small     *)
(* set, sorted into the classes the rules tell apart.                      *)
(***************************************************************************)
EXTENDS Naturals, Sequences, ChunkLayout
LOCAL INSTANCE SequencesExt

CONSTANTS
    LongNames,      \* names above MAX_COMPONENT_LEN
    DotNames,       \* names that end in a dot or a space
    DeviceNames,    \* names whose stem is a reserved device name
    OnDisk,         \* the name a Windows file system stores a name under
    MaxFileBytes,   \* config.max_file_bytes
    MaxHashes       \* the chunk hashes a control frame has room for

\* Only names that end in a dot or a space are stored under another one.
ASSUME OnDiskAssumption == \A c \in DOMAIN OnDisk \ DotNames : OnDisk[c] = c

\* Path flaws: above MAX_PATH_LEN, a NUL, a control character, a backslash, a
\* colon in second place.
Flaws == {"long", "nul", "control", "backslash", "drive"}

\* Components that name no directory of their own.
Redundant == {"", "."}

Absolute(p) == Len(p.parts) > 1 /\ p.parts[1] = ""

\* Mutant of Component: names ending in a dot or a space pass.
ComponentAnyEnd(c) == c \notin {".."} \cup LongNames \cup DeviceNames

\* The rules for one component.
Component(c) == c \notin {".."} \cup LongNames \cup DotNames \cup DeviceNames

\* The components pushed after each round of the loop over a path's parts:
\* empty and "." components are passed over.
Pushed(parts) ==
    LET pushed[k \in 0..Len(parts)] ==
          IF k = 0 THEN <<>>
          ELSE IF parts[k] \in Redundant THEN pushed[k - 1]
          ELSE Append(pushed[k - 1], parts[k])
    IN  pushed

\* sanitize_relative_path: the components of the clean path, or Err.
Sanitize(p) ==
    LET kept == Pushed(p.parts)[Len(p.parts)]
    IN  IF \/ p.flaw \in Flaws \/ Absolute(p) \/ kept = <<>>
           \/ \E k \in DOMAIN p.parts :
                 p.parts[k] \notin Redundant /\ ~Component(p.parts[k])
        THEN Err ELSE kept

\* SinkFile::create fails where an earlier entry has made a file of a directory
\* of this path, or a directory of the path itself.
Blocked(o, k) ==
    LET path(j) == Sanitize(o.files[j].path)
    IN  \E j \in 1..k - 1 : IsStrictPrefix(path(j), path(k)) \/ IsStrictPrefix(path(k), path(j))

\* The checks of one entry, in their order: "abort" ends the session with a
\* notice to the peer, "error" without one.
EntryVerdict(o, k) ==
    LET e == o.files[k]
        path == Sanitize(e.path)
        layout == NewLayout(e.size, o.chunk_size)
    IN  IF path = Err \/ \E j \in 1..k - 1 : Sanitize(o.files[j].path) = path
        THEN "abort"
        ELSE IF layout = Err THEN "error"
        ELSE IF e.size > MaxFileBytes THEN "abort"
        ELSE IF e.hashes # layout.count THEN "error"
        ELSE IF ~e.rooted THEN "abort"
        ELSE IF Blocked(o, k) THEN "error"
        ELSE "ok"

\* The loop over the entries: the first one that is refused decides.
OfferVerdict(o) ==
    LET refused == {k \in DOMAIN o.files : EntryVerdict(o, k) # "ok"}
    IN  IF refused = {} THEN "ok" ELSE EntryVerdict(o, Min(refused))

\* write_control refuses a message above MAX_FRAME_PAYLOAD; of an offer the
\* chunk hashes are what grows.
OfferFits(o) == FoldLeft(LAMBDA n, e : n + e.hashes, 0, o.files) <= MaxHashes

-----------------------------------------------------------------------------
\* Reference: the directory below the output directory, as a stack of names,
\* that a file system is in after each part of a path.
Walk(parts) ==
    LET dir[k \in 0..Len(parts)] ==
          IF k = 0 THEN <<>>
          ELSE IF parts[k] \in Redundant THEN dir[k - 1]
          ELSE IF parts[k] = ".." THEN Front(dir[k - 1])
          ELSE Append(dir[k - 1], OnDisk[parts[k]])
    IN  dir

\* Reference: where a file system that strips trailing dots puts a path; Err
\* is outside the output directory.
Lands(p) ==
    IF Absolute(p)
         \/ \E k \in DOMAIN p.parts : p.parts[k] = ".." /\ Walk(p.parts)[k - 1] = <<>>
    THEN Err
    ELSE Walk(p.parts)[Len(p.parts)]

\* Every file lands below the output directory, and no two on one place.
Apart(o) ==
    /\ \A k \in DOMAIN o.files : Lands(o.files[k].path) \notin {Err, <<>>}
    /\ \A j, k \in DOMAIN o.files :
          j # k => Lands(o.files[j].path) # Lands(o.files[k].path)
=============================================================================
