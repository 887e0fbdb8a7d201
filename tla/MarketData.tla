------------------------------ MODULE MarketData ------------------------------
(***************************************************************************)
(* How a dataset is read (src/train_and_eval/market_data/                  *)
(* load_market_data.py): the manifest of the data pipeline, the check of a *)
(* file against it, and the loading of the rows, one step per access to    *)
(* the disk.  The pipeline's files and manifest are imported from outside, *)
(* one file at a time, whatever the program is doing.                      *)
(*                                                                         *)
(* A file's content is a record [sha256, size_bytes, rows, first, last,    *)
(* schema]; contents with one sha256 are one content.  A manifest is a     *)
(* record [structural_error_count, warning_event_count, warning_counts,    *)
(* status, validation, acceptance, files] whose files are entries [path,   *)
(* interval, approved, sha256, size_bytes, rows, first, last]; interval    *)
(* and timestamps are in minutes.  Types, versions and the spelling of     *)
(* paths and timestamps are left out.                                      *)
(***************************************************************************)
EXTENDS Integers, FiniteSetsExt

CONSTANT NoValue

VARIABLES store,        \* [manifest, files]: what lies on the disk
          reader        \* [stage, entry, frame]: where the reading process is

vars == <<store, reader>>

Stages == {"idle", "found", "verified", "checked", "read", "loaded", "refused"}

(* _validate_manifest: a release with warnings must have been accepted by  *)
(* somebody, one without must not claim to have been.                      *)
WarningsSettled(m) ==
    IF m.warning_event_count > 0
    THEN /\ m.status = "published_with_warnings" /\ m.validation = "passed_with_warnings"
         /\ m.acceptance.required /\ m.acceptance.accepted = TRUE
         /\ m.acceptance.mode \in {"interactive", "cli_flag"}
         /\ m.acceptance.accepted_at # NoValue
    ELSE /\ m.status = "published" /\ m.validation = "passed"
         /\ ~m.acceptance.required /\ m.acceptance.accepted = NoValue
         /\ m.acceptance.mode = "not_required" /\ m.acceptance.accepted_at = NoValue

EntryValid(e) ==
    /\ e.approved
    /\ e.rows >= 1 /\ e.size_bytes >= 1
    /\ e.first <= e.last
    /\ e.first % e.interval = 0 /\ e.last % e.interval = 0

ManifestValid(m) ==
    /\ m.structural_error_count = 0
    /\ MapThenSumSet(LAMBDA kind : m.warning_counts[kind], DOMAIN m.warning_counts)
           = m.warning_event_count
    /\ WarningsSettled(m)
    /\ m.files # {}
    /\ \A e \in m.files : EntryValid(e)
    /\ \A e, f \in m.files : e.path = f.path \/ e.interval = f.interval => e = f

Matches(content, entry) ==
    content.size_bytes = entry.size_bytes /\ content.sha256 = entry.sha256

(* verify_loaded_frame.                                                    *)
FrameMatches(content, entry) ==
    /\ content.rows = entry.rows
    /\ content.first = entry.first /\ content.last = entry.last

-----------------------------------------------------------------------------
Idle == [stage |-> "idle", entry |-> NoValue, frame |-> NoValue]

Refused == [Idle EXCEPT !.stage = "refused"]

Advance(accepted, next) ==
    /\ reader' = IF accepted THEN next ELSE Refused
    /\ UNCHANGED store

(* resolve_data_file and load_manifest: the file is there, and the         *)
(* manifest is valid and names it once.                                    *)
ReadManifest(path) ==
    /\ reader.stage = "idle"
    /\ LET entries == {e \in store.manifest.files : e.path = path}
       IN  Advance(path \in DOMAIN store.files /\ ManifestValid(store.manifest)
                     /\ Cardinality(entries) = 1,
                   [stage |-> "found", entry |-> CHOOSE e \in entries : TRUE,
                    frame |-> NoValue])

(* verify_market_data: size and SHA-256 of the file as it is now.          *)
VerifyFile(path) ==
    /\ reader.stage = "found"
    /\ Advance(Matches(store.files[path], reader.entry), [reader EXCEPT !.stage = "verified"])

(* validate_parquet_schema: the columns of the file as it is now.          *)
CheckSchema(path) ==
    /\ reader.stage = "verified"
    /\ Advance(store.files[path].schema, [reader EXCEPT !.stage = "checked"])

(* load_market_data: the rows as they are now.                             *)
ReadFrame(path) ==
    /\ reader.stage = "checked"
    /\ Advance(FrameMatches(store.files[path], reader.entry),
               [reader EXCEPT !.stage = "read", !.frame = store.files[path]])

(* load_market_data: "Data file has changed while loading".                *)
VerifyAgain(path) ==
    /\ reader.stage = "read"
    /\ Advance(store.files[path].sha256 = reader.entry.sha256,
               [reader EXCEPT !.stage = "loaded"])

Verify(path) == ReadManifest(path) \/ VerifyFile(path)

Load(path) == Verify(path) \/ CheckSchema(path) \/ ReadFrame(path) \/ VerifyAgain(path)

(* An import of the next release replaces the file and the manifest, in    *)
(* either order.                                                           *)
ImportFile(path, content) ==
    /\ store.files[path] # content
    /\ store' = [store EXCEPT !.files[path] = content]
    /\ UNCHANGED reader

ImportManifest(manifest) ==
    /\ store.manifest # manifest
    /\ store' = [store EXCEPT !.manifest = manifest]
    /\ UNCHANGED reader
=============================================================================
