------------------------------- MODULE Intake -------------------------------
(***************************************************************************)
(* What comes in to be published: the archive an agent uploads              *)
(* (archive-intake.ts), how it is looked at before (publish-tools.ts) and   *)
(* stored afterwards (materialize-archive.ts), drafts, and the consent      *)
(* (publish-document.ts, legal-versions.ts).                                *)
(*                                                                          *)
(* A path is a sequence of segments.  A file is [sig, nul, size, whole,     *)
(* entries]: its signature, whether its head has a NUL, its bytes, and what *)
(* a ZIP holds: entries [path, rooted, dir, link, said, real, sig, broken], *)
(* their size as the header says it and as it is.                           *)
(***************************************************************************)
EXTENDS Integers, Sequences, FiniteSets, SequencesExt

CONSTANTS
    Null,          \* absent
    FileMax,       \* ARCHIVE_LIMITS.decodedMax
    InflatedMax,   \* ARCHIVE_LIMITS.uncompressedMax
    ExtOf,         \* the extension of each name of a file
    Recency        \* CONSENT_RECENCY_MS

Fine == "none"

Refused(code) == [error |-> code]

(* The first of some checks that does not hold. *)
FirstError(checks) ==
    LET bad == {i \in DOMAIN checks : checks[i] # Fine}
    IN  IF bad = {} THEN Fine ELSE checks[CHOOSE i \in bad : \A j \in bad : i <= j]

-----------------------------------------------------------------------------
(* The leading bytes. *)

DetectKind(file) ==
    CASE file.sig \in {"zip", "pdf"} -> file.sig
      [] file.sig \notin {"zip", "pdf"} /\ file.nul -> "binary"
      [] OTHER -> "text"

DetectDraftFormat(file) ==
    IF file.sig = "gzip" THEN "gzip-tar" ELSE DetectKind(file)

CheckUploadMagic(file, expected) ==
    IF expected \in {"zip", "pdf"} THEN DetectKind(file) = expected ELSE DetectKind(file) # "binary"

-----------------------------------------------------------------------------
(* The archive. *)

Unsafe(rooted, path) == rooted \/ ".." \in Range(path)

Normal(path) ==
    FoldLeft(LAMBDA done, s :
                CASE s = "." -> done
                  [] s = ".." /\ done # <<>> /\ Last(<<"..">> \o done) # ".." -> Front(done)
                  [] OTHER -> Append(done, s),
             <<>>, path)

EntryError(e) ==
    CASE Unsafe(e.rooted, e.path) -> "archive_path_traversal"
      [] ~Unsafe(e.rooted, e.path) /\ e.link -> "archive_symlink_entry"
      [] OTHER -> Fine

(* Nothing is inflated: the sizes are those of the header. *)
ListArchiveEntries(file) ==
    LET error == FirstError(<<IF file.whole THEN Fine ELSE "archive_extract_failed">>
                            \o [i \in DOMAIN file.entries |-> EntryError(file.entries[i])])
        kept  == SelectSeq(file.entries, LAMBDA e : ~e.dir)
    IN  IF error # Fine THEN Refused(error)
        ELSE [error |-> Fine,
              files |-> [i \in DOMAIN kept |-> [name |-> Normal(kept[i].path), size |-> kept[i].said]]]

(* A file cannot be where a directory is needed, nor a directory where there is
   a file already. *)
InTheWay(files, name) ==
    \E i \in DOMAIN files : files[i].name # name /\ (IsPrefix(files[i].name, name) \/ IsPrefix(name, files[i].name))

(* One entry inflated.  The bytes are counted as they come; the reader itself
   stops where they are not as many as the header says. *)
Inflate(done, e) ==
    LET come  == IF e.real < e.said THEN e.real ELSE e.said
        name  == Normal(e.path)
        error == FirstError(<<
            EntryError(e),
            IF ~e.dir /\ InTheWay(done.files, name) THEN "archive_extract_failed" ELSE Fine,
            IF ~e.dir /\ done.total + come > InflatedMax THEN "archive_uncompressed_too_large" ELSE Fine,
            IF ~e.dir /\ (e.broken \/ e.real # e.said) THEN "archive_extract_failed" ELSE Fine >>)
    IN  CASE done.error # Fine -> done
          [] done.error = Fine /\ error # Fine -> [done EXCEPT !.error = error]
          [] done.error = Fine /\ error = Fine /\ e.dir -> done
          [] OTHER -> [error |-> Fine, total |-> done.total + come,
                       files |-> Append(done.files, [name |-> name, size |-> e.real])]

ExtractArchive(file) ==
    IF ~file.whole THEN [error |-> "archive_extract_failed", total |-> 0, files |-> <<>>]
    ELSE FoldLeft(Inflate, [error |-> Fine, total |-> 0, files |-> <<>>], file.entries)

FormatOf(name) ==
    CASE ExtOf[Last(name)] = "pdf" -> "pdf"
      [] ExtOf[Last(name)] = "tex" -> "latex"
      [] ExtOf[Last(name)] \in {"md", "markdown"} -> "markdown"
      [] OTHER -> "no"

(* The file that is named must be there; without a name there must be exactly
   one at the root that could be it.  named: at most one [path, rooted]. *)
NamedFile(files, asked) ==
    LET name == Normal(asked.path)
    IN  CASE Unsafe(asked.rooted, name) -> Refused("archive_path_traversal")
          [] ~Unsafe(asked.rooted, name) /\ (\E i \in DOMAIN files : files[i].name = name) ->
                 [error |-> Fine, main |-> name]
          [] OTHER -> Refused("archive_main_file_not_found")

ResolveMainFile(files, named) ==
    LET candidates == SelectSeq(files, LAMBDA f : Len(f.name) = 1 /\ FormatOf(f.name) # "no")
    IN  CASE named # {} -> NamedFile(files, CHOOSE n \in named : TRUE)
          [] named = {} /\ Len(candidates) = 1 -> [error |-> Fine, main |-> candidates[1].name]
          [] OTHER -> Refused("archive_main_file_required")

BuildAttachments(files, main) == SelectSeq(files, LAMBDA f : f.name # main)

(* The main file of a listing or an extraction, when its extension is that of
   the format. *)
Chosen(read, named, format) ==
    LET main == ResolveMainFile(read.files, named)
    IN  CASE read.error # Fine -> Refused(read.error)
          [] read.error = Fine /\ main.error # Fine -> main
          [] read.error = Fine /\ main.error = Fine /\ FormatOf(main.main) # format ->
                 Refused("archive_main_file_format_mismatch")
          [] OTHER -> [error |-> Fine, main |-> main.main, attachments |-> BuildAttachments(read.files, main.main)]

-----------------------------------------------------------------------------
(* Looked at before: an archive in base64 (encoded says whether it is), or a
   file that was uploaded. *)

DecodeArchive(encoded, file) ==
    FirstError(<<IF encoded THEN Fine ELSE "invalid_base64",
                 IF file.sig = "zip" THEN Fine ELSE "archive_not_zip",
                 IF file.size <= FileMax THEN Fine ELSE "archive_too_large_decoded">>)

StageArchive(encoded, file, named, format) ==
    LET error == DecodeArchive(encoded, file)
    IN  IF error # Fine THEN Refused(error) ELSE Chosen(ListArchiveEntries(file), named, format)

MainOf(format) == <<CASE format = "latex" -> "main.tex" [] format = "markdown" -> "main.md" [] OTHER -> "main.pdf">>

StageContentRef(file, named, format) ==
    LET kind == DetectKind(file)
    IN  CASE file.size > FileMax -> Refused("archive_too_large_decoded")
          [] file.size <= FileMax /\ kind = "zip" -> Chosen(ListArchiveEntries(file), named, format)
          [] file.size <= FileMax /\ kind # "zip" /\ format = "pdf" /\ kind # "pdf" ->
                 Refused("archive_main_file_format_mismatch")
          [] OTHER -> [error |-> Fine, main |-> MainOf(format), attachments |-> <<>>]

(* Exactly one of the two is given. *)
ValidateContentInputs(archive, ref) == archive # ref

(* Whose an upload is comes before how far it is; rows: at most one. *)
ResolveContentRef(rows, user) ==
    IF rows = {} THEN "content_ref_unknown"
    ELSE LET row == CHOOSE r \in rows : TRUE
         IN  FirstError(<<IF row.user = user THEN Fine ELSE "content_ref_not_yours",
                          IF row.consumed THEN "content_ref_consumed" ELSE Fine,
                          IF row.filled THEN Fine ELSE "content_ref_not_uploaded">>)

-----------------------------------------------------------------------------
(* Stored: the PDF itself, or the tree packed as `eprint`; source/ is made from
   it when it is parsed.  Nothing else stays in the directory. *)

EntryOf(file, name) ==
    LET named == {i \in DOMAIN file.entries : ~file.entries[i].dir /\ Normal(file.entries[i].path) = name}
    IN  file.entries[CHOOSE i \in named : \A j \in named : j <= i]

Materialize(file, named, format) ==
    LET zip     == DetectKind(file) = "zip"
        inside  == Chosen(ExtractArchive(file), named, format)
        content == IF zip THEN EntryOf(file, inside.main) ELSE file
        mismatch == Refused("archive_main_file_format_mismatch")
        kept    == IF zip THEN inside
                   ELSE [error |-> Fine, main |-> IF format = "pdf" THEN <<"paper.pdf">> ELSE MainOf(format),
                         attachments |-> <<>>]
    IN  CASE file.size > FileMax -> Refused("archive_too_large_decoded")
          [] file.size <= FileMax /\ zip /\ inside.error # Fine -> inside
          [] file.size <= FileMax /\ (zip => inside.error = Fine) /\ format = "pdf" ->
                 IF content.sig = "pdf" THEN [kept EXCEPT !.attachments = <<>>] ELSE mismatch
          [] OTHER -> kept

(* What is in the directory afterwards. *)
Stored(file, named, format) ==
    IF Materialize(file, named, format).error # Fine THEN {}
    ELSE {IF format = "pdf" THEN "paper.pdf" ELSE "eprint"}

-----------------------------------------------------------------------------
(* A draft: the uploaded bytes are copied to where the Portal reads them, and
   the upload is used up once the Portal has the draft.                       *)
(* s: [rows, file, copies], of at most one upload; broken: the steps that fail. *)

ResolveDraftParent(parents, user) ==
    IF parents = {} THEN "document_not_found"
    ELSE IF \A p \in parents : p.publisher = user THEN Fine ELSE "not_document_owner"

ConceptOf(parent) == IF parent.concept = Null THEN parent.id ELSE parent.concept

(* Each of the two is tried, whatever became of the other. *)
ConsumeContentRef(s, broken) ==
    [s EXCEPT !.rows = IF "update" \in broken THEN @ ELSE {[r EXCEPT !.consumed = TRUE] : r \in @},
              !.file = IF "unlink" \in broken THEN @ ELSE FALSE]

CreateDraft(s, call, status, broken) ==
    LET error == FirstError(<<
            IF call.user # Null THEN Fine ELSE "user_required",
            IF call.ref THEN Fine ELSE "validation_error",
            ResolveContentRef(s.rows, call.user),
            IF call.revises THEN ResolveDraftParent(call.parents, call.user) ELSE Fine >>)
        copied == "copy" \notin broken /\ s.file
    IN  CASE error # Fine -> [answer |-> error, state |-> s]
          [] error = Fine /\ call.dry -> [answer |-> "would_save", state |-> s]
          [] error = Fine /\ ~call.dry /\ (~copied \/ status \notin 200..299) ->
                 [answer |-> "draft_service_unavailable", state |-> s]
          [] OTHER -> [answer |-> "draft", state |-> ConsumeContentRef([s EXCEPT !.copies = @ + 1], broken)]

(* The draft is published by the Portal, which also charges for it. *)
PublishDraft(user, status) ==
    CASE user = Null -> "user_required"
      [] user # Null /\ status = 403 -> "draft_ownership_denied"
      [] user # Null /\ status = 404 -> "unknown_draft"
      [] user # Null /\ status = 409 -> "stale_parent"
      [] user # Null /\ status \in 200..299 -> "published"
      [] OTHER -> "publish_service_unavailable"

-----------------------------------------------------------------------------
(* The fields of a version: what is given, or else what the version before has. *)
ResolveVersionMetadata(prev, given, default) ==
    [f \in DOMAIN default |->
        CASE given[f] # {} -> given[f]
          [] given[f] = {} /\ prev[f] # {} -> prev[f]
          [] OTHER -> default[f]]

(* Only fields that are known, and only those that are given. *)
PickMetadata(given, known) == [k \in {k \in DOMAIN given \cap known : given[k] # Null} |-> given[k]]

-----------------------------------------------------------------------------
(* Consent.  A reload that fails leaves the versions read before. *)

ConsentKeys == {"tos", "privacy", "dmca", "upload"}

Load(cache, file) ==
    IF file.read /\ \A k \in ConsentKeys : file.versions[k] # Null
    THEN [cached |-> {file.versions}, failed |-> FALSE]
    ELSE [cache EXCEPT !.failed = TRUE]

(* The versions asked for; read for the first time when nothing failed yet. *)
RequiredVersions(cache, file) ==
    IF cache.cached = {} /\ ~cache.failed THEN Load(cache, file) ELSE cache

(* given, and the account below: at most one; at: the times at which it was given. *)
VerifyPortalConsent(given, required, now) ==
    IF given = {} THEN ConsentKeys
    ELSE UNION {{k \in ConsentKeys : g.versions[k] # required[k]}
                \cup (IF \E at \in g.at : now - at \in -Recency..Recency THEN {} ELSE {"accepted_at"}) : g \in given}

VerifyAccountConsent(account) == {k \in ConsentKeys : \A a \in account : a.versions[k] = Null}

(* The body is looked at first, then whose it is, then the consent; account is
   what the Portal says of it, none when it cannot be asked. *)
ConsentError(caller, body, cache, account, now) ==
    FirstError(<<
        IF caller \in {"portal", "mcp"} /\ body.valid THEN Fine ELSE "validation_error",
        IF body.user # Null THEN Fine ELSE "user_required",
        IF cache.cached # {} THEN Fine ELSE "consent_check_unavailable",
        IF caller # "mcp" THEN Fine
        ELSE IF account = {} THEN "consent_check_unavailable"
        ELSE IF VerifyAccountConsent(account) = {} THEN Fine ELSE "account_consent_required",
        IF caller = "portal" /\ \E v \in cache.cached : VerifyPortalConsent(body.consent, v, now) # {}
        THEN "consent_required" ELSE Fine >>)
=============================================================================
