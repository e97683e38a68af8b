----------------------------- MODULE MCMethodist -----------------------------
(***************************************************************************)
(* The instance of Methodist that TLC explores: a first-stage hand-in, one *)
(* of the second stage, the same with its stage as text, and one whose     *)
(* stage is no number, on two calls at a time.  With it TLC evaluates      *)
(* the intake of archives, drafts and consent (Intake): small archives,    *)
(* and what must hold of what is done with them.                           *)
(***************************************************************************)
EXTENDS Methodist, Sequences, FiniteSets, SequencesExt, TLC

HandIn(hash, type, num) == [hash |-> hash, stage |-> [type |-> type, num |-> num]]

MCHandIns == {HandIn("a", "number", 1), HandIn("b", "number", 2), HandIn("b", "digits", 2), HandIn("a", "text", 0)}
NoPayload == HandIn("none", "absent", 0)
AllKinds  == {"checkpoint", "ask", "need"}
AnyCall   == Permutations(Calls)

-----------------------------------------------------------------------------
(* The intake. *)

Nothing == "null"

IntakeExts ==
    [n \in {"a.tex", "b.tex", "a.md", "a.pdf", "x.png", "d", "main.tex", "main.md", "main.pdf"} |->
        CASE n \in {"a.tex", "b.tex", "main.tex"} -> "tex"
          [] n \in {"a.md", "main.md"} -> "md"
          [] n \in {"a.pdf", "main.pdf"} -> "pdf"
          [] n = "x.png" -> "png"
          [] OTHER -> ""]

I == INSTANCE Intake WITH Null <- Nothing, FileMax <- 2, InflatedMax <- 2, ExtOf <- IntakeExts, Recency <- 1

Entry == [path |-> <<"a.tex">>, rooted |-> FALSE, dir |-> FALSE, link |-> FALSE,
          said |-> 1, real |-> 1, sig |-> "text", broken |-> FALSE]

Entries ==
    {[Entry EXCEPT !.path = p] :
        p \in {<<"a.tex">>, <<".", "a.tex">>, <<"b.tex">>, <<"d", "a.tex">>, <<"d">>, <<"..", "a.tex">>, <<"a.md">>}}
    \cup {[Entry EXCEPT !.path = <<"a.pdf">>, !.sig = s] : s \in {"pdf", "text"}}
    \cup {[Entry EXCEPT !.path = <<"d">>, !.dir = TRUE, !.said = 0, !.real = 0],
          [Entry EXCEPT !.path = <<"x.png">>, !.real = 3], [Entry EXCEPT !.said = 2, !.real = 2],
          [Entry EXCEPT !.link = TRUE], [Entry EXCEPT !.rooted = TRUE], [Entry EXCEPT !.broken = TRUE]}

ZipOf(entries) == [sig |-> "zip", nul |-> TRUE, size |-> 1, whole |-> TRUE, entries |-> entries]

Plain(sig, nul) == [sig |-> sig, nul |-> nul, size |-> 1, whole |-> TRUE, entries |-> <<>>]

Uploads ==
    {ZipOf(es) : es \in UNION {[1..n -> Entries] : n \in 0..2}}
    \cup {ZipOf(<<e, f, g>>) : e, f, g \in {[Entry EXCEPT !.path = p] : p \in {<<"a.tex">>, <<"d", "a.tex">>}}}
    \cup {Plain(sig, nul) : sig \in {"pdf", "gzip", "text"}, nul \in BOOLEAN}
    \cup {[ZipOf(<<Entry>>) EXCEPT !.size = 3], [ZipOf(<<Entry>>) EXCEPT !.whole = FALSE], [Plain("pdf", TRUE) EXCEPT !.size = 3]}

Names ==
    {{}}
    \cup {{[path |-> p, rooted |-> FALSE]} :
            p \in {<<"a.tex">>, <<"d", "..", "a.tex">>, <<"d", "a.tex">>, <<"..", "a.tex">>, <<"a.pdf">>}}

Formats == {"latex", "markdown", "pdf"}

AsNamed(staged) == {[path |-> staged.main, rooted |-> FALSE]}

(* What was looked at and found good is stored under the same main file and with
   the same attachments, unless only the inflated content shows what is wrong;
   and what was refused before is not stored. *)
ASSUME StagedIsStored ==
    \A file \in Uploads, named \in Names, format \in Formats :
        LET staged == I!StageContentRef(file, named, format)
            stored == I!Materialize(file, AsNamed(staged), format)
            zip    == I!DetectKind(file) = "zip"
        IN  IF staged.error # "none"
            THEN I!Materialize(file, named, format).error # "none"
            ELSE /\ stored.error = "none" /\ zip => stored.main = staged.main
                 /\ stored.error = "none" /\ format # "pdf" => stored = staged
                 /\ stored.error # "none" =>
                       /\ zip
                       /\ \/ \E i \in DOMAIN file.entries : file.entries[i].real # file.entries[i].said \/ file.entries[i].broken
                          \/ \E i, j \in DOMAIN file.entries :
                                i # j /\ I!Normal(file.entries[i].path) = <<"d">> /\ file.entries[j].path[1] = "d"
                          \/ stored.error = "archive_uncompressed_too_large"
                          \/ format = "pdf" /\ stored.error = "archive_main_file_format_mismatch"

(* A base64 archive is treated as the same file uploaded. *)
ASSUME BothWaysAlike ==
    \A file \in Uploads, named \in Names, format \in Formats :
        file.sig = "zip" => I!StageArchive(TRUE, file, named, format) = I!StageContentRef(file, named, format)

(* Nothing is written outside the directory, nor more than may be; and every file
   is the main file or an attachment. *)
ASSUME WithinBounds ==
    \A file \in Uploads :
        LET out == I!ExtractArchive(file)
        IN  out.error = "none" =>
            /\ FoldLeft(LAMBDA sum, f : sum + f.size, 0, out.files) <= 2
            /\ \A i \in DOMAIN file.entries : ~file.entries[i].link
            /\ \A i \in DOMAIN out.files : {"..", "."} \cap ToSet(out.files[i].name) = {}
            /\ \A named \in Names, format \in Formats :
                  LET got == I!Materialize(file, named, format)
                  IN  got.error = "none" /\ format # "pdf" /\ file.sig = "zip" =>
                         LET beside == {got.attachments[i].name : i \in DOMAIN got.attachments}
                         IN  /\ {out.files[i].name : i \in DOMAIN out.files} = {got.main} \cup beside
                             /\ got.main \notin beside
                             /\ named = {} => Len(got.main) = 1

(* A file that passed as what it was declared to be is accepted as that. *)
ASSUME DeclaredIsAccepted ==
    \A file \in Uploads :
        /\ I!CheckUploadMagic(file, "pdf") /\ file.size <= 2 =>
              I!StageContentRef(file, {}, "pdf").error = "none" /\ I!Materialize(file, {}, "pdf").error = "none"
        /\ I!CheckUploadMagic(file, "zip") => I!StageArchive(TRUE, file, {}, "latex").error \notin {"archive_not_zip"}
        /\ I!CheckUploadMagic(file, "any") => I!DetectDraftFormat(file) # "binary"

(* The same file under another spelling of its path is the same file. *)
ASSUME SpelledAlike ==
    \A file \in Uploads, format \in Formats :
        I!StageContentRef(file, {[path |-> <<"d", "..", "a.tex">>, rooted |-> FALSE]}, format)
            = I!StageContentRef(file, {[path |-> <<".", "a.tex">>, rooted |-> FALSE]}, format)

-----------------------------------------------------------------------------
Rows == {{}} \cup {{r} : r \in [user : {"ann", "bob"}, consumed : BOOLEAN, filled : BOOLEAN]}

Messages ==
    [user : {"ann", Nothing}, ref : BOOLEAN, revises : BOOLEAN, dry : BOOLEAN,
     parents : {{}} \cup {{[id |-> 1, concept |-> Nothing, publisher |-> u]} : u \in {"ann", "bob"}}]

(* Whoever does not own an upload learns nothing of how far it is. *)
ASSUME OwnershipFirst ==
    \A r, q \in UNION Rows :
        r.user = q.user /\ r.user # "ann" => I!ResolveContentRef({r}, "ann") = I!ResolveContentRef({q}, "ann")

(* A call that does not make a draft changes nothing; one that does leaves a copy
   of the bytes; a dry run refuses what the call would refuse for its inputs; and
   an upload makes one draft, unless marking it failed. *)
ASSUME DraftOrNothing ==
    \A rows \in Rows, m \in Messages, status \in {0, 200, 500}, broken \in SUBSET {"copy", "update", "unlink"} :
        LET s == [rows |-> rows, file |-> \E r \in rows : r.filled, copies |-> 0]
            done == I!CreateDraft(s, m, status, broken)
            dry  == I!CreateDraft(s, [m EXCEPT !.dry = TRUE], 0, {})
            again == I!CreateDraft(done.state, m, 200, {})
        IN  /\ done.answer # "draft" => done.state = s
            /\ done.answer = "draft" =>
                  /\ done.state.copies = 1 /\ ~m.dry
                  /\ m.revises => m.parents # {} /\ \A p \in m.parents : p.publisher = m.user
                  /\ broken \cap {"update", "unlink"} # {"update", "unlink"} => again.answer # "draft"
            /\ done.answer = dry.answer \/ dry.answer = "would_save"
            /\ done.answer \in {"draft", "draft_service_unavailable"} <=> ~m.dry /\ dry.answer = "would_save"

(* A draft counts as published only when the Portal says so. *)
ASSUME PublishedWhenTold ==
    \A status \in {0, 200, 201, 302, 400, 403, 404, 409, 500} :
        I!PublishDraft("ann", status) = "published" <=> status \in {200, 201}

(* A list that is given wins, even when it is empty. *)
ASSUME GivenWins ==
    \A prev, given \in [{"keywords"} -> {{}, {<<>>}, {<<"k">>}}] :
        LET got == I!ResolveVersionMetadata(prev, given, [keywords |-> {<<>>}])
        IN  /\ got["keywords"] # {}
            /\ given["keywords"] # {} => got = given

(* Every field that a draft shows as kept is one that was given. *)
ASSUME OnlyKnownFields ==
    \A given \in [{"doi", "authors", "typo"} -> {"x", Nothing}] :
        LET kept == I!PickMetadata(given, {"doi", "authors"})
        IN  \A k \in DOMAIN given : k \in DOMAIN kept <=> k # "typo" /\ given[k] # Nothing

-----------------------------------------------------------------------------
SomeVersions == {[k \in I!ConsentKeys |-> "v1"], [k \in I!ConsentKeys |-> "v2"], [k \in I!ConsentKeys |-> IF k = "tos" THEN "v2" ELSE "v1"]}
LegalFiles ==
    {[read |-> TRUE, versions |-> v] : v \in SomeVersions}
    \cup {[read |-> TRUE, versions |-> [k \in I!ConsentKeys |-> IF k = "dmca" THEN Nothing ELSE "v1"]],
          [read |-> FALSE, versions |-> [k \in I!ConsentKeys |-> Nothing]]}

Fresh == [cached |-> {}, failed |-> FALSE]

Bodies ==
    [valid : BOOLEAN, user : {"ann", Nothing},
     consent : {{}} \cup {{c} : c \in [versions : SomeVersions, at : {{0}, {1}, {2}, {4}, {}}]}]

(* However often the file is read again, what is asked for was in a whole file;
   nothing is published without one, or without the consent asked for. *)
ASSUME ConsentFailsClosed ==
    \A f1, f2 \in LegalFiles, body \in Bodies, caller \in {"portal", "mcp", "other"},
       account \in {{}} \cup {{[versions |-> v]} : v \in SomeVersions \cup {[k \in I!ConsentKeys |-> Nothing]}} :
        LET cache == I!RequiredVersions(I!Load(I!Load(Fresh, f1), f2), f2)
            good  == {f \in {f1, f2} : f.read /\ \A k \in I!ConsentKeys : f.versions[k] # Nothing}
            passed == I!ConsentError(caller, body, cache, account, 2) = "none"
        IN  /\ cache.cached = {} <=> good = {}
            /\ f2 \in good => cache.cached = {f2.versions}
            /\ passed => /\ good # {} /\ body.user # Nothing
                         /\ caller = "mcp" => account # {} /\ \A a \in account, k \in I!ConsentKeys : a.versions[k] # Nothing
                         /\ caller = "portal" =>
                               {c.versions : c \in body.consent} = cache.cached /\ \A c \in body.consent : c.at # {} /\ c.at \subseteq 1..3
=============================================================================
