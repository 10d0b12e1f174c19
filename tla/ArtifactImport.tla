--------------------------- MODULE ArtifactImport ---------------------------
(***************************************************************************)
(* Importing application packages: routes/artifacts.ts receives an upload  *)
(* or names a file below the import root, a build provider validates,      *)
(* stages, parses and publishes it, and the repository catalogues it in    *)
(* SQLite.  The store is content-addressed: sha256/<digest>/<name>.        *)
(* Several requests run at once in one server; every await of the code is  *)
(* a step here.  A transaction of better-sqlite3 is synchronous, so it is  *)
(* one step with the code around it up to the next await.                  *)
(***************************************************************************)
EXTENDS Naturals, FiniteSets

CONSTANTS Importer,         \* the requests that may be in progress
          ImportDigest,     \* the contents, by their sha256
          ImportName,       \* the names files are uploaded under
          ImportMayCrash    \* whether the server may be restarted once

ASSUME ImportAssumption == ImportMayCrash \in BOOLEAN

ImportKind == {"APK", "AAB"}
NoName == "none"

(***************************************************************************)
(* route "import" uploads into the shared import source, "build" names a   *)
(* file that is already there, "unity" runs the build command first and    *)
(* delegates to the import provider.                                       *)
(***************************************************************************)
ImportRoute == {"import", "build", "unity"}

VARIABLES
  imp,            \* the requests
  onDisk,         \* <<digest, name>>: the files of the content store
  hashDirs,       \* the digests whose directory exists
  partials,       \* the requests whose .partial file lies in .staging
  spool,          \* where the uploaded file of a request is
  sourceDir,      \* whether the selected import source exists
  storedName,     \* artifact_contents: the name in stored_path, by digest
  artifacts,      \* artifacts: <<kind, digest>>
  attempts        \* artifact_import_attempts: <<request, state>>

importVars == <<imp, onDisk, hashDirs, partials, spool, sourceDir, storedName,
                artifacts, attempts>>

NoImport == [step |-> "idle", route |-> "build", kind |-> "APK",
             name |-> NoName, sum |-> NoName, file |-> NoName,
             created |-> FALSE, outer |-> FALSE, inner |-> FALSE,
             answer |-> "none"]

ImportSteps ==
  {"idle", "uploaded", "sourced", "executing", "validating", "opening",
   "staging", "parsing", "looking", "renaming", "cataloguing", "withdrawing",
   "removing", "discarding", "answering", "cleaning", "listing", "emptying",
   "done", "crashed"}

ImportTypeOK ==
  /\ \A i \in Importer :
       /\ imp[i].step \in ImportSteps
       /\ imp[i].route \in ImportRoute
       /\ imp[i].answer \in {"none", "CREATED", "DEDUPLICATED", "REJECTED",
                             "FAILED", "CANCELLED"}
  /\ onDisk \subseteq ImportDigest \X ImportName
  /\ hashDirs \subseteq ImportDigest
  /\ partials \subseteq Importer
  /\ storedName \in [ImportDigest -> ImportName \cup {NoName}]
  /\ artifacts \subseteq ImportKind \X ImportDigest

ImportInit ==
  /\ imp = [i \in Importer |-> NoImport]
  /\ onDisk = {} /\ hashDirs = {} /\ partials = {}
  /\ spool = [i \in Importer |-> "none"]
  /\ sourceDir = FALSE
  /\ storedName = [d \in ImportDigest |-> NoName]
  /\ artifacts = {} /\ attempts = {}

At(i, step) == imp[i].step = step
Moved(i, step) == imp' = [imp EXCEPT ![i].step = step]
Answered(i, answer, step) ==
  imp' = [imp EXCEPT ![i].answer = answer, ![i].step = step]

(***************************************************************************)
(* A failure of the import provider: what was staged is discarded, and a   *)
(* build that was aborted answers CANCELLED whatever had failed.           *)
(***************************************************************************)
Cancelled(i) == imp[i].inner \/ imp[i].outer
Failure(i) == IF Cancelled(i) THEN "CANCELLED" ELSE "FAILED"

--------------------------------------------------------------------------
(* routes/artifacts.ts *)

\* receiveUpload: a broken upload removes its own directory and is answered.
ImportUpload(i) ==
  /\ At(i, "idle")
  /\ \E k \in ImportKind, n \in ImportName, d \in ImportDigest :
       \/ /\ imp' = [imp EXCEPT ![i] =
                       [NoImport EXCEPT !.step = "uploaded", !.route = "import",
                                        !.kind = k, !.name = n, !.sum = d]]
          /\ spool' = [spool EXCEPT ![i] = "upload"]
       \/ /\ Answered(i, "REJECTED", "done")
          /\ UNCHANGED spool
  /\ UNCHANGED <<onDisk, hashDirs, partials, sourceDir, storedName, artifacts,
                 attempts>>

\* The other two ways in: the file is below the root before the request.
ImportBuild(i) ==
  /\ At(i, "idle")
  /\ \E k \in ImportKind, n \in ImportName, d \in ImportDigest,
        r \in {"build", "unity"} :
       imp' = [imp EXCEPT ![i] =
                 [NoImport EXCEPT !.step = IF r = "unity" THEN "executing"
                                                          ELSE "validating",
                                  !.route = r, !.kind = k, !.name = n,
                                  !.sum = d]]
  /\ UNCHANGED <<onDisk, hashDirs, partials, spool, sourceDir, storedName,
                 artifacts, attempts>>

ImportMakeSource(i) ==
  /\ At(i, "uploaded")
  /\ sourceDir' = TRUE
  /\ Moved(i, "sourced")
  /\ UNCHANGED <<onDisk, hashDirs, partials, spool, storedName, artifacts,
                 attempts>>

\* The rename out of the upload directory fails when another request's
\* removeEmptyDirectory took the import source away since the mkdir.
ImportMoveUpload(i) ==
  /\ At(i, "sourced")
  /\ IF sourceDir
     THEN spool' = [spool EXCEPT ![i] = "source"] /\ Moved(i, "validating")
     ELSE UNCHANGED spool /\ Answered(i, "REJECTED", "cleaning")
  /\ UNCHANGED <<onDisk, hashDirs, partials, sourceDir, storedName, artifacts,
                 attempts>>

\* finally: the uploaded file goes, the request's own upload directory stays.
ImportClean(i) ==
  /\ At(i, "cleaning")
  /\ spool' = [spool EXCEPT ![i] = "none"]
  /\ Moved(i, "listing")
  /\ UNCHANGED <<onDisk, hashDirs, partials, sourceDir, storedName, artifacts,
                 attempts>>

\* removeEmptyDirectory reads the directory, then removes it recursively.
InSource == {i \in Importer : spool[i] = "source"}

ImportListSource(i) ==
  /\ At(i, "listing")
  /\ Moved(i, IF InSource = {} THEN "emptying" ELSE "done")
  /\ UNCHANGED <<onDisk, hashDirs, partials, spool, sourceDir, storedName,
                 artifacts, attempts>>

ImportRemoveSource(i) ==
  /\ At(i, "emptying")
  /\ sourceDir' = FALSE
  /\ spool' = [j \in Importer |-> IF spool[j] = "source" THEN "gone"
                                                         ELSE spool[j]]
  /\ Moved(i, "done")
  /\ UNCHANGED <<onDisk, hashDirs, partials, storedName, artifacts, attempts>>

\* Mutant: the import provider too looks at the abort once more at the end.
AnswerRechecksAbort(i) ==
  /\ At(i, "answering")
  /\ imp' = [imp EXCEPT
       ![i].answer = IF Cancelled(i) THEN "CANCELLED" ELSE @,
       ![i].step = IF imp[i].route = "import" THEN "cleaning" ELSE "done"]
  /\ UNCHANGED <<onDisk, hashDirs, partials, spool, sourceDir, storedName,
                 artifacts, attempts>>

\* The provider's outcome becomes the answer; only an upload is cleaned up.
ImportAnswer(i) ==
  /\ At(i, "answering")
  /\ imp' = [imp EXCEPT
       ![i].answer = IF imp[i].route = "unity" /\ imp[i].outer
                     THEN "CANCELLED" ELSE @,
       ![i].step = IF imp[i].route = "import" THEN "cleaning" ELSE "done"]
  /\ UNCHANGED <<onDisk, hashDirs, partials, spool, sourceDir, storedName,
                 artifacts, attempts>>

--------------------------------------------------------------------------
(* unity-command-build-provider.ts and artifact-import-provider.ts *)

\* The build command: it may fail or not start; an abort kills it.
ImportExecute(i) ==
  /\ At(i, "executing")
  /\ \/ ~imp[i].outer /\ Moved(i, "validating")
     \/ Answered(i, Failure(i), "answering")
  /\ UNCHANGED <<onDisk, hashDirs, partials, spool, sourceDir, storedName,
                 artifacts, attempts>>

\* The checks of collectValidationIssues stand for one outcome; a file that
\* another request removed is not there, and an abort is seen afterwards.
Readable(i) == imp[i].route # "import" \/ spool[i] = "source"

ImportValidate(i) ==
  /\ At(i, "validating")
  /\ \/ Readable(i) /\ ~imp[i].inner /\ Moved(i, "opening")
     \/ Answered(i, Failure(i), "answering")
  /\ UNCHANGED <<onDisk, hashDirs, partials, spool, sourceDir, storedName,
                 artifacts, attempts>>

\* stage opens its .partial, and reads the source that was validated before.
ImportOpen(i) ==
  /\ At(i, "opening")
  /\ partials' = partials \cup {i}
  /\ Moved(i, "staging")
  /\ UNCHANGED <<onDisk, hashDirs, spool, sourceDir, storedName, artifacts,
                 attempts>>

ImportStage(i) ==
  /\ At(i, "staging")
  /\ \/ /\ Readable(i)
        /\ Moved(i, IF imp[i].inner THEN "discarding" ELSE "parsing")
        /\ UNCHANGED partials
     \/ /\ partials' = partials \ {i}
        /\ Answered(i, Failure(i), "answering")
  /\ UNCHANGED <<onDisk, hashDirs, spool, sourceDir, storedName, artifacts,
                 attempts>>

ImportParse(i) ==
  /\ At(i, "parsing")
  /\ \/ ~imp[i].inner /\ Moved(i, "looking")
     \/ Moved(i, "discarding")
  /\ UNCHANGED <<onDisk, hashDirs, partials, spool, sourceDir, storedName,
                 artifacts, attempts>>

ImportDiscard(i) ==
  /\ At(i, "discarding")
  /\ partials' = partials \ {i}
  /\ Answered(i, Failure(i), "answering")
  /\ UNCHANGED <<onDisk, hashDirs, spool, sourceDir, storedName, artifacts,
                 attempts>>

\* cancel(buildId): the inner build's id is known from its first event on.
ImportCancel(i) ==
  /\ imp[i].step \in {"executing", "validating", "opening", "staging",
                      "parsing", "looking", "renaming", "cataloguing",
                      "withdrawing", "removing"}
  /\ ~imp[i].outer /\ ~imp[i].inner
  /\ imp' = [imp EXCEPT
       ![i].outer = imp[i].route = "unity",
       ![i].inner = \/ imp[i].route # "unity"
                    \/ imp[i].step \notin {"executing", "validating"}]
  /\ UNCHANGED <<onDisk, hashDirs, partials, spool, sourceDir, storedName,
                 artifacts, attempts>>

--------------------------------------------------------------------------
(* content-store.ts, publish and removePublished *)

FilesOf(d) == {f \in onDisk : f[1] = d}

\* Mutant: the staged copy of a file that is already there is forgotten.
ReuseKeepsPartial(i, f) ==
  /\ UNCHANGED partials
  /\ imp' = [imp EXCEPT ![i].file = f[2], ![i].created = FALSE,
                        ![i].step = "cataloguing"]

\* A file of this digest is already there: it is reused, under its own name.
Reuse(i, f) ==
  /\ partials' = partials \ {i}
  /\ imp' = [imp EXCEPT ![i].file = f[2], ![i].created = FALSE,
                        ![i].step = "cataloguing"]

ImportLook(i) ==
  /\ At(i, "looking")
  /\ hashDirs' = hashDirs \cup {imp[i].sum}
  /\ \/ \E f \in FilesOf(imp[i].sum) : Reuse(i, f)
     \/ /\ FilesOf(imp[i].sum) = {}
        /\ Moved(i, "renaming") /\ UNCHANGED partials
  /\ UNCHANGED <<onDisk, spool, sourceDir, storedName, artifacts, attempts>>

\* rename replaces a file of the same name.  It fails without its directory,
\* or because the system refuses; then another request's file is looked for.
ImportRename(i) ==
  /\ At(i, "renaming")
  /\ \/ /\ imp[i].sum \in hashDirs
        /\ onDisk' = onDisk \cup {<<imp[i].sum, imp[i].name>>}
        /\ partials' = partials \ {i}
        /\ imp' = [imp EXCEPT ![i].file = imp[i].name, ![i].created = TRUE,
                              ![i].step = "cataloguing"]
     \/ /\ UNCHANGED onDisk
        /\ \/ \E f \in FilesOf(imp[i].sum) : Reuse(i, f)
           \/ /\ FilesOf(imp[i].sum) = {}
              /\ partials' = partials \ {i}
              /\ Moved(i, "discarding")
  /\ UNCHANGED <<hashDirs, spool, sourceDir, storedName, artifacts, attempts>>

\* removePublished takes away only what this request had created, and the
\* directory when nothing else is in it.
\* Mutant: the file goes whoever had put it there.
WithdrawnAnyway(i) == {<<imp[i].sum, imp[i].file>>}

Withdrawn(i) == IF imp[i].created THEN {<<imp[i].sum, imp[i].file>>} ELSE {}

ImportWithdraw(i) ==
  /\ At(i, "withdrawing")
  /\ onDisk' = onDisk \ Withdrawn(i)
  /\ Moved(i, IF imp[i].created THEN "removing" ELSE "discarding")
  /\ UNCHANGED <<hashDirs, partials, spool, sourceDir, storedName, artifacts,
                 attempts>>

ImportRemoveDir(i) ==
  /\ At(i, "removing")
  /\ hashDirs' = IF FilesOf(imp[i].sum) = {} THEN hashDirs \ {imp[i].sum}
                                             ELSE hashDirs
  /\ Moved(i, "discarding")
  /\ UNCHANGED <<onDisk, partials, spool, sourceDir, storedName, artifacts,
                 attempts>>

--------------------------------------------------------------------------
(* artifact-repository.ts, publishSource *)

Catalogued(i) == <<imp[i].kind, imp[i].sum>> \in artifacts

ImportDeduplicate(i) ==
  /\ At(i, "cataloguing") /\ Catalogued(i)
  /\ attempts' = attempts \cup {<<i, "DEDUPLICATED">>}
  /\ Answered(i, "DEDUPLICATED", "answering")
  /\ UNCHANGED <<onDisk, hashDirs, partials, spool, sourceDir, storedName,
                 artifacts>>

\* The insert: artifact_contents is keyed by the digest alone.
ImportInsert(i) ==
  /\ At(i, "cataloguing") /\ ~Catalogued(i)
  /\ storedName[imp[i].sum] = NoName
  /\ storedName' = [storedName EXCEPT ![imp[i].sum] = imp[i].file]
  /\ artifacts' = artifacts \cup {<<imp[i].kind, imp[i].sum>>}
  /\ attempts' = attempts \cup {<<i, "PUBLISHED">>}
  /\ Answered(i, "CREATED", "answering")
  /\ UNCHANGED <<onDisk, hashDirs, partials, spool, sourceDir>>

\* The transaction throws: the digest is there under the other kind, or the
\* database refuses the write.
ImportInsertFails(i) ==
  /\ At(i, "cataloguing") /\ ~Catalogued(i)
  /\ attempts' = attempts \cup {<<i, "FAILED">>}
  /\ Moved(i, "withdrawing")
  /\ UNCHANGED <<onDisk, hashDirs, partials, spool, sourceDir, storedName,
                 artifacts>>

\* The server stops and starts: the files stay, and nothing looks for them.
ImportCrash ==
  /\ ImportMayCrash
  /\ \A i \in Importer : ~At(i, "crashed")
  /\ \E i \in Importer : imp[i].step \notin {"idle", "done"}
  /\ imp' = [i \in Importer |-> IF imp[i].step \in {"idle", "done"} THEN imp[i]
                                ELSE [imp[i] EXCEPT !.step = "crashed"]]
  /\ UNCHANGED <<onDisk, hashDirs, partials, spool, sourceDir, storedName,
                 artifacts, attempts>>

ImportNext ==
  \/ ImportCrash
  \/ \E i \in Importer :
       \/ ImportUpload(i) \/ ImportBuild(i) \/ ImportMakeSource(i)
       \/ ImportMoveUpload(i) \/ ImportClean(i) \/ ImportListSource(i)
       \/ ImportRemoveSource(i) \/ ImportAnswer(i) \/ ImportExecute(i)
       \/ ImportValidate(i) \/ ImportOpen(i) \/ ImportStage(i)
       \/ ImportParse(i) \/ ImportDiscard(i) \/ ImportCancel(i)
       \/ ImportLook(i) \/ ImportRename(i) \/ ImportWithdraw(i)
       \/ ImportRemoveDir(i) \/ ImportDeduplicate(i) \/ ImportInsert(i)
       \/ ImportInsertFails(i)

--------------------------------------------------------------------------
(***************************************************************************)
(* A catalogued artifact loses its file only to a request that had put     *)
(* the file there and did not get to catalogue it: two requests for the    *)
(* same bytes never take the file from each other otherwise.  (That this   *)
(* much can happen is the hazard noted in the README: the withdrawing      *)
(* request does not ask whether somebody else catalogued its file.)        *)
(***************************************************************************)
FilesAreLostOnlyByWithdrawal ==
  \A d \in ImportDigest :
    storedName[d] # NoName /\ <<d, storedName[d]>> \notin onDisk =>
      \E i \in Importer :
        /\ imp[i].sum = d /\ imp[i].created
        /\ imp[i].answer \notin {"CREATED", "DEDUPLICATED"}

(***************************************************************************)
(* A request that has been answered leaves no .partial file in .staging,   *)
(* on whichever of the paths it left (published, reused, lost the race,    *)
(* refused by the parser, cancelled, failed in the transaction).           *)
(***************************************************************************)
AnsweredLeavesNoPartial ==
  \A i \in Importer : imp[i].step \in {"answering", "cleaning", "done"} =>
                        i \notin partials

(***************************************************************************)
(* A build of the import provider that answers CANCELLED has catalogued    *)
(* nothing.  (The Unity provider does not keep this: an abort that arrives *)
(* during the delegated publish is answered CANCELLED over a new artifact.)*)
(***************************************************************************)
CancelledCataloguedNothing ==
  \A i \in Importer : imp[i].answer = "CANCELLED" /\ imp[i].route # "unity" =>
                        <<i, "PUBLISHED">> \notin attempts

(***************************************************************************)
(* Imports are clean: whichever way a request ends, it leaves the          *)
(* catalogue and the content store as its answer says.                     *)
(***************************************************************************)
ImportsAreClean ==
  ImportTypeOK /\ FilesAreLostOnlyByWithdrawal /\ AnsweredLeavesNoPartial /\ CancelledCataloguedNothing
=============================================================================
