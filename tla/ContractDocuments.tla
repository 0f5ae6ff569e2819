-------------------------- MODULE ContractDocuments -------------------------
(* The PDF of one contract: the document that names the current file and     *)
(* logs every version (Mongo), and the files themselves (GridFS),            *)
(* src/api/src/documents/contract-documents.service.ts, with the handlers of *)
(* src/api/src/contracts/contracts.service.ts that store, stamp, view and    *)
(* purge it.                                                                 *)
(*                                                                           *)
(* Every await is a step of its own, any call may fail, and a request may    *)
(* stop for good where it is. A request stores one file at most, which is    *)
(* named after it.                                                           *)
EXTENDS Naturals, Sequences

CONSTANTS
  Signatory,
  PdfRequest,   \* each serves one call of the API
  NoFile,
  NoDoc         \* the contract has no document

Does == {"create", "sign", "generate"}
Entry == [action : Does \cup {"viewed"}, file : PdfRequest \cup {NoFile}]
Doc == [current : PdfRequest, auditLog : Seq(Entry)]

ASSUME PdfConstants == NoFile \notin PdfRequest /\ NoDoc \notin Doc

VARIABLES
  imported,     \* the contract was uploaded, not written from a template
  contract,     \* absent, kept, or dropped by a failed import
  signatures,   \* the signatories whose signature is recorded
  doc,          \* pdfFileId and auditLog, or NoDoc
  files,        \* the files in GridFS
  stamps,       \* the signatures that a file shows
  request,      \* what every request does next
  purged,       \* history: purgeContract began
  overlapped    \* history: two requests worked on the PDF at once

pdfVars == <<imported, contract, signatures, doc, files, stamps, request,
             purged, overlapped>>

Stored == {"lookup", "write", "update"}
Working == {"base", "open"} \cup Stored

PdfTypeOK ==
  /\ imported \in BOOLEAN
  /\ contract \in {"absent", "kept", "dropped"}
  /\ signatures \subseteq Signatory
  /\ doc # NoDoc => doc \in Doc /\ doc.auditLog # <<>>
  /\ files \subseteq PdfRequest
  /\ stamps \in [PdfRequest -> SUBSET Signatory]
  /\ DOMAIN request = PdfRequest

PdfInit ==
  /\ imported \in BOOLEAN
  /\ contract = "absent"
  /\ signatures = {}
  /\ doc = NoDoc
  /\ files = {}
  /\ stamps = [r \in PdfRequest |-> {}]
  /\ request = [r \in PdfRequest |-> [pc |-> "new"]]
  /\ purged = FALSE
  /\ overlapped = FALSE

At(r, pc) == request[r].pc = pc
Go(r, pc) == request' = [request EXCEPT ![r].pc = pc]

\* A new request starts to work on the PDF.
Begin(r, job) ==
  /\ At(r, "new")
  /\ request' = [request EXCEPT ![r] = job]
  /\ overlapped' = (overlapped \/ \E q \in PdfRequest : request[q].pc \in Working)

\* importContract and createServiceContract: the contract is saved, and then
\* its first PDF is stored.
SaveContract(r) ==
  /\ contract = "absent"
  /\ contract' = "kept"
  /\ Begin(r, [pc |-> "lookup", does |-> "create", shows |-> {}])
  /\ UNCHANGED <<imported, signatures, doc, files, stamps, purged>>

\* sign records the signature, then stampSignedPdf stamps the PDF.
RecordSignature(r, s) ==
  /\ contract = "kept"
  /\ s \notin signatures
  /\ signatures' = signatures \cup {s}
  /\ Begin(r, [pc |-> "base", does |-> "sign", shows |-> {s}])
  /\ UNCHANGED <<imported, contract, doc, files, stamps, purged>>

\* getPdfStream logs the view of a PDF.
LogView ==
  IF doc = NoDoc THEN doc
  ELSE [doc EXCEPT !.auditLog = Append(@, [action |-> "viewed", file |-> NoFile])]

\* getContractPdf: the document is streamed and the view logged, unless the
\* same user viewed it within ten seconds; without a document the PDF is
\* rebuilt, save that of an imported contract.
ViewPdf(r) ==
  /\ contract = "kept"
  /\ IF doc # NoDoc
     THEN /\ At(r, "new") /\ Go(r, "done")
          /\ doc' \in {doc, LogView}
          /\ UNCHANGED overlapped
     ELSE /\ ~imported
          /\ Begin(r, [pc |-> "lookup", does |-> "generate", shows |-> {}])
          /\ UNCHANGED doc
  /\ UNCHANGED <<imported, contract, signatures, files, stamps, purged>>

-----------------------------------------------------------------------------
\* Mutant of CurrentFile: stamps are put on the first version.
FirstFile == doc.auditLog[1].file

CurrentFile == doc.current

\* getCurrentPdf: the document is read, and then the file that it named.
ReadBase(r) ==
  /\ At(r, "base")
  /\ request' = [request EXCEPT ![r] =
       IF doc = NoDoc THEN [pc |-> "done", does |-> "sign"]
       ELSE [pc |-> "open", does |-> "sign", shows |-> @.shows,
             base |-> CurrentFile]]
  /\ UNCHANGED <<imported, contract, signatures, doc, files, stamps, purged,
                 overlapped>>

StampBase(r) ==
  /\ At(r, "open")
  /\ request[r].base \in files
  /\ request' = [request EXCEPT ![r] =
       [pc |-> "lookup", does |-> "sign",
        shows |-> @.shows \cup stamps[@.base]]]
  /\ UNCHANGED <<imported, contract, signatures, doc, files, stamps, purged,
                 overlapped>>

\* storePdf: the versions before this one.
LookUp(r) ==
  /\ At(r, "lookup")
  /\ request' = [request EXCEPT ![r] =
       [pc |-> "write", does |-> @.does, shows |-> @.shows,
        superseded |-> IF doc = NoDoc THEN NoFile ELSE doc.current,
        original |-> IF doc = NoDoc THEN NoFile ELSE doc.auditLog[1].file]]
  /\ UNCHANGED <<imported, contract, signatures, doc, files, stamps, purged,
                 overlapped>>

\* writeToGridFs
WriteFile(r) ==
  /\ At(r, "write")
  /\ files' = files \cup {r}
  /\ stamps' = [stamps EXCEPT ![r] = request[r].shows]
  /\ Go(r, "update")
  /\ UNCHANGED <<imported, contract, signatures, doc, purged, overlapped>>

\* The upsert: the new file becomes current and is logged.
Publish(r) ==
  LET entry == [action |-> request[r].does, file |-> r]
  IN  doc' = [current |-> r,
              auditLog |-> IF doc = NoDoc THEN <<entry>>
                           ELSE Append(doc.auditLog, entry)]

UpdateDoc(r) ==
  /\ At(r, "update")
  /\ Publish(r)
  /\ Go(r, "reclaim")
  /\ UNCHANGED <<imported, contract, signatures, files, stamps, purged,
                 overlapped>>

\* Mutant of Superseded: the original is reclaimed too.
SupersededAlways(r) == {request[r].superseded} \ {r, NoFile}

\* The file to reclaim: neither the original nor the new one.
Superseded(r) == {request[r].superseded} \ {r, request[r].original, NoFile}

\* The superseded file is deleted, or stays if the deletion fails.
Reclaim(r) ==
  /\ At(r, "reclaim")
  /\ \E gone \in SUBSET Superseded(r) : files' = files \ gone
  /\ Go(r, CASE request[r].does = "sign" -> "stamped"
             [] request[r].does = "create" -> "link"
             [] request[r].does = "generate" -> "stream")
  /\ UNCHANGED <<imported, contract, signatures, doc, stamps, purged,
                 overlapped>>

\* getContractPdf streams the PDF it rebuilt, which logs a view.
StreamRebuilt(r) ==
  /\ At(r, "stream")
  /\ doc' = LogView
  /\ Go(r, "done")
  /\ UNCHANGED <<imported, contract, signatures, files, stamps, purged,
                 overlapped>>

\* The contract is saved with the file's id.
LinkFile(r) ==
  /\ At(r, "link")
  /\ Go(r, "done")
  /\ UNCHANGED <<imported, contract, signatures, doc, files, stamps, purged,
                 overlapped>>

-----------------------------------------------------------------------------
\* What follows a failure: an import rolls back, every other caller logs it or
\* answers with an error.
Failing(r) ==
  IF request[r].does = "create" /\ imported THEN "purge" ELSE "done"

\* A call fails without an effect.
FailCall(r) ==
  /\ request[r].pc \in Working \cup {"link", "stream"}
  /\ Go(r, Failing(r))
  /\ UNCHANGED <<imported, contract, signatures, doc, files, stamps, purged,
                 overlapped>>

\* The update is applied and its acknowledgement lost.
LoseUpdate(r) ==
  /\ At(r, "update")
  /\ Publish(r)
  /\ Go(r, Failing(r))
  /\ UNCHANGED <<imported, contract, signatures, files, stamps, purged,
                 overlapped>>

\* purgeContract: the files that the document names are deleted as far as
\* possible ...
PurgeFiles(r) ==
  LET named == IF doc = NoDoc THEN {}
               ELSE {doc.current} \cup
                    {doc.auditLog[i].file : i \in DOMAIN doc.auditLog}
  IN  /\ At(r, "purge")
      /\ \E gone \in SUBSET named : files' = files \ gone
      /\ purged' = TRUE
      /\ Go(r, "dropDoc")
      /\ UNCHANGED <<imported, contract, signatures, doc, stamps, overlapped>>

\* ... then the document, and then the contract itself.
DropDoc(r) ==
  /\ At(r, "dropDoc")
  /\ doc' = NoDoc
  /\ Go(r, "dropContract")
  /\ UNCHANGED <<imported, contract, signatures, files, stamps, purged,
                 overlapped>>

\* A call of purgeContract fails: the import drops the contract all the same.
SkipPurge(r) ==
  /\ request[r].pc \in {"purge", "dropDoc"}
  /\ purged' = TRUE
  /\ Go(r, "dropContract")
  /\ UNCHANGED <<imported, contract, signatures, doc, files, stamps, overlapped>>

DropContract(r) ==
  /\ At(r, "dropContract")
  /\ contract' = "dropped"
  /\ Go(r, "done")
  /\ UNCHANGED <<imported, signatures, doc, files, stamps, purged, overlapped>>

\* The process dies: the request goes no further.
StopRequest(r) ==
  /\ request[r].pc \notin {"new", "done", "stamped"}
  /\ Go(r, "done")
  /\ UNCHANGED <<imported, contract, signatures, doc, files, stamps, purged,
                 overlapped>>

PdfNext ==
  \E r \in PdfRequest :
    \/ SaveContract(r)
    \/ \E s \in Signatory : RecordSignature(r, s)
    \/ ViewPdf(r)
    \/ ReadBase(r)
    \/ StampBase(r)
    \/ LookUp(r)
    \/ WriteFile(r)
    \/ UpdateDoc(r)
    \/ Reclaim(r)
    \/ LinkFile(r)
    \/ StreamRebuilt(r)
    \/ FailCall(r)
    \/ LoseUpdate(r)
    \/ PurgeFiles(r)
    \/ DropDoc(r)
    \/ SkipPurge(r)
    \/ DropContract(r)
    \/ StopRequest(r)

PdfSpec == PdfInit /\ [][PdfNext]_pdfVars

-----------------------------------------------------------------------------
\* The current version and the original are readable at any time, whatever
\* stores overlap, fail or stop half-way: a file is written before it is named
\* and reclaimed after another one is. contract-documents.service.ts:62-103.
CurrentFileIsStored ==
  doc # NoDoc /\ ~purged =>
    /\ doc.current \in files
    /\ doc.auditLog[1].file \in files

\* The current PDF shows every signature whose stamp was answered for, through
\* any failures, unless two requests worked on the PDF at once: each stamps
\* the version it read, and the later one wins. contracts.service.ts:588-635.
StampsAreKept ==
  \A r \in PdfRequest :
    At(r, "stamped") /\ ~overlapped /\ ~purged =>
      /\ doc # NoDoc
      /\ stamps[r] \subseteq stamps[doc.current]
=============================================================================
