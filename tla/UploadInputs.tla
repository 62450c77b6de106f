---------------------------- MODULE UploadInputs -----------------------------
(***************************************************************************)
(* Requests and settings the instances of the upload modules are run with. *)
(***************************************************************************)
EXTENDS UploadAdmission

MCPrimarySecret == "new-secret"
MCSecondarySecret == "old-secret"
MCMimeTypes == {"pdf", "docx", "xlsx", "html"}
MCExtendedMimeTypes == MCMimeTypes \union {"csv"}
MCMaxUploadBytes == 100

PdfBody(content) ==
    [content |-> content, signature |-> "pdf", lead |-> 0, size |-> 10]

\* A request every check lets through.
Plain ==
    [headersValid |-> TRUE, formValid |-> TRUE, secret |-> MCPrimarySecret,
     role |-> "COMPANY_MANAGER", level |-> NoLevel, tenant |-> "tenant1",
     mime |-> "pdf", body |-> PdfBody("file1"), overwrite |-> FALSE,
     nameLength |-> 1, access |-> "COMPANY_WIDE", allowedDepartments |-> {},
     allowedLevels |-> {}, allowedUsers |-> {}]

Overwriting == [Plain EXCEPT !.overwrite = TRUE]
OtherTenant == [Plain EXCEPT !.tenant = "tenant2"]
Incoherent == [Plain EXCEPT !.access = "DEPARTMENT"]

\* Requests that pass every check at its boundary.
Spreadsheet == [Plain EXCEPT !.mime = "xlsx", !.body.signature = "zip",
                             !.secret = MCSecondarySecret, !.body.size = MCMaxUploadBytes]
Page == [Plain EXCEPT !.mime = "html", !.body.signature = "doctype", !.body.lead = 2,
                      !.access = "LEVEL", !.allowedLevels = {"ISA"}, !.nameLength = 256]

PlainInput == {Plain}

\* One file with and without overwrite, the same from another tenant, another
\* file, and a request that is refused.
AdapterInputs ==
    {Plain, Overwriting, OtherTenant, [Plain EXCEPT !.body = PdfBody("file2")],
     [Plain EXCEPT !.secret = ""]}

\* The same file from one tenant, with and without overwrite, and from another;
\* other files; and one input for each way a check can end.
AllInputs ==
    {Plain, Overwriting, OtherTenant, Spreadsheet, Page, Incoherent,
     [Incoherent EXCEPT !.overwrite = TRUE],
     [Plain EXCEPT !.access = "LEVEL"],
     [Plain EXCEPT !.access = "EXECUTIVE"],
     [Plain EXCEPT !.headersValid = FALSE],
     [Plain EXCEPT !.secret = ""],
     [Plain EXCEPT !.role = "OWNER"],
     [Plain EXCEPT !.role = "COMPANY_USER"],
     [Plain EXCEPT !.level = "INTERN"],
     [Plain EXCEPT !.allowedLevels = {"INTERN"}],
     [Plain EXCEPT !.nameLength = 257],
     [Plain EXCEPT !.mime = "csv"],
     [Plain EXCEPT !.mime = "txt"],
     [Plain EXCEPT !.mime = "docx"],
     [Plain EXCEPT !.body.lead = 1],
     [Page EXCEPT !.body.lead = 3],
     [Plain EXCEPT !.body.size = MCMaxUploadBytes + 1]}
=============================================================================
