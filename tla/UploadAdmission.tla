--------------------------- MODULE UploadAdmission ---------------------------
(***************************************************************************)
(* The checks an upload request passes before anything is written: the     *)
(* header dependency, the endpoint and the validation steps of             *)
(* UploadDocumentUseCase.execute, in the order the code runs them.  They   *)
(* are pure: each is an operator on the submitted request, a record with   *)
(*   headersValid, formValid  FastAPI could parse the typed headers / form *)
(*   secret, role, level      X-Internal-Auth, X-Role, X-Level             *)
(*   tenant                   X-Tenant-Id                                  *)
(*   mime, body, overwrite    the file and overwrite_if_duplicate          *)
(*   nameLength, access, allowedDepartments, allowedLevels, allowedUsers   *)
(* A body is [content, signature, lead, size]: which bytes it holds, the   *)
(* file signature they contain, how many bytes precede it, and its length. *)
(* MIME types are named by their extension, levels by their romanisation.  *)
(***************************************************************************)
EXTENDS Integers, Sequences

CONSTANTS
    PrimarySecret,      \* internal_auth_secret_primary
    SecondarySecret,    \* internal_auth_secret_secondary, "" when unset
    AllowedMimeTypes,   \* the parsed allowed_mime_types
    MaxUploadBytes      \* max_upload_bytes

Roles ==
    {"WITIVE_SUPER_ADMIN", "COMPANY_ADMIN", "COMPANY_MANAGER", "COMPANY_USER"}

Levels == {"SAWON", "JUIM", "DAERI", "GWAJANG", "CHAJANG",
           "BUJANG", "ISA", "SANGMU", "JUNMU", "SAJANG"}

NoLevel == "NO_LEVEL"   \* the X-Level header is absent

-----------------------------------------------------------------------------
(***************************************************************************)
(* One operator per check.                                                 *)
(***************************************************************************)

\* Dual-key comparison: a secret that is not configured matches nothing.
SecretAccepted(secret) ==
    \E key \in {PrimarySecret, SecondarySecret} : key # "" /\ secret = key

IsManagerOrAbove(role) ==
    role \in {"WITIVE_SUPER_ADMIN", "COMPANY_ADMIN", "COMPANY_MANAGER"}

SignatureLength == [pdf |-> 5, zip |-> 4, doctype |-> 14, htmlTag |-> 5]

HeadLength == 16    \* bytes of the body the signature check looks at

\* The signature lies wholly inside the inspected head of the body.
InHead(body) ==
    body.lead + SignatureLength[body.signature] <= HeadLength

\* PDF and the two ZIP formats must start with their signature; HTML may carry
\* it anywhere in the head; a MIME type the check does not know passes.
MagicBytesMatch(mime, body) ==
    /\ mime = "pdf" => body.signature = "pdf" /\ body.lead = 0
    /\ mime \in {"docx", "xlsx"} => body.signature = "zip" /\ body.lead = 0
    /\ mime = "html" => /\ body.signature \in {"doctype", "htmlTag"}
                        /\ InHead(body)

\* Document.__post_init__: the audience the access level needs is not empty.
DocumentCoherent(in) ==
    /\ in.nameLength \in 1..256
    /\ in.access = "DEPARTMENT" => in.allowedDepartments # {}
    /\ in.access = "LEVEL" => in.allowedLevels # {}
    /\ in.access = "EXECUTIVE" => in.allowedUsers # {}

\* The extensions the storage key of the original can be given.
MimeToExt == {"pdf", "docx", "xlsx", "html"}

-----------------------------------------------------------------------------
(***************************************************************************)
(* The checks in the order they run, up to the first await on a store.     *)
(* UNPROCESSABLE stands for FastAPI's own 422 answer.                      *)
(***************************************************************************)
HeaderChecks(in) ==
    << [passes |-> in.headersValid,                  code |-> "UNPROCESSABLE"],
       [passes |-> SecretAccepted(in.secret),        code |-> "UNAUTHORIZED"],
       [passes |-> in.role \in Roles,                code |-> "INVALID_REQUEST"],
       [passes |-> in.level \in Levels \union {NoLevel},
                                                     code |-> "INVALID_REQUEST"] >>

FormChecks(in) ==
    << [passes |-> in.formValid /\ in.nameLength \in 1..256,
                                                     code |-> "UNPROCESSABLE"],
       [passes |-> in.allowedLevels \subseteq Levels, code |-> "INVALID_REQUEST"] >>

FileChecks(in) ==
    << [passes |-> IsManagerOrAbove(in.role),        code |-> "FORBIDDEN"],
       [passes |-> in.mime \in AllowedMimeTypes,     code |-> "UNSUPPORTED_MEDIA_TYPE"],
       [passes |-> MagicBytesMatch(in.mime, in.body),
                                                     code |-> "UNSUPPORTED_MEDIA_TYPE"],
       [passes |-> in.body.size <= MaxUploadBytes,   code |-> "PAYLOAD_TOO_LARGE"] >>

AdmissionChecks(in) == HeaderChecks(in) \o FormChecks(in) \o FileChecks(in)

Admitted(in) ==
    \A i \in 1..Len(AdmissionChecks(in)) : AdmissionChecks(in)[i].passes

\* The i-th check is the one that refuses the request.
RefusedBy(in, i) ==
    /\ ~AdmissionChecks(in)[i].passes
    /\ \A j \in 1..(i - 1) : AdmissionChecks(in)[j].passes

-----------------------------------------------------------------------------
(***************************************************************************)
(* Answers: the error code, the HTTP status it maps to and the retryable   *)
(* flag of the error envelope.  UNHANDLED is an exception no handler maps. *)
(***************************************************************************)
HttpStatus ==
    [ACCEPTED               |-> 202,
     INVALID_REQUEST        |-> 400,
     UNAUTHORIZED           |-> 401,
     FORBIDDEN              |-> 403,
     DUPLICATE_FILE         |-> 409,
     PAYLOAD_TOO_LARGE      |-> 413,
     UNSUPPORTED_MEDIA_TYPE |-> 415,
     UNPROCESSABLE          |-> 422,
     INTERNAL_ERROR         |-> 500,
     UNHANDLED              |-> 500]

Codes == DOMAIN HttpStatus

Answer(code, retryable) ==
    [code |-> code, status |-> HttpStatus[code], retryable |-> retryable]

Answers == [code : Codes, status : Nat, retryable : BOOLEAN]
=============================================================================
